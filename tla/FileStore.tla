----------------------------- MODULE FileStore -----------------------------
(***************************************************************************)
(* What the file commands of the kernel shell promise: a map from names to   *)
(* texts.  A name is cut when a file is created and taken whole when one is   *)
(* looked up; create and write may be refused, a refused call changes        *)
(* nothing; an empty file cannot be read.                                    *)
(***************************************************************************)
EXTENDS Sequences

CONSTANTS
  Names,  \* names a command may be given
  Stored, \* Stored[n]: the name a file created as n gets
  Texts   \* texts a command may write

VARIABLES
  content, \* the text of every file there is
  reply    \* outcome of the last command

Refused  == [ok |-> FALSE, text |-> <<>>]
Accepted == [ok |-> TRUE, text |-> <<>>]

Init ==
  /\ content = [n \in {} |-> <<>>]
  /\ reply = Accepted

\* Creating a file that exists leaves it as it is.
Create(n) ==
  LET s == Stored[n]
  IN  \/ /\ content' = [m \in DOMAIN content \cup {s} |->
                          IF m \in DOMAIN content THEN content[m] ELSE <<>>]
         /\ reply' = Accepted
      \/ UNCHANGED content /\ reply' = Refused

Write(n, t) ==
  \/ /\ n \in DOMAIN content
     /\ content' = [content EXCEPT ![n] = t]
     /\ reply' = Accepted
  \/ UNCHANGED content /\ reply' = Refused

Read(n) ==
  /\ UNCHANGED content
  /\ reply' = IF n \in DOMAIN content /\ content[n] # <<>>
              THEN [ok |-> TRUE, text |-> content[n]]
              ELSE Refused

Next ==
  \E n \in Names : Create(n) \/ Read(n) \/ \E t \in Texts : Write(n, t)

Spec == Init /\ [][Next]_<<content, reply>>
=============================================================================

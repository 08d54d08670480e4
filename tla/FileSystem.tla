---------------------------- MODULE FileSystem ----------------------------
(***************************************************************************)
(* The in-memory file system (filesystem/filesystem.c) on its block chains   *)
(* (filesystem/fat.c), and what the shell's create, write and read commands  *)
(* report of it.                                                             *)
(*                                                                          *)
(* A command runs inside the keyboard interrupt, so no two overlap; the loop *)
(* of write_file is nevertheless taken one block per step, because it gives  *)
(* up in the middle when the blocks run out.                                 *)
(***************************************************************************)
EXTENDS Integers, Sequences

CONSTANTS
  MAX_FILES,
  MAX_BLOCKS,
  BLOCK_SIZE,
  Names,      \* names a command may be given
  NoName,     \* the empty name, which marks a free entry
  Stored,     \* Stored[n]: the first MAX_FILENAME - 1 characters of n
  Chars,      \* characters a command may write
  NUL,
  Texts,      \* texts a command may write
  READ_BUF    \* bytes of the read command's buffer

ASSUME FileSystemAssumption ==
  /\ MAX_FILES \in Nat \ {0}
  /\ MAX_BLOCKS \in Nat \ {0}
  /\ BLOCK_SIZE \in Nat \ {0}
  /\ NoName \notin Names
  /\ Stored \in [Names -> Names]
  /\ \A n \in Names : Stored[Stored[n]] = Stored[n]
  /\ NUL \notin Chars
  /\ Texts \subseteq Seq(Chars)
  /\ READ_BUF \in Nat \ {0}
  /\ \A t \in Texts : Len(t) + BLOCK_SIZE <= READ_BUF  \* a line is shorter

VARIABLES
  files,       \* the directory
  fat_table,   \* for each block: FREE, END or the next block of its chain
  data_blocks,
  call,        \* the local variables of write_file, while it runs
  reply        \* what the last command reported

vars == <<files, fat_table, data_blocks, call, reply>>

-----------------------------------------------------------------------------

FREE == -1
END  == -2
NONE == -1  \* no block, no entry

Entries == 0 .. MAX_FILES - 1
Blocks  == 0 .. MAX_BLOCKS - 1
Data    == [1 .. BLOCK_SIZE -> Chars \cup {NUL}]

FileEntry ==
  [name : Names \cup {NoName}, size : Nat, start_block : Blocks \cup {NONE}]

WriteCall ==
  [file          : Entries \cup {NONE},
   data          : Seq(Chars),
   bytes_written : Nat,
   first_block   : Blocks \cup {NONE},
   prev_block    : Blocks \cup {NONE}]

NoCall == [file |-> NONE, data |-> <<>>, bytes_written |-> 0,
           first_block |-> NONE, prev_block |-> NONE]

Refused  == [ok |-> FALSE, text |-> <<>>]
Accepted == [ok |-> TRUE, text |-> <<>>]

\* fs_init and fat_init; data_blocks is zeroed static memory.
Init ==
  /\ files = [i \in Entries |-> [name |-> NoName, size |-> 0, start_block |-> NONE]]
  /\ fat_table = [b \in Blocks |-> FREE]
  /\ data_blocks = [b \in Blocks |-> [k \in 1 .. BLOCK_SIZE |-> NUL]]
  /\ call = NoCall
  /\ reply = Accepted

Idle == call.file = NONE

-----------------------------------------------------------------------------
(* The directory.                                                           *)

\* i is the entry the scan for a name stops at.
find_file_Last(name, i) ==  \* faulty: the scan does not stop at the first
  /\ i \in Entries
  /\ files[i].name = name
  /\ \A j \in Entries : files[j].name = name => j <= i

find_file(name, i) ==
  /\ i \in Entries
  /\ files[i].name = name
  /\ \A j \in Entries : files[j].name = name => i <= j

Missing(name) == \A i \in Entries : files[i].name # name

FreeEntry(i) ==
  /\ files[i].name = NoName
  /\ \A j \in Entries : files[j].name = NoName => i <= j

\* A name that exists is not looked for: a second entry of that name is made.
create_file(name) ==
  /\ Idle
  /\ \/ \E i \in Entries :
          /\ FreeEntry(i)
          /\ files' = [files EXCEPT ![i] = [name |-> Stored[name], size |-> 0,
                                            start_block |-> NONE]]
          /\ reply' = Accepted
     \/ /\ Missing(NoName)
        /\ reply' = Refused
        /\ UNCHANGED files
  /\ UNCHANGED <<fat_table, data_blocks, call>>

-----------------------------------------------------------------------------
(* Writing: a new chain is built block by block, and only a complete one is  *)
(* entered into the directory.  The chain it replaces is not given back.     *)

write_file_Appends(name, data) ==  \* faulty: a rewrite continues the old chain
  /\ Idle
  /\ \E i \in Entries :
       /\ find_file(name, i)
       /\ call' = [NoCall EXCEPT !.file = i, !.data = data,
                                 !.first_block = files[i].start_block,
                                 !.prev_block = files[i].start_block]
  /\ UNCHANGED <<files, fat_table, data_blocks, reply>>

write_file(name, data) ==
  /\ Idle
  /\ \/ \E i \in Entries :
          /\ find_file(name, i)
          /\ call' = [NoCall EXCEPT !.file = i, !.data = data]
          /\ UNCHANGED reply
     \/ /\ Missing(name)
        /\ reply' = Refused
        /\ UNCHANGED call
  /\ UNCHANGED <<files, fat_table, data_blocks>>

Free_OrEnd ==  \* faulty: the last block of a chain counts as free
  {b \in Blocks : fat_table[b] \in {FREE, END}}

Free == {b \in Blocks : fat_table[b] = FREE}

\* The fat_table after allocate_block has returned b.
allocate_block_Unmarked(b) == fat_table  \* faulty: no END is stored

allocate_block(b) == [fat_table EXCEPT ![b] = END]

set_next_block_Swapped(fat, current, next) ==  \* faulty: arguments exchanged
  [fat EXCEPT ![next] = current]

set_next_block(fat, current, next) == [fat EXCEPT ![current] = next]

WrittenAfter ==
  IF call.bytes_written + BLOCK_SIZE < Len(call.data)
  THEN call.bytes_written + BLOCK_SIZE
  ELSE Len(call.data)

\* One iteration of the loop.
write_block ==
  /\ call.bytes_written < Len(call.data)
  /\ \E b \in Free :
       /\ \A c \in Free : b <= c
       /\ fat_table' = IF call.prev_block = NONE
                       THEN allocate_block(b)
                       ELSE set_next_block(allocate_block(b), call.prev_block, b)
       /\ data_blocks' =
            [data_blocks EXCEPT ![b] =
               [k \in 1 .. BLOCK_SIZE |->
                  IF call.bytes_written + k <= Len(call.data)
                  THEN call.data[call.bytes_written + k]
                  ELSE @[k]]]
       /\ call' = [call EXCEPT
                     !.first_block = IF @ = NONE THEN b ELSE @,
                     !.prev_block = b,
                     !.bytes_written = WrittenAfter]
  /\ UNCHANGED <<files, reply>>

\* The blocks taken so far stay taken.
write_out_of_blocks ==
  /\ call.bytes_written < Len(call.data)
  /\ Free = {}
  /\ call' = NoCall
  /\ reply' = Refused
  /\ UNCHANGED <<files, fat_table, data_blocks>>

NewStart_Kept(entry) ==  \* faulty: a rewritten file keeps its first chain
  IF entry.start_block = NONE THEN call.first_block ELSE entry.start_block

NewStart(entry) == call.first_block

write_finish ==
  /\ ~Idle
  /\ call.bytes_written >= Len(call.data)
  /\ files' = [files EXCEPT ![call.file].start_block = NewStart(files[call.file]),
                            ![call.file].size = Len(call.data)]
  /\ call' = NoCall
  /\ reply' = Accepted
  /\ UNCHANGED <<fat_table, data_blocks>>

-----------------------------------------------------------------------------
(* Reading: whole blocks, up to the end of the chain; the size is not used.  *)

Bytes[b \in Blocks \cup {FREE, END}] ==
  IF b \in Blocks THEN data_blocks[b] \o Bytes[fat_table[b]] ELSE <<>>

\* What print shows of a buffer that is closed with a NUL.
Printed(bytes) ==
  LET n == CHOOSE n \in 0 .. Len(bytes) :
             /\ \A k \in 1 .. n : bytes[k] # NUL
             /\ n = Len(bytes) \/ bytes[n + 1] = NUL
  IN  SubSeq(bytes, 1, n)

\* The read command takes no bytes for a failure.
read_file(name) ==
  /\ Idle
  /\ reply' =
       IF \E i \in Entries : find_file(name, i) /\ Bytes[files[i].start_block] # <<>>
       THEN LET i == CHOOSE i \in Entries : find_file(name, i)
            IN  [ok |-> TRUE, text |-> Printed(Bytes[files[i].start_block])]
       ELSE Refused
  /\ UNCHANGED <<files, fat_table, data_blocks, call>>

-----------------------------------------------------------------------------

Next ==
  \/ \E name \in Names :
       \/ create_file(name)
       \/ read_file(name)
       \/ \E data \in Texts : write_file(name, data)
  \/ write_block
  \/ write_out_of_blocks
  \/ write_finish

Spec == Init /\ [][Next]_vars

-----------------------------------------------------------------------------
(* Correctness.                                                             *)

TypeOK ==
  /\ files \in [Entries -> FileEntry]
  /\ fat_table \in [Blocks -> Blocks \cup {FREE, END}]
  /\ data_blocks \in [Blocks -> Data]
  /\ call \in WriteCall
  /\ call.bytes_written <= Len(call.data)
  /\ reply.ok \in BOOLEAN

\* Every chain ends, so the loop of read_file does: a link leads to a higher
\* block, and to one that is taken.  It rests on allocate_block's first fit and
\* on blocks never coming back, over any sequence of whole and broken writes.
LinksAscend ==
  \A b \in Blocks :
    fat_table[b] \in Blocks => /\ b < fat_table[b]
                              /\ fat_table[fat_table[b]] # FREE

\* No block belongs to two chains: at most one entry, one link or the write
\* under way refers to it, and none to a free block.
NoSharedBlocks ==
  /\ \A i, j \in Entries :
       files[i].start_block \in Blocks
         => /\ fat_table[files[i].start_block] # FREE
            /\ i # j => files[i].start_block # files[j].start_block
            /\ files[i].start_block # call.first_block
  /\ \A b, c \in Blocks :
       fat_table[b] \in Blocks => /\ b # c => fat_table[b] # fat_table[c]
                                 /\ fat_table[b] # call.first_block
                                 /\ \A i \in Entries :
                                      fat_table[b] # files[i].start_block

\* The size the directory shows is that of the text read_file returns, although
\* read_file copies whole blocks and never looks at it: holds only because a
\* block is never written twice.
SizeIsLength ==
  \A i \in Entries : files[i].size = Len(Printed(Bytes[files[i].start_block]))

\* The read command's buffer on the stack has room for every file and the NUL
\* that closes it (kernel_shell.c:278-286), although read_file is told no limit
\* and copies whole blocks: a chain is never longer than its last write.
ReadFits ==
  \A i \in Entries : Len(Bytes[files[i].start_block]) < READ_BUF

\* A block once written is frozen, whether its write succeeded, failed or was
\* superseded; only the last block of the write under way gets its link.
WrittenBlocksFrozen ==
  [][\A b \in Blocks :
       fat_table[b] # FREE =>
         /\ data_blocks'[b] = data_blocks[b]
         /\ b # call.prev_block => fat_table'[b] = fat_table[b]]_vars

\* The files as the commands' user sees them.
Found == {name \in Names : ~Missing(name)}

Content ==
  [name \in Found |->
     LET i == CHOOSE i \in Entries : find_file(name, i)
     IN  Printed(Bytes[files[i].start_block])]

Store == INSTANCE FileStore WITH content <- Content

\* The commands implement the store: a write replaces the text at its last step
\* or not at all, whatever it did to the blocks before it failed, creating an
\* existing file changes nothing, and reading gives the last text written.
ImplementsStore == Store!Spec

\* "-1 --> free block" (fat.c:5), "freeing the block" (fat.c:27): between
\* commands a block that no file can reach is free.
Reach[b \in Blocks \cup {FREE, END}] ==
  IF b \in Blocks THEN {b} \cup Reach[fat_table[b]] ELSE {}

NoLostBlocks ==
  Idle => \A b \in Blocks :
            \/ fat_table[b] = FREE
            \/ \E i \in Entries : b \in Reach[files[i].start_block]
=============================================================================

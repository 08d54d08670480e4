------------------------- MODULE FileSystemProofs -------------------------
(***************************************************************************)
(* Theorems about the block chains of the file system, for every number of   *)
(* entries and blocks, every block size and every text: first the shape of   *)
(* the chains, then what they hold, then that the commands implement         *)
(* FileStore.                                                                *)
(***************************************************************************)
EXTENDS FileSystem, Induction, SequenceTheorems

\* What the write under way knows of its chain: it has a first block exactly if
\* it has a last one, the last one is an END, and first fit has left nothing
\* free at or below it, which is why the next link will ascend.
CallInv ==
  /\ Idle => call = NoCall
  /\ call.first_block = NONE <=> call.prev_block = NONE
  /\ call.first_block \in Blocks => fat_table[call.first_block] # FREE
  /\ call.prev_block \in Blocks =>
       /\ fat_table[call.prev_block] = END
       /\ \A c \in Blocks : c <= call.prev_block => fat_table[c] # FREE

IInv == TypeOK /\ LinksAscend /\ NoSharedBlocks /\ CallInv

LEMMA NotBlocks == FREE \notin Blocks /\ END \notin Blocks /\ FREE # END
BY SMT DEF FREE, END, Blocks

LEMMA NoCallType == NoCall \in WriteCall
BY Zenon, SMT DEF NoCall, WriteCall, NONE

LEMMA InitIInv == Init => IInv
PROOF
<1> SUFFICES ASSUME Init PROVE IInv
  OBVIOUS
<1> USE DEF Init
<1>1. TypeOK
  <2>1. files \in [Entries -> FileEntry]
    BY SMT DEF FileEntry
  <2>2. data_blocks \in [Blocks -> Data]
    BY SMT DEF Data
  <2>3. call.bytes_written <= Len(call.data)
    BY SMT DEF NoCall
  <2> QED  BY <2>1, <2>2, <2>3, NoCallType DEF TypeOK, Accepted
<1>2. \A b \in Blocks : fat_table[b] \notin Blocks
  BY NotBlocks
<1>3. \A i \in Entries : files[i].start_block \notin Blocks
  BY NotBlocks DEF NONE, FREE
<1>4. LinksAscend /\ NoSharedBlocks
  BY <1>2, <1>3 DEF LinksAscend, NoSharedBlocks
<1>5. CallInv
  BY NotBlocks DEF CallInv, NoCall, NONE, FREE
<1> QED  BY <1>1, <1>4, <1>5 DEF IInv

-----------------------------------------------------------------------------
(* The one step that changes the chains.                                    *)

\* What an iteration of write_file's loop does to the table: it takes b and
\* links the previous block to it.
LEMMA BlockTaken ==
  ASSUME IInv, write_block
  PROVE  \E b \in Blocks :
           /\ fat_table[b] = FREE
           /\ \A c \in Blocks : c < b => fat_table[c] # FREE
           /\ fat_table' \in [Blocks -> Blocks \cup {FREE, END}]
           /\ fat_table'[b] = END
           /\ \A c \in Blocks \ {b} :
                fat_table'[c] = IF c = call.prev_block THEN b ELSE fat_table[c]
           /\ \A c \in Blocks \ {b} : data_blocks'[c] = data_blocks[c]
           /\ data_blocks'[b] = [k \in 1 .. BLOCK_SIZE |->
                                   IF call.bytes_written + k <= Len(call.data)
                                   THEN call.data[call.bytes_written + k]
                                   ELSE data_blocks[b][k]]
           /\ call.prev_block \in Blocks => call.prev_block < b
           /\ call' = [call EXCEPT
                         !.first_block = IF @ = NONE THEN b ELSE @,
                         !.prev_block = b,
                         !.bytes_written = WrittenAfter]
PROOF
<1> USE DEF IInv
<1>1. PICK b \in Free :
        /\ \A c \in Free : b <= c
        /\ fat_table' = IF call.prev_block = NONE
                        THEN allocate_block(b)
                        ELSE set_next_block(allocate_block(b), call.prev_block, b)
        /\ data_blocks' =
             [data_blocks EXCEPT ![b] =
                [k \in 1 .. BLOCK_SIZE |->
                   IF call.bytes_written + k <= Len(call.data)
                   THEN call.data[call.bytes_written + k]
                   ELSE @[k]]]
        /\ call' = [call EXCEPT
                      !.first_block = IF @ = NONE THEN b ELSE @,
                      !.prev_block = b,
                      !.bytes_written = WrittenAfter]
  BY DEF write_block
<1>2. b \in Blocks /\ fat_table[b] = FREE
  BY DEF Free
<1>3. fat_table \in [Blocks -> Blocks \cup {FREE, END}]
  BY DEF TypeOK
<1>4. call.prev_block \in Blocks \cup {NONE}
  BY DEF TypeOK, WriteCall
<1>5. \A c \in Blocks : c < b => fat_table[c] # FREE
  BY <1>1, <1>2, SMT DEF Free, Blocks
<1>6. call.prev_block \in Blocks => call.prev_block < b
  BY <1>2, SMT DEF CallInv, Blocks
<1>7. /\ \A c \in Blocks \ {b} : data_blocks'[c] = data_blocks[c]
      /\ data_blocks'[b] = [k \in 1 .. BLOCK_SIZE |->
                              IF call.bytes_written + k <= Len(call.data)
                              THEN call.data[call.bytes_written + k]
                              ELSE data_blocks[b][k]]
  BY <1>1, <1>2 DEF TypeOK
<1>8. CASE call.prev_block = NONE
  <2>1. fat_table' = [fat_table EXCEPT ![b] = END]
    BY <1>1, <1>8 DEF allocate_block
  <2>2. call.prev_block \notin Blocks
    BY <1>8, NotBlocks DEF NONE, FREE
  <2> QED  BY <1>1, <1>2, <1>3, <1>5, <1>7, <2>1, <2>2
<1>9. CASE call.prev_block # NONE
  <2>1. call.prev_block \in Blocks
    BY <1>4, <1>9
  <2>2. call.prev_block # b
    BY <1>2, <1>6, <2>1, SMT DEF Blocks
  <2>3. fat_table' = [[fat_table EXCEPT ![b] = END] EXCEPT ![call.prev_block] = b]
    BY <1>1, <1>9 DEF allocate_block, set_next_block
  <2>4. /\ fat_table' \in [Blocks -> Blocks \cup {FREE, END}]
        /\ fat_table'[b] = END
        /\ \A c \in Blocks \ {b} :
             fat_table'[c] = IF c = call.prev_block THEN b ELSE fat_table[c]
    BY <1>2, <1>3, <2>1, <2>2, <2>3
  <2> QED  BY <1>1, <1>2, <1>5, <1>6, <1>7, <2>4
<1> QED  BY <1>4, <1>8, <1>9

\* write_finish gives an entry the chain of the write under way.
LEMMA WriteFinish ==
  ASSUME IInv, write_finish
  PROVE  /\ call.file \in Entries
         /\ files' \in [Entries -> FileEntry]
         /\ files'[call.file].start_block = call.first_block
         /\ files'[call.file].name = files[call.file].name
         /\ files'[call.file].size = Len(call.data)
         /\ \A i \in Entries \ {call.file} : files'[i] = files[i]
         /\ call' = NoCall
         /\ UNCHANGED <<fat_table, data_blocks>>
PROOF
<1> USE DEF IInv, TypeOK
<1>1. call.file \in Entries /\ call.first_block \in Blocks \cup {NONE}
      /\ call.data \in Seq(Chars)
  BY DEF write_finish, Idle, WriteCall
<1>2. Len(call.data) \in Nat
  BY <1>1
<1> DEFINE e == [files[call.file] EXCEPT !.start_block = call.first_block,
                                         !.size = Len(call.data)]
<1>3. /\ e \in FileEntry
      /\ e.start_block = call.first_block
      /\ e.name = files[call.file].name
      /\ e.size = Len(call.data)
  BY <1>1, <1>2 DEF FileEntry
<1>4. files' = [files EXCEPT ![call.file] = e]
  BY <1>1 DEF write_finish, NewStart
<1> HIDE DEF e
<1>5. /\ files' \in [Entries -> FileEntry]
      /\ files'[call.file] = e
      /\ \A i \in Entries \ {call.file} : files'[i] = files[i]
  BY <1>1, <1>3, <1>4
<1> QED  BY <1>1, <1>3, <1>5 DEF write_finish

\* create_file changes the directory at a free entry only.
LEMMA CreateFile ==
  ASSUME IInv, NEW name \in Names, create_file(name)
  PROVE  /\ files' \in [Entries -> FileEntry]
         /\ \A i \in Entries : files'[i].start_block \in {NONE, files[i].start_block}
         /\ UNCHANGED <<fat_table, data_blocks, call>>
         /\ reply'.ok \in BOOLEAN
PROOF
<1> USE DEF IInv, TypeOK
<1>1. CASE \E i \in Entries :
             /\ files' = [files EXCEPT ![i] = [name |-> Stored[name], size |-> 0,
                                              start_block |-> NONE]]
             /\ reply' = Accepted
  <2>1. PICK i \in Entries :
             /\ files' = [files EXCEPT ![i] = [name |-> Stored[name], size |-> 0,
                                              start_block |-> NONE]]
             /\ reply' = Accepted
    BY <1>1
  <2> DEFINE e == [name |-> Stored[name], size |-> 0, start_block |-> NONE]
  <2>2. e \in FileEntry /\ e.start_block = NONE
    BY FileSystemAssumption DEF FileEntry
  <2>3. files' = [files EXCEPT ![i] = e]
    BY <2>1
  <2> HIDE DEF e
  <2> QED  BY <2>1, <2>2, <2>3 DEF create_file, Accepted
<1>2. CASE UNCHANGED files /\ reply' = Refused
  BY <1>2 DEF create_file, Refused
<1> QED  BY <1>1, <1>2 DEF create_file

-----------------------------------------------------------------------------
(* The invariant, part by part.                                             *)

LEMMA TypeStep ==
  ASSUME IInv, [Next]_vars
  PROVE  TypeOK'
PROOF
<1> USE DEF IInv, TypeOK
<1>1. ASSUME NEW name \in Names, create_file(name)
      PROVE  TypeOK'
  BY <1>1, CreateFile
<1>2. ASSUME NEW name \in Names, read_file(name)
      PROVE  TypeOK'
  BY <1>2 DEF read_file, Refused
<1>3. ASSUME NEW name \in Names, NEW data \in Texts, write_file(name, data)
      PROVE  TypeOK'
  <2>1. data \in Seq(Chars)
    BY FileSystemAssumption
  <2>2. ASSUME NEW i \in Entries, call' = [NoCall EXCEPT !.file = i, !.data = data]
        PROVE  call' \in WriteCall /\ call'.bytes_written <= Len(call'.data)
    <3>1. /\ call' \in WriteCall
          /\ call'.bytes_written = 0
          /\ call'.data = data
      BY <2>1, <2>2, NoCallType DEF NoCall, WriteCall
    <3>2. Len(data) \in Nat
      BY <2>1
    <3> QED  BY <3>1, <3>2
  <2>3. call' \in WriteCall /\ call'.bytes_written <= Len(call'.data)
    BY <1>3, <2>2 DEF write_file
  <2>4. reply'.ok \in BOOLEAN
    <3>1. reply' = reply \/ reply' = Refused
      BY <1>3 DEF write_file
    <3>2. Refused.ok \in BOOLEAN /\ reply.ok \in BOOLEAN
      BY DEF Refused
    <3> QED  BY <3>1, <3>2, Zenon
  <2> QED  BY <1>3, <2>3, <2>4 DEF write_file
<1>4. CASE write_block
  <2>1. PICK b \in Blocks :
          /\ fat_table' \in [Blocks -> Blocks \cup {FREE, END}]
          /\ call' = [call EXCEPT !.first_block = IF @ = NONE THEN b ELSE @,
                                  !.prev_block = b,
                                  !.bytes_written = WrittenAfter]
    BY <1>4, BlockTaken
  <2>2. Len(call.data) \in Nat /\ call.bytes_written \in Nat
    BY DEF WriteCall
  <2>3. WrittenAfter \in Nat /\ WrittenAfter <= Len(call.data)
    BY <2>2, FileSystemAssumption, SMT DEF WrittenAfter
  <2>4. /\ call' \in WriteCall
        /\ call'.bytes_written = WrittenAfter
        /\ call'.data = call.data
    BY <2>1, <2>3 DEF WriteCall
  <2>5. data_blocks' \in [Blocks -> Data]
    <3>1. PICK c \in Blocks :
            data_blocks' =
              [data_blocks EXCEPT ![c] =
                 [k \in 1 .. BLOCK_SIZE |->
                    IF call.bytes_written + k <= Len(call.data)
                    THEN call.data[call.bytes_written + k]
                    ELSE @[k]]]
      BY <1>4 DEF write_block, Free
    <3>2. ASSUME NEW k \in 1 .. BLOCK_SIZE
          PROVE  (IF call.bytes_written + k <= Len(call.data)
                  THEN call.data[call.bytes_written + k]
                  ELSE data_blocks[c][k]) \in Chars \cup {NUL}
      <4>1. CASE call.bytes_written + k <= Len(call.data)
        <5>1. call.bytes_written + k \in 1 .. Len(call.data)
          BY <2>2, <4>1, FileSystemAssumption, SMT
        <5>2. call.data \in Seq(Chars)
          BY DEF WriteCall
        <5>3. call.data[call.bytes_written + k] \in Chars
          BY <5>1, <5>2
        <5> QED  BY <4>1, <5>3
      <4>2. CASE ~(call.bytes_written + k <= Len(call.data))
        BY <4>2 DEF Data
      <4> QED  BY <4>1, <4>2
    <3>3. [k \in 1 .. BLOCK_SIZE |->
             IF call.bytes_written + k <= Len(call.data)
             THEN call.data[call.bytes_written + k]
             ELSE data_blocks[c][k]] \in Data
      BY <3>2 DEF Data
    <3> QED  BY <3>1, <3>3
  <2> QED  BY <1>4, <2>1, <2>3, <2>4, <2>5 DEF write_block
<1>5. CASE write_out_of_blocks
  <2>1. NoCall.bytes_written <= Len(NoCall.data)
    BY SMT DEF NoCall
  <2> QED  BY <1>5, <2>1, NoCallType DEF write_out_of_blocks, Refused
<1>6. CASE write_finish
  <2>1. NoCall.bytes_written <= Len(NoCall.data)
    BY SMT DEF NoCall
  <2> QED  BY <1>6, <2>1, NoCallType, WriteFinish DEF write_finish, Accepted
<1>7. CASE UNCHANGED vars
  BY <1>7 DEF vars
<1> QED  BY <1>1, <1>2, <1>3, <1>4, <1>5, <1>6, <1>7 DEF Next

\* The chains after a block was taken.
LEMMA BlockKeepsChains ==
  ASSUME IInv, write_block
  PROVE  (LinksAscend /\ NoSharedBlocks /\ CallInv)'
PROOF
<1> USE DEF IInv
<1>1. PICK b \in Blocks :
        /\ fat_table[b] = FREE
        /\ \A c \in Blocks : c < b => fat_table[c] # FREE
        /\ fat_table' \in [Blocks -> Blocks \cup {FREE, END}]
        /\ fat_table'[b] = END
        /\ \A c \in Blocks \ {b} :
             fat_table'[c] = IF c = call.prev_block THEN b ELSE fat_table[c]
        /\ call.prev_block \in Blocks => call.prev_block < b
        /\ call' = [call EXCEPT !.first_block = IF @ = NONE THEN b ELSE @,
                                !.prev_block = b,
                                !.bytes_written = WrittenAfter]
  BY BlockTaken
<1>2. /\ call'.prev_block = b
      /\ call'.first_block = IF call.first_block = NONE THEN b ELSE call.first_block
      /\ call'.file = call.file
  BY <1>1 DEF TypeOK, WriteCall
<1>3. UNCHANGED files /\ ~Idle
  BY DEF write_block, CallInv, NoCall
<1>4. b # FREE /\ b # END /\ b # NONE
  BY NotBlocks DEF NONE, FREE
<1>5. /\ \A c \in Blocks : fat_table[c] # b
      /\ \A i \in Entries : files[i].start_block # b
      /\ call.first_block # b
  BY <1>1 DEF LinksAscend, NoSharedBlocks, CallInv
<1>6. call.prev_block \in Blocks => fat_table[call.prev_block] = END
  BY DEF CallInv
<1>7. LinksAscend'
  <2>1. ASSUME NEW c \in Blocks, fat_table'[c] \in Blocks
        PROVE  c < fat_table'[c] /\ fat_table'[fat_table'[c]] # FREE
    <3>1. c # b
      BY <1>1, <2>1, NotBlocks
    <3>2. CASE c = call.prev_block
      BY <1>1, <3>1, <3>2, NotBlocks
    <3>3. CASE c # call.prev_block
      <4>1. fat_table'[c] = fat_table[c]
        BY <1>1, <3>1, <3>3
      <4>2. c < fat_table[c] /\ fat_table[fat_table[c]] # FREE /\ fat_table[c] # b
        BY <1>5, <2>1, <4>1 DEF LinksAscend
      <4>3. fat_table'[fat_table[c]] # FREE
        BY <1>1, <1>4, <2>1, <4>1, <4>2
      <4> QED  BY <4>1, <4>2, <4>3
    <3> QED  BY <3>2, <3>3
  <2> QED  BY <2>1 DEF LinksAscend
<1>8. NoSharedBlocks'
  <2>1. ASSUME NEW i \in Entries, NEW j \in Entries, files[i].start_block \in Blocks
        PROVE  /\ fat_table'[files[i].start_block] # FREE
               /\ i # j => files[i].start_block # files[j].start_block
               /\ files[i].start_block # call'.first_block
    <3>1. fat_table[files[i].start_block] # FREE /\ files[i].start_block # b
      BY <1>5, <2>1 DEF NoSharedBlocks
    <3>2. fat_table'[files[i].start_block] # FREE
      BY <1>1, <1>4, <2>1, <3>1
    <3>3. files[i].start_block # call'.first_block
      BY <1>2, <1>5, <2>1, <3>1 DEF NoSharedBlocks
    <3> QED  BY <2>1, <3>2, <3>3 DEF NoSharedBlocks
  <2>2. ASSUME NEW c \in Blocks, NEW d \in Blocks, fat_table'[c] \in Blocks
        PROVE  /\ c # d => fat_table'[c] # fat_table'[d]
               /\ fat_table'[c] # call'.first_block
               /\ \A i \in Entries : fat_table'[c] # files[i].start_block
    <3>1. c # b
      BY <1>1, <2>2, NotBlocks
    <3>2. fat_table'[d] \in {END, b, fat_table[d]}
      BY <1>1
    <3>3. CASE c = call.prev_block
      <4>1. fat_table'[c] = b
        BY <1>1, <3>1, <3>3
      <4>2. c # d => fat_table'[d] # b
        BY <1>1, <1>4, <1>5, <3>3
      <4>3. call'.first_block # b
        BY <1>2, <1>4, <1>5, <2>2, <3>3, NotBlocks DEF CallInv, NONE, FREE
      <4> QED  BY <1>5, <4>1, <4>2, <4>3
    <3>4. CASE c # call.prev_block
      <4>1. fat_table'[c] = fat_table[c] /\ fat_table[c] \in Blocks
        BY <1>1, <2>2, <3>1, <3>4
      <4>2. c # d => fat_table[c] # fat_table[d]
        BY <4>1 DEF NoSharedBlocks
      <4>3. fat_table[c] # b /\ fat_table[c] # END
        BY <1>5, <4>1, NotBlocks
      <4>4. fat_table[c] # call'.first_block
        BY <1>2, <4>1, <4>3 DEF NoSharedBlocks
      <4> QED  BY <3>2, <4>1, <4>2, <4>3, <4>4 DEF NoSharedBlocks
    <3> QED  BY <3>3, <3>4
  <2> QED  BY <1>3, <2>1, <2>2 DEF NoSharedBlocks
<1>9. CallInv'
  <2>1. ~Idle'
    BY <1>2, <1>3 DEF Idle
  <2>2. call'.first_block # NONE /\ call'.prev_block # NONE
    BY <1>2, <1>4
  <2>3. ASSUME call'.first_block \in Blocks
        PROVE  fat_table'[call'.first_block] # FREE
    <3>1. CASE call'.first_block = b
      BY <1>1, <3>1, NotBlocks
    <3>2. CASE call'.first_block = call.first_block /\ call.first_block # b
      <4>1. fat_table[call.first_block] # FREE
        BY <2>3, <3>2 DEF CallInv
      <4> QED  BY <1>1, <1>4, <2>3, <3>2, <4>1
    <3> QED  BY <1>2, <1>5, <3>1, <3>2
  <2>4. \A c \in Blocks : c <= b => fat_table'[c] # FREE
    <3>1. ASSUME NEW c \in Blocks, c <= b
          PROVE  fat_table'[c] # FREE
      <4>1. c = b \/ c < b
        BY <3>1, SMT DEF Blocks
      <4> QED  BY <1>1, <1>4, <4>1, NotBlocks
    <3> QED  BY <3>1
  <2> QED  BY <1>1, <1>2, <2>1, <2>2, <2>3, <2>4 DEF CallInv
<1> QED  BY <1>7, <1>8, <1>9

LEMMA NextIInv == IInv /\ [Next]_vars => IInv'
PROOF
<1> SUFFICES ASSUME IInv, [Next]_vars
             PROVE  (LinksAscend /\ NoSharedBlocks /\ CallInv)'
  BY TypeStep DEF IInv
<1> USE DEF IInv
<1>0. NONE \notin Blocks /\ NoCall.file = NONE /\ NoCall.first_block = NONE
      /\ NoCall.prev_block = NONE
  BY NotBlocks DEF NONE, FREE, NoCall
<1>1. ASSUME NEW name \in Names, create_file(name)
      PROVE  (LinksAscend /\ NoSharedBlocks /\ CallInv)'
  <2>1. /\ \A i \in Entries : files'[i].start_block \in {NONE, files[i].start_block}
        /\ UNCHANGED <<fat_table, data_blocks, call>>
    BY <1>1, CreateFile
  <2>2. LinksAscend'
    BY <2>1 DEF LinksAscend
  <2>3. NoSharedBlocks'
    BY <1>0, <2>1 DEF NoSharedBlocks
  <2>4. CallInv'
    BY <2>1 DEF CallInv, Idle
  <2> QED  BY <2>2, <2>3, <2>4
<1>2. CASE UNCHANGED <<files, fat_table, call>>
  BY <1>2 DEF LinksAscend, NoSharedBlocks, CallInv, Idle
<1>3. ASSUME UNCHANGED <<files, fat_table>>,
             call'.first_block = NONE, call'.prev_block = NONE,
             Idle' => call' = NoCall
      PROVE  (LinksAscend /\ NoSharedBlocks /\ CallInv)'
  <2>1. LinksAscend'
    BY <1>3 DEF LinksAscend
  <2>2. NoSharedBlocks'
    BY <1>0, <1>3 DEF NoSharedBlocks
  <2>3. CallInv'
    BY <1>0, <1>3 DEF CallInv
  <2> QED  BY <2>1, <2>2, <2>3
<1>4. ASSUME NEW name \in Names, NEW data \in Texts, write_file(name, data)
      PROVE  (LinksAscend /\ NoSharedBlocks /\ CallInv)'
  <2>1. CASE \E i \in Entries : call' = [NoCall EXCEPT !.file = i, !.data = data]
    <3>1. PICK i \in Entries : call' = [NoCall EXCEPT !.file = i, !.data = data]
      BY <2>1
    <3>2. call'.file = i /\ call'.first_block = NONE /\ call'.prev_block = NONE
      BY <3>1 DEF NoCall
    <3>3. i # NONE
      BY SMT DEF Entries, NONE
    <3> QED  BY <1>3, <1>4, <3>2, <3>3 DEF write_file, Idle
  <2>2. CASE UNCHANGED call
    BY <1>2, <1>4, <2>2 DEF write_file
  <2> QED  BY <1>4, <2>1, <2>2 DEF write_file
<1>5. CASE write_block
  BY <1>5, BlockKeepsChains
<1>6. CASE write_out_of_blocks
  BY <1>0, <1>3, <1>6 DEF write_out_of_blocks
<1>7. CASE write_finish
  <2>1. /\ call.file \in Entries
        /\ files'[call.file].start_block = call.first_block
        /\ \A i \in Entries \ {call.file} : files'[i] = files[i]
        /\ call' = NoCall
        /\ fat_table' = fat_table
    BY <1>7, WriteFinish
  <2>2. LinksAscend'
    BY <2>1 DEF LinksAscend
  <2>3. NoSharedBlocks'
    BY <1>0, <2>1 DEF NoSharedBlocks, CallInv
  <2>4. CallInv'
    BY <1>0, <2>1 DEF CallInv
  <2> QED  BY <2>2, <2>3, <2>4
<1>8. ASSUME NEW name \in Names, read_file(name)
      PROVE  (LinksAscend /\ NoSharedBlocks /\ CallInv)'
  BY <1>2, <1>8 DEF read_file
<1>9. CASE UNCHANGED vars
  BY <1>2, <1>9 DEF vars
<1> QED  BY <1>1, <1>4, <1>5, <1>6, <1>7, <1>8, <1>9 DEF Next

\* The invariant of the block chains, from which the theorems below follow.
THEOREM Invariance == Spec => []IInv
BY InitIInv, NextIInv, PTL DEF Spec

-----------------------------------------------------------------------------

\* Every variable keeps its type.
THEOREM TypeCorrect == Spec => []TypeOK
BY Invariance, PTL DEF IInv

\* Links lead upwards to taken blocks, so that no chain has a cycle and the loop
\* of read_file ends.
THEOREM ChainsEnd == Spec => []LinksAscend
BY Invariance, PTL DEF IInv

\* No block is part of two chains.
THEOREM ChainsDisjoint == Spec => []NoSharedBlocks
BY Invariance, PTL DEF IInv

\* What has been written is never overwritten, by no write that follows.
THEOREM WrittenStays == Spec => WrittenBlocksFrozen
PROOF
<1> DEFINE Frozen ==
      \A b \in Blocks :
        fat_table[b] # FREE =>
          /\ data_blocks'[b] = data_blocks[b]
          /\ b # call.prev_block => fat_table'[b] = fat_table[b]
<1>1. ASSUME IInv, write_block
      PROVE  Frozen
  BY <1>1, BlockTaken
<1>2. ASSUME Next, ~write_block
      PROVE  UNCHANGED <<fat_table, data_blocks>>
  BY <1>2 DEF Next, create_file, read_file, write_file, write_out_of_blocks,
              write_finish
<1>3. IInv /\ [Next]_vars => [Frozen]_vars
  BY <1>1, <1>2
<1> QED  BY <1>3, Invariance, PTL DEF Spec, WrittenBlocksFrozen

-----------------------------------------------------------------------------
(* The recursion along a chain: read_file's loop, and by it Bytes, is well  *)
(* defined because links ascend.                                            *)

Links == Blocks \cup {FREE, END}

\* Links lead upwards.
Ascending(fat) ==
  /\ fat \in [Blocks -> Links]
  /\ \A b \in Blocks : fat[b] \in Blocks => b < fat[b]

\* Induction from the ends of the chains backwards.
LEMMA ChainInduction ==
  ASSUME NEW fat, Ascending(fat), NEW T, FREE \in T, END \in T,
         \A b \in Blocks : fat[b] \in T => b \in T
  PROVE  Blocks \subseteq T
PROOF
<1> SUFFICES ASSUME Blocks \ T # {}
             PROVE  FALSE
  OBVIOUS
<1> DEFINE D == {MAX_BLOCKS - b : b \in Blocks \ T}
<1>1. D \subseteq Nat
  BY FileSystemAssumption, SMT DEF Blocks
<1>2. D # {}
  OBVIOUS
<1>3. PICK d \in D : \A e \in D : d <= e
  BY <1>1, <1>2, LeastNatural
<1>4. PICK b \in Blocks \ T : d = MAX_BLOCKS - b
  BY <1>3
<1>5. \A c \in Blocks \ T : c <= b
  <2>1. ASSUME NEW c \in Blocks \ T
        PROVE  c <= b
    <3>1. MAX_BLOCKS - b <= MAX_BLOCKS - c
      BY <1>3, <1>4
    <3> QED  BY <3>1, FileSystemAssumption, SMT DEF Blocks
  <2> QED  BY <2>1
<1>6. fat[b] \in Links /\ (fat[b] \in Blocks => b < fat[b])
  BY <1>4 DEF Ascending
<1>7. fat[b] \in Blocks \ T
  BY <1>4, <1>6 DEF Links
<1>8. fat[b] <= b /\ b < fat[b]
  BY <1>5, <1>6, <1>7
<1> QED  BY <1>4, <1>7, <1>8, FileSystemAssumption, SMT DEF Blocks

\* One step of the recursion that defines Bytes.
Step(g, fat, data, b) == IF b \in Blocks THEN data[b] \o g[fat[b]] ELSE <<>>

\* Because links ascend there is a function that satisfies it.
LEMMA ChainRecursion ==
  ASSUME NEW fat, Ascending(fat), NEW data
  PROVE  \E g : g = [b \in Links |-> Step(g, fat, data, b)]
PROOF
<1> DEFINE Good(g, n) ==
             \A b \in Links : (b \in Blocks => MAX_BLOCKS - b <= n)
                                => g[b] = Step(g, fat, data, b)
           S == {n \in Nat : \E g : Good(g, n)}
<1>1. 0 \in S
  <2> DEFINE g == [b \in Links |-> <<>>]
  <2>1. ASSUME NEW b \in Links, b \in Blocks => MAX_BLOCKS - b <= 0
        PROVE  g[b] = Step(g, fat, data, b)
    <3>1. b \notin Blocks
      BY <2>1, FileSystemAssumption, SMT DEF Blocks
    <3> QED  BY <3>1 DEF Step
  <2>2. Good(g, 0)
    BY <2>1
  <2> QED  BY <2>2
<1>2. ASSUME NEW n \in Nat, n \in S
      PROVE  n + 1 \in S
  <2>1. PICK g : Good(g, n)
    BY <1>2
  <2> DEFINE h == [b \in Links |-> IF b \in Blocks /\ MAX_BLOCKS - b = n + 1
                                   THEN Step(g, fat, data, b)
                                   ELSE g[b]]
  <2>2. ASSUME NEW b \in Links, b \in Blocks => MAX_BLOCKS - b <= n + 1
        PROVE  h[b] = Step(h, fat, data, b)
    <3>1. CASE b \notin Blocks
      <4>1. h[b] = g[b] /\ g[b] = Step(g, fat, data, b)
        BY <2>1, <3>1
      <4> QED  BY <3>1, <4>1 DEF Step
    <3>2. CASE b \in Blocks
      <4>1. fat[b] \in Links /\ (fat[b] \in Blocks => b < fat[b])
        BY <3>2 DEF Ascending
      <4>2. fat[b] \in Blocks => MAX_BLOCKS - fat[b] # n + 1
        BY <2>2, <3>2, <4>1, FileSystemAssumption, SMT DEF Blocks
      <4>3. h[fat[b]] = g[fat[b]]
        BY <4>1, <4>2
      <4>4. h[b] = Step(g, fat, data, b)
        <5>1. CASE MAX_BLOCKS - b = n + 1
          BY <3>2, <5>1
        <5>2. CASE MAX_BLOCKS - b # n + 1
          <6>1. MAX_BLOCKS - b <= n
            BY <2>2, <3>2, <5>2, FileSystemAssumption, SMT DEF Blocks
          <6> QED  BY <2>1, <5>2, <6>1
        <5> QED  BY <5>1, <5>2
      <4> HIDE DEF h
      <4> QED  BY <3>2, <4>3, <4>4 DEF Step
    <3> QED  BY <3>1, <3>2
  <2>3. Good(h, n + 1)
    <3> HIDE DEF h
    <3> QED  BY <2>2
  <2>4. \E f : Good(f, n + 1)
    <3> HIDE DEF h, Good
    <3> QED  BY <2>3
  <2> QED  BY <2>4
<1>3. MAX_BLOCKS \in S
  <2> HIDE DEF S
  <2> QED  BY <1>1, <1>2, SetInduction, FileSystemAssumption
<1>4. PICK g : Good(g, MAX_BLOCKS)
  BY <1>3
<1>5. \A b \in Links : g[b] = Step(g, fat, data, b)
  BY <1>4, FileSystemAssumption, SMT DEF Blocks
<1> DEFINE f == [b \in Links |-> g[b]]
<1>6. ASSUME NEW b \in Links
      PROVE  g[b] = Step(f, fat, data, b)
  <2>1. b \in Blocks => f[fat[b]] = g[fat[b]]
    BY DEF Ascending
  <2> HIDE DEF f
  <2> QED  BY <1>5, <2>1 DEF Step
<1>7. f = [b \in Links |-> Step(f, fat, data, b)]
  <2> DEFINE h == [b \in Links |-> Step(f, fat, data, b)]
  <2>1. \A b \in Links : f[b] = h[b]
    <3> HIDE DEF h
    <3>1. \A b \in Links : f[b] = g[b]
      OBVIOUS
    <3>2. \A b \in Links : h[b] = Step(f, fat, data, b)
      BY DEF h
    <3> HIDE DEF f
    <3> QED  BY <1>6, <3>1, <3>2
  <2> QED  BY <2>1
<1> QED  BY <1>7

\* Bytes is a function and satisfies its recursion.
BytesEquation ==
  /\ Bytes = [b \in Links |-> Bytes[b]]
  /\ \A b \in Links : Bytes[b] = Step(Bytes, fat_table, data_blocks, b)

\* The definition alone does not say so: a CHOOSE is what it claims to be only if
\* there is such a function.
LEMMA BytesRecursion == IInv => BytesEquation
PROOF
<1> SUFFICES ASSUME IInv
             PROVE  BytesEquation
  OBVIOUS
<1> DEFINE Eq(g) == g = [b \in Links |-> Step(g, fat_table, data_blocks, b)]
<1>1. Ascending(fat_table)
  BY DEF IInv, TypeOK, LinksAscend, Ascending, Links
<1>2. \E g : Eq(g)
  BY <1>1, ChainRecursion
<1>3. Bytes = CHOOSE g : Eq(g)
  BY Zenon DEF Bytes, Step, Links
<1>4. Eq(Bytes)
  <2> HIDE DEF Eq
  <2> QED  BY <1>2, <1>3
<1> QED  BY <1>4 DEF BytesEquation

Bytestrings == Seq(Chars \cup {NUL})

BytesType == \A b \in Links : Bytes[b] \in Bytestrings

LEMMA BlocksAreBytestrings == Data \subseteq Bytestrings /\ \A d \in Data : Len(d) = BLOCK_SIZE
PROOF
<1> SUFFICES ASSUME NEW d \in Data
             PROVE  d \in Bytestrings /\ Len(d) = BLOCK_SIZE
  OBVIOUS
<1>1. BLOCK_SIZE \in Nat
  BY FileSystemAssumption
<1>2. d \in Bytestrings
  BY <1>1 DEF Data, Bytestrings
<1>3. Len(d) = BLOCK_SIZE
  BY <1>1 DEF Data
<1> QED  BY <1>2, <1>3

LEMMA ByteConcatAssociative ==
  \A s, t, u \in Bytestrings : (s \o t) \o u = s \o (t \o u)
BY SMT DEF Bytestrings

LEMMA BytesTyped == IInv => BytesType
PROOF
<1> SUFFICES ASSUME IInv
             PROVE  BytesType
  OBVIOUS
<1> DEFINE T == {b \in Links : Bytes[b] \in Bytestrings}
<1>1. BytesEquation
  BY BytesRecursion
<1>2. Ascending(fat_table) /\ data_blocks \in [Blocks -> Data]
  BY DEF IInv, TypeOK, LinksAscend, Ascending, Links
<1>3. FREE \in T /\ END \in T
  <2>1. FREE \in Links /\ END \in Links
    BY DEF Links
  <2>2. Bytes[FREE] = <<>> /\ Bytes[END] = <<>>
    BY <1>1, <2>1, NotBlocks DEF BytesEquation, Step
  <2>3. <<>> \in Bytestrings
    BY EmptySeq, Zenon DEF Bytestrings
  <2> QED  BY <2>1, <2>2, <2>3
<1>4. ASSUME NEW b \in Blocks, fat_table[b] \in T
      PROVE  b \in T
  <2>1. Bytes[b] = data_blocks[b] \o Bytes[fat_table[b]]
    BY <1>1 DEF BytesEquation, Step, Links
  <2>2. data_blocks[b] \in Bytestrings
    BY <1>2, BlocksAreBytestrings
  <2>3. Bytes[fat_table[b]] \in Bytestrings
    BY <1>4
  <2>4. Bytes[b] \in Bytestrings
    BY <2>1, <2>2, <2>3, ConcatProperties DEF Bytestrings
  <2> QED  BY <2>4 DEF Links
<1>5. Blocks \subseteq T
  <2> HIDE DEF T
  <2> QED  BY <1>2, <1>3, <1>4, ChainInduction
<1> QED  BY <1>3, <1>5 DEF BytesType, Links

\* Chains whose blocks and links stay read as before.
LEMMA BytesFrame ==
  ASSUME IInv, BytesEquation, BytesEquation', NEW U \in SUBSET Blocks,
         \A c \in U : /\ fat_table[c] \in U \cup {FREE, END}
                      /\ fat_table'[c] = fat_table[c]
                      /\ data_blocks'[c] = data_blocks[c]
  PROVE  \A c \in U \cup {FREE, END} : Bytes'[c] = Bytes[c]
PROOF
<1> DEFINE T == {c \in Links : c \in U \cup {FREE, END} => Bytes'[c] = Bytes[c]}
<1>1. \A c \in Links :
        /\ Bytes[c] = IF c \in Blocks THEN data_blocks[c] \o Bytes[fat_table[c]] ELSE <<>>
        /\ Bytes'[c] = IF c \in Blocks THEN data_blocks'[c] \o Bytes'[fat_table'[c]]
                                       ELSE <<>>
  BY DEF BytesEquation, Step
<1>2. Ascending(fat_table)
  BY DEF IInv, TypeOK, LinksAscend, Ascending, Links
<1>3. FREE \in T /\ END \in T
  BY <1>1, NotBlocks DEF Links
<1>4. ASSUME NEW b \in Blocks, fat_table[b] \in T
      PROVE  b \in T
  <2>1. ASSUME b \in U
        PROVE  Bytes'[b] = Bytes[b]
    <3>1. Bytes'[fat_table[b]] = Bytes[fat_table[b]]
      BY <1>4, <2>1
    <3> QED  BY <1>1, <2>1, <3>1 DEF Links
  <2> QED  BY <2>1, NotBlocks DEF Links
<1>5. Blocks \subseteq T
  <2> HIDE DEF T
  <2> QED  BY <1>2, <1>3, <1>4, ChainInduction
<1> QED  BY <1>3, <1>5

\* The first n characters of a text, filled up with NULs within a block.
Padded(bytes, text, n) ==
  /\ bytes \in Bytestrings
  /\ Len(bytes) \in n .. n + BLOCK_SIZE - 1
  /\ n = 0 => bytes = <<>>
  /\ \A k \in 1 .. Len(bytes) : bytes[k] = IF k <= n THEN text[k] ELSE NUL

\* print stops at the padding, because no text holds a NUL.
LEMMA PrintedText ==
  ASSUME NEW text \in Seq(Chars), NEW bytes, Padded(bytes, text, Len(text))
  PROVE  Printed(bytes) = text
PROOF
<1> DEFINE P(n) == /\ \A k \in 1 .. n : bytes[k] # NUL
                   /\ n = Len(bytes) \/ bytes[n + 1] = NUL
<1>1. /\ Len(text) \in Nat /\ Len(bytes) \in Nat /\ Len(text) <= Len(bytes)
      /\ \A k \in 1 .. Len(text) : text[k] \in Chars
      /\ bytes \in Seq(Chars \cup {NUL})
  BY FileSystemAssumption DEF Padded, Bytestrings
<1>2. \A k \in 1 .. Len(bytes) : bytes[k] = IF k <= Len(text) THEN text[k] ELSE NUL
  BY DEF Padded
<1>3. \A k \in 1 .. Len(text) : bytes[k] = text[k] /\ bytes[k] # NUL
  BY <1>1, <1>2, FileSystemAssumption
<1>4. Len(text) \in 0 .. Len(bytes) /\ P(Len(text))
  BY <1>1, <1>2, <1>3
<1>5. ASSUME NEW n \in 0 .. Len(bytes), P(n)
      PROVE  n = Len(text)
  <2>1. ~ (n < Len(text))
    BY <1>1, <1>3, <1>5
  <2>2. ~ (n > Len(text))
    <3>1. SUFFICES ASSUME n > Len(text) PROVE FALSE
      OBVIOUS
    <3>2. Len(text) + 1 \in 1 .. n /\ Len(text) + 1 \in 1 .. Len(bytes)
      BY <1>1, <3>1
    <3>3. bytes[Len(text) + 1] = NUL
      BY <1>1, <1>2, <3>2
    <3> QED  BY <1>5, <3>2, <3>3
  <2> QED  BY <1>1, <2>1, <2>2
<1>6. (CHOOSE n \in 0 .. Len(bytes) : P(n)) = Len(text)
  <2> HIDE DEF P
  <2> QED  BY <1>4, <1>5
<1>7. Printed(bytes) = SubSeq(bytes, 1, Len(text))
  BY <1>6 DEF Printed
<1>8. SubSeq(bytes, 1, Len(text)) = text
  <2>1. SubSeq(bytes, 1, Len(text)) \in Seq(Chars \cup {NUL})
        /\ Len(SubSeq(bytes, 1, Len(text))) = Len(text)
        /\ \A k \in 1 .. Len(text) : SubSeq(bytes, 1, Len(text))[k] = bytes[k]
    BY <1>1
  <2>2. text \in Seq(Chars \cup {NUL})
    BY SeqMonotonic
  <2> QED  BY <1>1, <1>3, <2>1, <2>2, SeqEqual
<1> QED  BY <1>7, <1>8

\* A chain of full blocks grows by a block of the text.
LEMMA PaddedGrows ==
  ASSUME NEW text \in Seq(Chars), NEW n \in Nat, n < Len(text),
         NEW bytes, Padded(bytes, text, n), Len(bytes) = n,
         NEW block \in Data,
         \A k \in 1 .. BLOCK_SIZE :
           block[k] = IF n + k <= Len(text) THEN text[n + k] ELSE NUL,
         NEW m, m = IF n + BLOCK_SIZE < Len(text) THEN n + BLOCK_SIZE ELSE Len(text)
  PROVE  /\ Padded(bytes \o block, text, m)
         /\ m < Len(text) => Len(bytes \o block) = m
PROOF
<1>1. BLOCK_SIZE \in Nat \ {0} /\ Len(text) \in Nat
  BY FileSystemAssumption
<1>2. bytes \in Bytestrings /\ block \in Bytestrings /\ Len(block) = BLOCK_SIZE
  BY BlocksAreBytestrings DEF Padded
<1> DEFINE s == bytes \o block
<1>3. /\ s \in Bytestrings
      /\ Len(s) = n + BLOCK_SIZE
      /\ \A k \in 1 .. n + BLOCK_SIZE : s[k] = IF k <= n THEN bytes[k] ELSE block[k - n]
  <2>1. /\ s \in Bytestrings
        /\ Len(s) = Len(bytes) + Len(block)
        /\ \A k \in 1 .. Len(bytes) + Len(block) :
             s[k] = IF k <= Len(bytes) THEN bytes[k] ELSE block[k - Len(bytes)]
    BY <1>2, ConcatProperties, Zenon DEF Bytestrings
  <2> QED  BY <1>2, <2>1, Zenon
<1>4. /\ m \in Nat /\ m # 0
      /\ n + BLOCK_SIZE \in m .. m + BLOCK_SIZE - 1
      /\ m < Len(text) => n + BLOCK_SIZE = m
  BY <1>1, SMT
<1>5. ASSUME NEW k \in 1 .. n + BLOCK_SIZE
      PROVE  s[k] = IF k <= m THEN text[k] ELSE NUL
  <2> HIDE DEF s
  <2>1. CASE k <= n
    <3>1. bytes[k] = text[k]
      BY <2>1 DEF Padded
    <3> QED  BY <1>1, <1>3, <2>1, <3>1
  <2>2. CASE ~(k <= n)
    <3>1. k - n \in 1 .. BLOCK_SIZE /\ n + (k - n) = k
      BY <1>1, <2>2
    <3>2. block[k - n] = IF k <= Len(text) THEN text[k] ELSE NUL
      BY <3>1
    <3>3. k <= m <=> k <= Len(text)
      BY <1>1
    <3> QED  BY <1>3, <2>2, <3>2, <3>3
  <2> QED  BY <2>1, <2>2
<1> HIDE DEF s
<1>6. Padded(s, text, m)
  BY <1>3, <1>4, <1>5 DEF Padded
<1> QED  BY <1>3, <1>4, <1>6 DEF s

-----------------------------------------------------------------------------
(* What the chains hold: the text last written, padded with NULs to a block.*)

\* A block that was never taken is still as the kernel found it.
FreeBlank ==
  \A b \in Blocks :
    fat_table[b] = FREE => \A k \in 1 .. BLOCK_SIZE : data_blocks[b][k] = NUL

Holds(b, text) == Padded(Bytes[b], text, Len(text))

\* Every entry leads to one text, whose length it records.
FilesHold ==
  \A i \in Entries :
    \E text \in Texts \cup {<<>>} :
      /\ files[i].size = Len(text)
      /\ Holds(files[i].start_block, text)

\* Entries are taken from the front.
NoHoles ==
  \A i, j \in Entries : i < j /\ files[j].name # NoName => files[i].name # NoName

\* The write under way is one that a command asked for.
CallTarget ==
  ~Idle => /\ call.data \in Texts
           /\ \E name \in Names : find_file(name, call.file)

\* Its chain holds what has been written, in full blocks until the last.
CallHolds ==
  /\ Padded(Bytes[call.first_block], call.data, call.bytes_written)
  /\ call.bytes_written < Len(call.data)
       => Len(Bytes[call.first_block]) = call.bytes_written

\* Its chain is a set of blocks of its own, through which its last block is
\* reached, and which no file enters.
OwnChain ==
  \E T \in SUBSET Blocks :
    /\ call.first_block \in T \cup {NONE}
    /\ call.prev_block \in T \cup {NONE}
    /\ call.prev_block = NONE => T = {}
    /\ \A c \in T : /\ fat_table[c] # FREE
                    /\ c # call.prev_block => fat_table[c] \in T
    /\ \A c \in Blocks \ T : fat_table[c] \notin T
    /\ \A i \in Entries : files[i].start_block \notin T

ChainContents ==
  FreeBlank /\ FilesHold /\ NoHoles /\ CallTarget /\ CallHolds /\ OwnChain

FileType ==
  \A i \in Entries : /\ files[i].name \in Names \cup {NoName}
                     /\ files[i].start_block \in Links

\* What every step may use of the chains before and after it.
LEMMA Equations ==
  IInv /\ [Next]_vars => /\ IInv'
                         /\ BytesEquation /\ BytesEquation'
                         /\ BytesType /\ BytesType'
PROOF
<1>1. IInv /\ [Next]_vars => IInv'
  BY NextIInv
<1>2. IInv => BytesEquation
  BY BytesRecursion
<1>3. IInv => BytesType
  BY BytesTyped
<1> QED  BY <1>1, <1>2, <1>3, PTL

LEMMA FileTyped == IInv => FileType
PROOF
<1> SUFFICES ASSUME IInv, NEW i \in Entries
             PROVE  /\ files[i].name \in Names \cup {NoName}
                    /\ files[i].start_block \in Links
  BY DEF FileType
<1>1. files[i] \in FileEntry
  BY DEF IInv, TypeOK
<1> QED  BY <1>1 DEF FileEntry, Links, NONE, FREE

\* No block, no text.
LEMMA NoChainHolds ==
  ASSUME BytesEquation
  PROVE  /\ Bytes[NONE] = <<>>
         /\ Holds(NONE, <<>>)
         /\ \A text : Padded(Bytes[NONE], text, 0)
PROOF
<1>1. Bytes[NONE] = <<>>
  BY NotBlocks DEF BytesEquation, Links, Step, NONE, FREE
<1>2. <<>> \in Bytestrings /\ Len(<<>>) = 0
  BY EmptySeq, Zenon DEF Bytestrings
<1>3. \A text : Padded(<<>>, text, 0)
  BY <1>2, FileSystemAssumption DEF Padded
<1> QED  BY <1>1, <1>2, <1>3 DEF Holds

\* Nothing reads differently while neither links nor blocks change.
LEMMA BytesStay ==
  ASSUME IInv, BytesEquation, BytesEquation', UNCHANGED <<fat_table, data_blocks>>
  PROVE  \A c \in Links : Bytes'[c] = Bytes[c]
PROOF
<1>1. \A c \in Blocks : /\ fat_table[c] \in Blocks \cup {FREE, END}
                        /\ fat_table'[c] = fat_table[c]
                        /\ data_blocks'[c] = data_blocks[c]
  BY DEF IInv, TypeOK
<1> QED  BY <1>1, BytesFrame DEF Links

LEMMA InitContents == Init => ChainContents
PROOF
<1> SUFFICES ASSUME Init
             PROVE  ChainContents
  OBVIOUS
<1>1. BytesEquation
  BY InitIInv, BytesRecursion
<1>2. FreeBlank
  BY DEF Init, FreeBlank
<1>3. FilesHold
  <2>1. \A i \in Entries : files[i].size = 0 /\ files[i].start_block = NONE
    BY DEF Init
  <2>2. Len(<<>>) = 0
    BY EmptySeq, Zenon
  <2>3. Holds(NONE, <<>>)
    BY <1>1, NoChainHolds
  <2> QED  BY <2>1, <2>2, <2>3 DEF FilesHold
<1>4. NoHoles
  BY DEF Init, NoHoles
<1>5. call = NoCall
  BY DEF Init
<1>6. CallTarget
  BY <1>5 DEF CallTarget, NoCall, Idle
<1>7. CallHolds
  <2>1. call.first_block = NONE /\ call.data = <<>> /\ call.bytes_written = 0
    BY <1>5 DEF NoCall
  <2>2. Len(<<>>) = 0
    BY EmptySeq, Zenon
  <2>3. \A text : Padded(Bytes[NONE], text, 0)
    BY <1>1, NoChainHolds
  <2> QED  BY <2>1, <2>2, <2>3 DEF CallHolds
<1>8. OwnChain
  <2>1. call.first_block = NONE /\ call.prev_block = NONE
    BY <1>5 DEF NoCall
  <2> USE DEF OwnChain
  <2> WITNESS {} \in SUBSET Blocks
  <2> QED  BY <2>1
<1> QED  BY <1>2, <1>3, <1>4, <1>6, <1>7, <1>8 DEF ChainContents

\* The loop of write_file lengthens the chain of the write under way by its
\* block, and no other chain.
LEMMA BlockAppended ==
  ASSUME IInv, FileType, BytesEquation, BytesEquation', BytesType, OwnChain,
         write_block
  PROVE  /\ OwnChain'
         /\ \A i \in Entries :
              Bytes'[files[i].start_block] = Bytes[files[i].start_block]
         /\ Bytes'[call'.first_block] =
              Bytes[call.first_block] \o data_blocks'[call'.prev_block]
PROOF
<1> USE DEF IInv
<1>1. PICK b \in Blocks :
        /\ fat_table[b] = FREE
        /\ fat_table' \in [Blocks -> Blocks \cup {FREE, END}]
        /\ fat_table'[b] = END
        /\ \A c \in Blocks \ {b} :
             fat_table'[c] = IF c = call.prev_block THEN b ELSE fat_table[c]
        /\ \A c \in Blocks \ {b} : data_blocks'[c] = data_blocks[c]
        /\ call' = [call EXCEPT !.first_block = IF @ = NONE THEN b ELSE @,
                                !.prev_block = b,
                                !.bytes_written = WrittenAfter]
  BY BlockTaken
<1>2. /\ call'.prev_block = b
      /\ call'.first_block = IF call.first_block = NONE THEN b ELSE call.first_block
  BY <1>1 DEF TypeOK, WriteCall
<1>3. UNCHANGED files
  BY DEF write_block
<1>4. PICK T \in SUBSET Blocks :
        /\ call.first_block \in T \cup {NONE}
        /\ call.prev_block \in T \cup {NONE}
        /\ call.prev_block = NONE => T = {}
        /\ \A c \in T : /\ fat_table[c] # FREE
                        /\ c # call.prev_block => fat_table[c] \in T
        /\ \A c \in Blocks \ T : fat_table[c] \notin T
        /\ \A i \in Entries : files[i].start_block \notin T
  BY DEF OwnChain
<1>5. b \notin T /\ b # NONE /\ b # call.prev_block /\ NONE \notin Blocks
  BY <1>1, <1>4, NotBlocks DEF NONE, FREE
<1>6. /\ \A c \in Blocks : fat_table[c] # b
      /\ \A i \in Entries : files[i].start_block # b
  BY <1>1 DEF LinksAscend, NoSharedBlocks
<1>7. ASSUME NEW c \in T
      PROVE  /\ c # b /\ fat_table'[c] # FREE
             /\ fat_table'[c] = IF c = call.prev_block THEN b ELSE fat_table[c]
  BY <1>1, <1>4, <1>5, <1>7, NotBlocks
<1> DEFINE U == Blocks \ (T \cup {b})
<1>8. ASSUME NEW c \in U
      PROVE  /\ fat_table[c] \in U \cup {FREE, END}
             /\ fat_table'[c] = fat_table[c]
             /\ data_blocks'[c] = data_blocks[c]
  <2>1. c \in Blocks /\ c # b /\ c \notin T
    BY <1>8
  <2>2. c # call.prev_block
    BY <1>4, <1>5, <2>1
  <2>3. fat_table[c] \in Blocks \cup {FREE, END}
    BY <2>1 DEF TypeOK
  <2>4. fat_table[c] \notin T /\ fat_table[c] # b
    BY <1>4, <1>6, <2>1
  <2> QED  BY <1>1, <2>1, <2>2, <2>3, <2>4
<1>9. \A c \in U \cup {FREE, END} : Bytes'[c] = Bytes[c]
  <2>1. U \in SUBSET Blocks
    OBVIOUS
  <2> HIDE DEF U
  <2> QED  BY <1>8, <2>1, BytesFrame
<1>10. ASSUME NEW i \in Entries
       PROVE  Bytes'[files[i].start_block] = Bytes[files[i].start_block]
  <2>1. files[i].start_block \in Links
    BY DEF FileType
  <2>2. files[i].start_block \in U \cup {FREE, END}
    BY <1>4, <1>6, <2>1 DEF Links
  <2> HIDE DEF U
  <2> QED  BY <1>9, <2>2
<1>11. OwnChain'
  <2> DEFINE V == T \cup {b}
  <2>1. call'.first_block \in V \cup {NONE} /\ call'.prev_block \in V
    BY <1>2, <1>4
  <2>2. \A c \in V : /\ fat_table'[c] # FREE
                     /\ c # call'.prev_block => fat_table'[c] \in V
    BY <1>1, <1>2, <1>4, <1>7, NotBlocks
  <2>3. \A c \in Blocks \ V : fat_table'[c] \notin V
    BY <1>4, <1>6, <1>8
  <2>4. \A i \in Entries : files'[i].start_block \notin V
    BY <1>3, <1>4, <1>6
  <2>5. V \in SUBSET Blocks /\ call'.prev_block # NONE
    BY <1>2, <1>5
  <2> HIDE DEF V
  <2> QED  BY <2>1, <2>2, <2>3, <2>4, <2>5 DEF OwnChain
<1> DEFINE d == data_blocks'[b]
<1>12. \A c \in Links :
        /\ Bytes[c] \in Bytestrings
        /\ Bytes[c] = IF c \in Blocks THEN data_blocks[c] \o Bytes[fat_table[c]] ELSE <<>>
        /\ Bytes'[c] = IF c \in Blocks THEN data_blocks'[c] \o Bytes'[fat_table'[c]]
                                       ELSE <<>>
  BY DEF BytesEquation, BytesType, Step
<1>13. d \in Bytestrings /\ \A c \in Blocks : data_blocks[c] \in Bytestrings
  BY TypeStep, BlocksAreBytestrings DEF Next, TypeOK
<1>14. Bytes'[b] = d /\ Bytes[END] = <<>> /\ Bytes'[END] = <<>>
  <2>1. Bytes'[END] = <<>> /\ Bytes[END] = <<>>
    BY <1>12, NotBlocks DEF Links
  <2>2. Bytes'[b] = d \o <<>>
    BY <1>1, <1>12, <2>1 DEF Links
  <2> HIDE DEF d
  <2> QED  BY <1>13, <2>1, <2>2, ConcatEmptySeq DEF Bytestrings
<1>15. T # {} => Bytes'[call.first_block] = Bytes[call.first_block] \o d
  <2> DEFINE S == {c \in Links : c \in T => Bytes'[c] = Bytes[c] \o d}
  <2>1. FREE \in S /\ END \in S
    BY NotBlocks DEF Links
  <2>2. ASSUME NEW c \in Blocks, fat_table[c] \in S
        PROVE  c \in S
    <3> HIDE DEF d
    <3>1. CASE c \notin T
      BY <3>1 DEF Links
    <3>2. CASE c \in T /\ c = call.prev_block
      <4>1. fat_table[c] = END
        BY <3>2 DEF CallInv
      <4>2. Bytes[c] = data_blocks[c]
        <5>1. Bytes[c] = data_blocks[c] \o <<>>
          BY <1>12, <1>14, <4>1 DEF Links
        <5> QED  BY <1>13, <5>1, ConcatEmptySeq DEF Bytestrings
      <4>3. Bytes'[c] = data_blocks[c] \o d
        BY <1>1, <1>7, <1>12, <1>14, <3>2 DEF Links
      <4> QED  BY <4>2, <4>3 DEF Links
    <3>3. CASE c \in T /\ c # call.prev_block
      <4>1. fat_table[c] \in T /\ fat_table'[c] = fat_table[c]
            /\ data_blocks'[c] = data_blocks[c]
        BY <1>1, <1>4, <1>7, <3>3
      <4>2. Bytes'[fat_table[c]] = Bytes[fat_table[c]] \o d
        BY <2>2, <4>1
      <4>3. Bytes'[c] = data_blocks[c] \o (Bytes[fat_table[c]] \o d)
        BY <1>12, <4>1, <4>2 DEF Links
      <4>4. Bytes[c] = data_blocks[c] \o Bytes[fat_table[c]]
        BY <1>12 DEF Links
      <4>5. /\ data_blocks[c] \in Bytestrings
            /\ Bytes[fat_table[c]] \in Bytestrings
        BY <1>12, <1>13, <2>2
      <4>6. (data_blocks[c] \o Bytes[fat_table[c]]) \o d
              = data_blocks[c] \o (Bytes[fat_table[c]] \o d)
        BY <1>13, <4>5, ByteConcatAssociative
      <4> QED  BY <4>3, <4>4, <4>6 DEF Links
    <3> QED  BY <3>1, <3>2, <3>3
  <2>3. Ascending(fat_table)
    BY DEF TypeOK, LinksAscend, Ascending, Links
  <2>4. Blocks \subseteq S
    <3> HIDE DEF S
    <3> QED  BY <2>1, <2>2, <2>3, ChainInduction
  <2>5. T # {} => call.first_block \in T
    BY <1>4, <1>5 DEF CallInv
  <2> QED  BY <2>4, <2>5
<1>16. Bytes'[call'.first_block] = Bytes[call.first_block] \o d
  <2> HIDE DEF d
  <2>1. CASE T # {}
    <3>1. call'.first_block = call.first_block
      BY <1>2, <1>4, <1>5, <2>1 DEF CallInv
    <3> QED  BY <1>15, <2>1, <3>1
  <2>2. CASE T = {}
    <3>1. call.first_block = NONE /\ call'.first_block = b
      BY <1>2, <1>4, <2>2
    <3>2. Bytes[NONE] = <<>>
      BY NoChainHolds
    <3> QED  BY <1>13, <1>14, <3>1, <3>2, ConcatEmptySeq DEF Bytestrings
  <2> QED  BY <2>1, <2>2
<1> QED  BY <1>2, <1>10, <1>11, <1>16

\* create_file takes the first free entry for an empty file, or changes nothing.
LEMMA CreateEntry ==
  ASSUME IInv, NEW name \in Names, create_file(name)
  PROVE  \/ /\ UNCHANGED files
            /\ reply' = Refused
         \/ \E i \in Entries :
              /\ FreeEntry(i)
              /\ files'[i] = [name |-> Stored[name], size |-> 0, start_block |-> NONE]
              /\ \A j \in Entries \ {i} : files'[j] = files[j]
              /\ reply' = Accepted
PROOF
<1>1. CASE \E i \in Entries :
             /\ FreeEntry(i)
             /\ files' = [files EXCEPT ![i] = [name |-> Stored[name], size |-> 0,
                                              start_block |-> NONE]]
             /\ reply' = Accepted
  <2>1. PICK i \in Entries :
             /\ FreeEntry(i)
             /\ files' = [files EXCEPT ![i] = [name |-> Stored[name], size |-> 0,
                                              start_block |-> NONE]]
             /\ reply' = Accepted
    BY <1>1
  <2>2. files \in [Entries -> FileEntry]
    BY DEF IInv, TypeOK
  <2> DEFINE e == [name |-> Stored[name], size |-> 0, start_block |-> NONE]
  <2> HIDE DEF e
  <2>3. files' = [files EXCEPT ![i] = e]
    BY <2>1 DEF e
  <2>4. files'[i] = e /\ \A j \in Entries \ {i} : files'[j] = files[j]
    BY <2>2, <2>3
  <2> QED  BY <2>1, <2>4 DEF e
<1>2. CASE UNCHANGED files /\ reply' = Refused
  BY <1>2
<1> QED  BY <1>1, <1>2 DEF create_file

\* No step but the loop's changes what the chains hold.
LEMMA ContentsStay ==
  ASSUME IInv, FileType, BytesEquation, BytesEquation', ChainContents,
         UNCHANGED <<fat_table, data_blocks>>,
         \A i \in Entries :
           \/ files'[i].size = files[i].size /\ files'[i].start_block = files[i].start_block
           \/ files'[i].size = 0 /\ files'[i].start_block = NONE
           \/ \E text \in Texts :
                files'[i].size = Len(text) /\ Holds(files[i].start_block, text)'
  PROVE  FreeBlank' /\ FilesHold'
PROOF
<1>1. FreeBlank'
  BY DEF ChainContents, FreeBlank
<1>2. \A c \in Links : Bytes'[c] = Bytes[c]
  BY BytesStay
<1>3. ASSUME NEW i \in Entries
      PROVE  \E text \in Texts \cup {<<>>} :
               /\ files'[i].size = Len(text)
               /\ Holds(files[i].start_block, text)'
  <2>1. CASE files'[i].size = files[i].size /\ files'[i].start_block = files[i].start_block
    <3>1. PICK text \in Texts \cup {<<>>} :
            files[i].size = Len(text) /\ Padded(Bytes[files[i].start_block], text, Len(text))
      BY DEF ChainContents, FilesHold, Holds
    <3>2. Bytes'[files'[i].start_block] = Bytes[files[i].start_block]
      BY <1>2, <2>1 DEF FileType
    <3> QED  BY <2>1, <3>1, <3>2 DEF Holds
  <2>2. CASE files'[i].size = 0 /\ files'[i].start_block = NONE
    <3>1. Padded(Bytes[NONE], <<>>, Len(<<>>))
      BY NoChainHolds DEF Holds
    <3>2. Bytes'[NONE] = Bytes[NONE]
      BY <1>2 DEF Links, NONE, FREE
    <3>3. Holds(files[i].start_block, <<>>)'
      BY <2>2, <3>1, <3>2 DEF Holds
    <3>4. Len(<<>>) = 0
      BY EmptySeq, Zenon
    <3> QED  BY <2>2, <3>3, <3>4
  <2>3. CASE \E text \in Texts :
               files'[i].size = Len(text) /\ Holds(files[i].start_block, text)'
    BY <2>3
  <2> QED  BY <2>1, <2>2, <2>3
<1> QED  BY <1>1, <1>3 DEF FilesHold

\* A call that has no block yet, or none any more.
LEMMA NoChainContents ==
  ASSUME BytesEquation', call'.first_block = NONE, call'.prev_block = NONE,
         call'.bytes_written = 0, IInv'
  PROVE  CallHolds' /\ OwnChain'
PROOF
<1>1. Bytes'[NONE] = <<>>
  BY NotBlocks DEF BytesEquation, Links, Step, NONE, FREE
<1>2. <<>> \in Bytestrings /\ Len(<<>>) = 0
  BY EmptySeq, Zenon DEF Bytestrings
<1>3. Padded(<<>>, call'.data, 0)
  BY <1>2, FileSystemAssumption DEF Padded
<1>4. CallHolds'
  BY <1>1, <1>2, <1>3 DEF CallHolds
<1>5. OwnChain'
  <2> USE DEF OwnChain
  <2> WITNESS {} \in SUBSET Blocks
  <2> QED  OBVIOUS
<1> QED  BY <1>4, <1>5

\* One lemma per command that changes the directory or starts or ends a write.
LEMMA CreateContents ==
  ASSUME IInv, IInv', FileType, BytesEquation, BytesEquation', ChainContents,
         NEW name \in Names, create_file(name)
  PROVE  ChainContents'
PROOF
<1>1. UNCHANGED <<fat_table, data_blocks, call>> /\ Idle
  BY DEF create_file
<1>2. ASSUME NEW i \in Entries
      PROVE  \/ files'[i] = files[i]
             \/ files'[i].size = 0 /\ files'[i].start_block = NONE
  <2>1. CASE UNCHANGED files
    BY <2>1
  <2>2. CASE ~ UNCHANGED files
    <3>1. PICK k \in Entries :
              /\ files'[k] = [name |-> Stored[name], size |-> 0, start_block |-> NONE]
              /\ \A j \in Entries \ {k} : files'[j] = files[j]
      BY <2>2, CreateEntry
    <3> QED  BY <3>1
  <2> QED  BY <2>1, <2>2
<1>3. FreeBlank' /\ FilesHold'
  BY <1>1, <1>2, ContentsStay
<1>4. NoHoles'
  <2>1. CASE UNCHANGED files
    BY <2>1 DEF ChainContents, NoHoles
  <2>2. CASE ~ UNCHANGED files
    <3>1. PICK i \in Entries :
              /\ FreeEntry(i)
              /\ files'[i] = [name |-> Stored[name], size |-> 0, start_block |-> NONE]
              /\ \A j \in Entries \ {i} : files'[j] = files[j]
      BY <2>2, CreateEntry
    <3>2. files'[i].name # NoName
      BY <3>1, FileSystemAssumption
    <3>3. ASSUME NEW j \in Entries, NEW k \in Entries, j < k, files'[k].name # NoName
          PROVE  files'[j].name # NoName
      <4>1. CASE j = i
        BY <3>2, <4>1
      <4>2. CASE j # i /\ k = i
        <5>1. ~ (i <= j)
          BY <3>3, <4>2, SMT DEF Entries
        <5>2. files[j].name # NoName
          BY <3>1, <5>1 DEF FreeEntry
        <5> QED  BY <3>1, <4>2, <5>2
      <4>3. CASE j # i /\ k # i
        BY <3>1, <3>3, <4>3 DEF ChainContents, NoHoles
      <4> QED  BY <4>1, <4>2, <4>3
    <3> QED  BY <3>3 DEF NoHoles
  <2> QED  BY <2>1, <2>2
<1>5. CallTarget'
  BY <1>1 DEF CallTarget, Idle
<1>6. call' = NoCall
  BY <1>1 DEF IInv, CallInv
<1>7. CallHolds' /\ OwnChain'
  <2>1. call'.first_block = NONE /\ call'.prev_block = NONE /\ call'.bytes_written = 0
    BY <1>6 DEF NoCall
  <2> QED  BY <2>1, NoChainContents
<1> QED  BY <1>3, <1>4, <1>5, <1>7 DEF ChainContents

LEMMA WriteContents ==
  ASSUME IInv, IInv', FileType, BytesEquation, BytesEquation', ChainContents,
         NEW name \in Names, NEW data \in Texts, write_file(name, data)
  PROVE  ChainContents'
PROOF
<1>1. UNCHANGED <<files, fat_table, data_blocks>>
  BY DEF write_file
<1>2. FreeBlank' /\ FilesHold' /\ NoHoles'
  BY <1>1, ContentsStay DEF ChainContents, NoHoles
<1>3. CASE \E i \in Entries :
             find_file(name, i) /\ call' = [NoCall EXCEPT !.file = i, !.data = data]
  <2>1. PICK i \in Entries :
             find_file(name, i) /\ call' = [NoCall EXCEPT !.file = i, !.data = data]
    BY <1>3
  <2>2. /\ call'.file = i /\ call'.data = data
        /\ call'.first_block = NONE /\ call'.prev_block = NONE
        /\ call'.bytes_written = 0
    BY <2>1 DEF NoCall
  <2>3. find_file(name, i)'
    BY <1>1, <2>1 DEF find_file
  <2>4. CallTarget'
    BY <2>2, <2>3 DEF CallTarget
  <2> QED  BY <1>2, <2>2, <2>4, NoChainContents DEF ChainContents
<1>4. CASE UNCHANGED call
  <2>1. call' = NoCall
    BY <1>4 DEF write_file, IInv, CallInv
  <2>2. /\ call'.first_block = NONE /\ call'.prev_block = NONE
        /\ call'.bytes_written = 0 /\ call'.file = NONE
    BY <2>1 DEF NoCall
  <2>3. CallTarget'
    BY <2>2 DEF CallTarget, Idle
  <2> QED  BY <1>2, <2>2, <2>3, NoChainContents DEF ChainContents
<1> QED  BY <1>3, <1>4 DEF write_file

LEMMA FinishContents ==
  ASSUME IInv, IInv', FileType, BytesEquation, BytesEquation', ChainContents,
         write_finish
  PROVE  ChainContents'
PROOF
<1>1. /\ call.file \in Entries
      /\ files'[call.file].start_block = call.first_block
      /\ files'[call.file].name = files[call.file].name
      /\ files'[call.file].size = Len(call.data)
      /\ \A i \in Entries \ {call.file} : files'[i] = files[i]
      /\ call' = NoCall
      /\ UNCHANGED <<fat_table, data_blocks>>
  BY WriteFinish
<1>2. call.data \in Texts
  BY DEF write_finish, ChainContents, CallTarget
<1>3. call.bytes_written = Len(call.data)
  BY DEF write_finish, IInv, TypeOK, WriteCall
<1>4. Padded(Bytes'[files'[call.file].start_block], call.data, Len(call.data))
  <2>1. Padded(Bytes[call.first_block], call.data, Len(call.data))
    BY <1>3 DEF ChainContents, CallHolds
  <2>2. call.first_block \in Links
    BY DEF IInv, TypeOK, WriteCall, Links, NONE, FREE
  <2>3. Bytes'[call.first_block] = Bytes[call.first_block]
    BY <1>1, <2>2, BytesStay
  <2> QED  BY <1>1, <2>1, <2>3
<1>5. FreeBlank' /\ FilesHold'
  <2>1. ASSUME NEW i \in Entries, i = call.file
        PROVE  \E text \in Texts :
                 files'[i].size = Len(text) /\ Holds(files[i].start_block, text)'
    <3>1. PICK text \in Texts : text = call.data
      BY <1>2
    <3>2. files'[i].size = Len(text) /\ Holds(files[i].start_block, text)'
      BY <1>1, <1>4, <2>1, <3>1 DEF Holds
    <3> QED  BY <3>2
  <2>2. ASSUME NEW i \in Entries, i # call.file
        PROVE  files'[i] = files[i]
    BY <1>1, <2>2
  <2> QED  BY <1>1, <2>1, <2>2, ContentsStay
<1>6. NoHoles'
  BY <1>1 DEF ChainContents, NoHoles
<1>7. /\ call'.first_block = NONE /\ call'.prev_block = NONE
      /\ call'.bytes_written = 0 /\ call'.file = NONE
  BY <1>1 DEF NoCall
<1>8. CallTarget'
  BY <1>7 DEF CallTarget, Idle
<1> QED  BY <1>5, <1>6, <1>7, <1>8, NoChainContents DEF ChainContents

\* The block an iteration fills was blank, so its padding is NULs.
LEMMA BlockContents ==
  ASSUME IInv, IInv', FileType, BytesEquation, BytesEquation', BytesType, ChainContents,
         write_block
  PROVE  ChainContents'
PROOF
<1> USE DEF IInv
<1>1. PICK b \in Blocks :
        /\ fat_table[b] = FREE
        /\ fat_table' \in [Blocks -> Blocks \cup {FREE, END}]
        /\ fat_table'[b] = END
        /\ \A c \in Blocks \ {b} :
             fat_table'[c] = IF c = call.prev_block THEN b ELSE fat_table[c]
        /\ \A c \in Blocks \ {b} : data_blocks'[c] = data_blocks[c]
        /\ data_blocks'[b] = [k \in 1 .. BLOCK_SIZE |->
                                IF call.bytes_written + k <= Len(call.data)
                                THEN call.data[call.bytes_written + k]
                                ELSE data_blocks[b][k]]
        /\ call' = [call EXCEPT !.first_block = IF @ = NONE THEN b ELSE @,
                                !.prev_block = b,
                                !.bytes_written = WrittenAfter]
  BY BlockTaken
<1>2. /\ call'.prev_block = b /\ call'.file = call.file /\ call'.data = call.data
      /\ call'.bytes_written = WrittenAfter
  BY <1>1 DEF TypeOK, WriteCall
<1>3. UNCHANGED files /\ ~Idle /\ call.bytes_written < Len(call.data)
  BY DEF write_block, CallInv, NoCall
<1>4. /\ OwnChain'
      /\ \A i \in Entries : Bytes'[files[i].start_block] = Bytes[files[i].start_block]
      /\ Bytes'[call'.first_block] = Bytes[call.first_block] \o data_blocks'[b]
  BY <1>2, BlockAppended DEF ChainContents
<1>5. FreeBlank'
  <2>1. ASSUME NEW c \in Blocks, fat_table'[c] = FREE
        PROVE  c # b /\ fat_table[c] = FREE
    BY <1>1, <2>1, NotBlocks
  <2> QED  BY <1>1, <2>1 DEF ChainContents, FreeBlank
<1>6. FilesHold'
  BY <1>3, <1>4 DEF ChainContents, FilesHold, Holds
<1>7. NoHoles'
  BY <1>3 DEF ChainContents, NoHoles
<1>8. CallTarget'
  <2>1. \A name \in Names : find_file(name, call.file) => find_file(name, call.file)'
    BY <1>2, <1>3 DEF find_file
  <2> QED  BY <1>2, <1>3, <2>1 DEF ChainContents, CallTarget
<1>9. CallHolds'
  <2> DEFINE d == data_blocks'[b]
             n == call.bytes_written
             text == call.data
             bytes == Bytes[call.first_block]
  <2>1. text \in Seq(Chars) /\ n \in Nat /\ n < Len(text)
    BY <1>3 DEF TypeOK, WriteCall
  <2>2. Padded(bytes, text, n) /\ Len(bytes) = n
    BY <1>3 DEF ChainContents, CallHolds
  <2>3. d \in Data
    BY DEF TypeOK
  <2>4. \A k \in 1 .. BLOCK_SIZE :
          d[k] = IF n + k <= Len(text) THEN text[n + k] ELSE NUL
    <3>1. \A k \in 1 .. BLOCK_SIZE : data_blocks[b][k] = NUL
      BY <1>1 DEF ChainContents, FreeBlank
    <3> QED  BY <1>1, <3>1
  <2>5. WrittenAfter = IF n + BLOCK_SIZE < Len(text) THEN n + BLOCK_SIZE ELSE Len(text)
    BY DEF WrittenAfter
  <2>6. /\ Padded(bytes \o d, text, WrittenAfter)
        /\ WrittenAfter < Len(text) => Len(bytes \o d) = WrittenAfter
    <3> HIDE DEF d, n, text, bytes
    <3> QED  BY <2>1, <2>2, <2>3, <2>4, <2>5, PaddedGrows
  <2> QED  BY <1>2, <1>4, <2>6 DEF CallHolds
<1> QED  BY <1>4, <1>5, <1>6, <1>7, <1>8, <1>9 DEF ChainContents

\* Every step keeps them.
LEMMA NextContents ==
  ASSUME IInv, IInv', FileType, BytesEquation, BytesEquation', BytesType, ChainContents,
         [Next]_vars
  PROVE  ChainContents'
PROOF
<1>1. CASE write_out_of_blocks
  <2>1. /\ call' = NoCall /\ UNCHANGED <<files, fat_table, data_blocks>>
    BY <1>1 DEF write_out_of_blocks
  <2>2. /\ call'.first_block = NONE /\ call'.prev_block = NONE
        /\ call'.bytes_written = 0 /\ call'.file = NONE
    BY <2>1 DEF NoCall
  <2>3. CallTarget'
    BY <2>2 DEF CallTarget, Idle
  <2>4. FreeBlank' /\ FilesHold'
    BY <2>1, ContentsStay
  <2>5. NoHoles'
    BY <2>1 DEF ChainContents, NoHoles
  <2> QED  BY <2>2, <2>3, <2>4, <2>5, NoChainContents DEF ChainContents
<1>2. CASE UNCHANGED <<files, fat_table, data_blocks, call>>
  <2>1. FreeBlank' /\ FilesHold'
    BY <1>2, ContentsStay
  <2>2. CallTarget'
    <3>1. \A name \in Names : find_file(name, call.file) => find_file(name, call.file)'
      BY <1>2 DEF find_file
    <3> QED  BY <1>2, <3>1 DEF ChainContents, CallTarget, Idle
  <2>3. CallHolds'
    <3>1. call.first_block \in Links
      BY DEF IInv, TypeOK, WriteCall, Links, NONE, FREE
    <3>2. Bytes'[call.first_block] = Bytes[call.first_block]
      BY <1>2, <3>1, BytesStay
    <3> QED  BY <1>2, <3>2 DEF ChainContents, CallHolds
  <2>4. OwnChain' /\ NoHoles'
    BY <1>2 DEF ChainContents, OwnChain, NoHoles
  <2> QED  BY <2>1, <2>2, <2>3, <2>4 DEF ChainContents
<1>3. ASSUME NEW name \in Names, read_file(name)
      PROVE  ChainContents'
  BY <1>2, <1>3 DEF read_file
<1>4. CASE UNCHANGED vars
  BY <1>2, <1>4 DEF vars
<1> QED  BY <1>1, <1>3, <1>4, CreateContents, WriteContents, FinishContents,
            BlockContents DEF Next

\* The inductive invariant of what the files hold.
ContentInv == IInv /\ ChainContents

LEMMA NextContentInv == ContentInv /\ [Next]_vars => ContentInv'
PROOF
<1>1. IInv => FileType
  BY FileTyped
<1>2. IInv /\ IInv' /\ FileType /\ BytesEquation /\ BytesEquation' /\ BytesType
        /\ ChainContents /\ [Next]_vars
        => ChainContents'
  BY NextContents
<1> QED  BY <1>1, <1>2, Equations, PTL DEF ContentInv

\* Every chain of a file holds a text and its padding, after any sequence of
\* whole, failed and superseded writes.
THEOREM ContentInvariance == Spec => []ContentInv
PROOF
<1>1. Init => ContentInv
  BY InitIInv, InitContents DEF ContentInv
<1> QED  BY <1>1, NextContentInv, PTL DEF Spec

\* The text's length is the size, and a text with its padding fits the buffer.
LEMMA FileShown ==
  ContentInv => SizeIsLength /\ ReadFits
PROOF
<1> SUFFICES ASSUME ContentInv, NEW i \in Entries
             PROVE  /\ files[i].size = Len(Printed(Bytes[files[i].start_block]))
                    /\ Len(Bytes[files[i].start_block]) < READ_BUF
  BY DEF SizeIsLength, ReadFits
<1> DEFINE s == Bytes[files[i].start_block]
<1>1. PICK text \in Texts \cup {<<>>} :
        files[i].size = Len(text) /\ Padded(s, text, Len(text))
  BY DEF ContentInv, ChainContents, FilesHold, Holds
<1> HIDE DEF s
<1>2. text \in Seq(Chars)
  BY FileSystemAssumption, EmptySeq
<1>3. Printed(s) = text
  BY <1>1, <1>2, PrintedText
<1>4. Len(s) < READ_BUF
  <2>1. Len(s) \in Len(text) .. Len(text) + BLOCK_SIZE - 1
        /\ (Len(text) = 0 => s = <<>>)
    BY <1>1 DEF Padded
  <2>2. Len(text) \in Nat
    BY <1>2
  <2>3. CASE text \in Texts
    <3>1. Len(text) + BLOCK_SIZE <= READ_BUF
      BY <2>3, FileSystemAssumption
    <3> QED  BY <2>1, <2>2, <3>1, FileSystemAssumption
  <2>4. CASE text = <<>>
    <3>1. Len(<<>>) = 0
      BY EmptySeq, Zenon
    <3>2. s = <<>>
      BY <2>1, <2>4, <3>1
    <3> QED  BY <3>1, <3>2, FileSystemAssumption
  <2> QED  BY <2>3, <2>4
<1> QED  BY <1>1, <1>3, <1>4 DEF s

\* The size the directory shows is the length of what read_file returns.
THEOREM SizeShown == Spec => []SizeIsLength
BY ContentInvariance, FileShown, PTL

\* No file, padding included, overruns the read command's buffer.
THEOREM BufferLargeEnough == Spec => []ReadFits
BY ContentInvariance, FileShown, PTL

-----------------------------------------------------------------------------
(* The commands implement the store.                                        *)

\* A name is found at one entry, whose text is its content.
ContentFacts ==
  /\ Content = [name \in Found |-> Content[name]]
  /\ \A name \in Found : \E i \in Entries : find_file(name, i)
  /\ \A name \in Names : \A i \in Entries :
       find_file(name, i)
         => name \in Found /\ Content[name] = Printed(Bytes[files[i].start_block])

\* Of the entries with a name there is a first one.
LEMMA ContentFound == ContentFacts
PROOF
<1>1. ASSUME NEW name \in Found
      PROVE  \E i \in Entries : find_file(name, i)
  <2> DEFINE S == {i \in Entries : files[i].name = name}
  <2>1. S \subseteq Nat /\ S # {}
    BY DEF Found, Missing, Entries
  <2>2. \E i \in S : \A j \in S : i <= j
    BY <2>1, LeastNatural
  <2> QED  BY <2>2 DEF find_file
<1>2. ASSUME NEW name \in Names, NEW i \in Entries, find_file(name, i)
      PROVE  name \in Found /\ Content[name] = Printed(Bytes[files[i].start_block])
  <2>1. name \in Found
    BY <1>2 DEF Found, Missing, find_file
  <2>2. \A j \in Entries : find_file(name, j) => j = i
    BY <1>2, SMT DEF find_file, Entries
  <2>3. (CHOOSE j \in Entries : find_file(name, j)) = i
    BY <1>2, <2>2
  <2>4. Content[name] = LET j == CHOOSE j \in Entries : find_file(name, j)
                        IN  Printed(Bytes[files[j].start_block])
    BY <2>1 DEF Content
  <2> QED  BY <2>1, <2>3, <2>4
<1>3. Content = [name \in Found |-> Content[name]]
  BY DEF Content
<1> QED  BY <1>1, <1>2, <1>3 DEF ContentFacts

\* The store stutters while the directory and what its chains read stay.
LEMMA ContentSame ==
  ASSUME ContentFacts, ContentFacts', UNCHANGED files,
         \A i \in Entries : Bytes'[files[i].start_block] = Bytes[files[i].start_block]
  PROVE  Content' = Content
PROOF
<1>1. Found' = Found
  BY DEF Found, Missing
<1>2. ASSUME NEW name \in Found
      PROVE  Content'[name] = Content[name]
  <2>1. PICK i \in Entries : find_file(name, i)
    BY DEF ContentFacts
  <2>2. find_file(name, i)'
    BY <2>1 DEF find_file
  <2>3. name \in Names
    BY DEF Found
  <2>4. Content[name] = Printed(Bytes[files[i].start_block])
    BY <2>1, <2>3 DEF ContentFacts
  <2>5. Content'[name] = Printed(Bytes'[files'[i].start_block])
    BY <2>2, <2>3 DEF ContentFacts
  <2> QED  BY <2>4, <2>5
<1>3. Content = [name \in Found |-> Content[name]]
  BY DEF ContentFacts
<1>4. Content' = [name \in Found |-> Content'[name]]
  BY <1>1 DEF ContentFacts
<1>5. \A name \in Found : Content'[name] = Content[name]
  BY <1>2
<1> QED  BY <1>3, <1>4, <1>5, Zenon

LEMMA EmptyText == Printed(<<>>) = <<>>
PROOF
<1>1. <<>> \in Seq(Chars) /\ <<>> \in Bytestrings /\ Len(<<>>) = 0
  BY EmptySeq, Zenon DEF Bytestrings
<1>2. Padded(<<>>, <<>>, Len(<<>>))
  BY <1>1, FileSystemAssumption DEF Padded
<1> QED  BY <1>1, <1>2, PrintedText

\* A new entry comes after all that are named, so it hides no file.
LEMMA CreateStore ==
  ASSUME ContentInv, BytesEquation, BytesEquation', FileType,
         ContentFacts, ContentFacts', NEW name \in Names, create_file(name)
  PROVE  Store!Create(name)
PROOF
<1>1. UNCHANGED <<fat_table, data_blocks, call>>
  BY DEF create_file
<1>2. \A c \in Links : Bytes'[c] = Bytes[c]
  BY <1>1, BytesStay DEF ContentInv
<1>3. CASE UNCHANGED files /\ reply' = Refused
  <2>1. Content' = Content
    BY <1>2, <1>3, ContentSame DEF FileType
  <2> QED  BY <1>3, <2>1 DEF Store!Create, Store!Refused, Refused
<1>4. CASE \E i \in Entries :
              /\ FreeEntry(i)
              /\ files'[i] = [name |-> Stored[name], size |-> 0, start_block |-> NONE]
              /\ \A j \in Entries \ {i} : files'[j] = files[j]
              /\ reply' = Accepted
  <2>1. PICK i \in Entries :
              /\ FreeEntry(i)
              /\ files'[i] = [name |-> Stored[name], size |-> 0, start_block |-> NONE]
              /\ \A j \in Entries \ {i} : files'[j] = files[j]
              /\ reply' = Accepted
    BY <1>4
  <2> DEFINE s == Stored[name]
  <2>2. s \in Names /\ s # NoName /\ NoName \notin Names
    BY FileSystemAssumption
  <2>3. files[i].name = NoName /\ files'[i].name = s /\ files'[i].start_block = NONE
    BY <2>1 DEF FreeEntry
  <2> HIDE DEF s
  <2>4. Found' = Found \cup {s}
    <3>1. ASSUME NEW m \in Names
          PROVE  (\E j \in Entries : files'[j].name = m)
                   <=> (m = s \/ \E j \in Entries : files[j].name = m)
      BY <2>1, <2>2, <2>3
    <3> QED  BY <2>2, <3>1 DEF Found, Missing
  <2>5. ASSUME NEW m \in Found
        PROVE  Content'[m] = Content[m]
    <3>1. PICK j \in Entries : find_file(m, j)
      BY DEF ContentFacts
    <3>2. m \in Names /\ files[j].name = m /\ j # i
      BY <2>2, <2>3, <3>1 DEF find_file, Found
    <3>3. j < i
      <4>1. ~ (i < j)
        BY <2>2, <2>3, <3>2 DEF ContentInv, ChainContents, NoHoles
      <4> QED  BY <3>2, <4>1, SMT DEF Entries
    <3>4. find_file(m, j)'
      <4>1. files'[j].name = m
        BY <2>1, <3>2
      <4>2. ASSUME NEW k \in Entries, files'[k].name = m
            PROVE  j <= k
        <5>1. CASE k = i
          BY <3>3, <5>1, SMT DEF Entries
        <5>2. CASE k # i
          BY <2>1, <3>1, <4>2, <5>2 DEF find_file
        <5> QED  BY <5>1, <5>2
      <4> QED  BY <4>1, <4>2 DEF find_file
    <3>5. Content[m] = Printed(Bytes[files[j].start_block])
      BY <3>1, <3>2 DEF ContentFacts
    <3>6. Content'[m] = Printed(Bytes'[files'[j].start_block])
      BY <3>2, <3>4 DEF ContentFacts
    <3>7. Bytes'[files'[j].start_block] = Bytes[files[j].start_block]
      BY <1>2, <2>1, <3>2 DEF FileType
    <3> QED  BY <3>5, <3>6, <3>7
  <2>6. ASSUME s \notin Found
        PROVE  Content'[s] = <<>>
    <3>1. \A j \in Entries : files[j].name # s
      BY <2>2, <2>6 DEF Found, Missing
    <3>2. find_file(s, i)'
      BY <2>1, <2>3, <3>1, SMT DEF find_file, Entries
    <3>3. Content'[s] = Printed(Bytes'[files'[i].start_block])
      BY <2>2, <3>2 DEF ContentFacts
    <3>4. Bytes'[NONE] = <<>>
      BY NotBlocks DEF BytesEquation, Links, Step, NONE, FREE
    <3> QED  BY <2>3, <3>3, <3>4, EmptyText
  <2>7. DOMAIN Content = Found
    BY DEF ContentFacts
  <2>8. Content' = [m \in Found \cup {s} |->
                      IF m \in Found THEN Content[m] ELSE <<>>]
    <3>1. Content' = [m \in Found \cup {s} |-> Content'[m]]
      BY <2>4 DEF ContentFacts
    <3>2. \A m \in Found \cup {s} :
            Content'[m] = IF m \in Found THEN Content[m] ELSE <<>>
      BY <2>5, <2>6
    <3> QED  BY <3>1, <3>2, Zenon
  <2> QED  BY <2>1, <2>7, <2>8 DEF Store!Create, Store!Accepted, Accepted, s
<1> QED  BY <1>3, <1>4, CreateEntry DEF ContentInv

\* The last step of a write gives its file the text, and no other file.
LEMMA FinishStore ==
  ASSUME ContentInv, BytesEquation, BytesEquation', FileType,
         ContentFacts, ContentFacts', write_finish
  PROVE  \E name \in Names : \E data \in Texts : Store!Write(name, data)
PROOF
<1>1. /\ call.file \in Entries
      /\ files'[call.file].start_block = call.first_block
      /\ files'[call.file].name = files[call.file].name
      /\ \A i \in Entries \ {call.file} : files'[i] = files[i]
      /\ UNCHANGED <<fat_table, data_blocks>>
  BY WriteFinish DEF ContentInv
<1>2. PICK name \in Names : find_file(name, call.file) /\ call.data \in Texts
  BY DEF write_finish, ContentInv, ChainContents, CallTarget
<1>3. \A c \in Links : Bytes'[c] = Bytes[c]
  BY <1>1, BytesStay DEF ContentInv
<1>4. \A i \in Entries : files'[i].name = files[i].name
  BY <1>1
<1>5. Found' = Found
  BY <1>4 DEF Found, Missing
<1>6. \A m : \A i : find_file(m, i)' <=> find_file(m, i)
  BY <1>4 DEF find_file
<1>7. Content'[name] = call.data
  <2>1. Content'[name] = Printed(Bytes'[files'[call.file].start_block])
    BY <1>1, <1>2, <1>6 DEF ContentFacts
  <2>2. call.first_block \in Links
    BY DEF ContentInv, IInv, TypeOK, WriteCall, Links, NONE, FREE
  <2>3. call.bytes_written = Len(call.data)
    BY DEF write_finish, ContentInv, IInv, TypeOK, WriteCall
  <2>4. Padded(Bytes[call.first_block], call.data, Len(call.data))
    BY <2>3 DEF ContentInv, ChainContents, CallHolds
  <2>5. call.data \in Seq(Chars)
    BY <1>2, FileSystemAssumption
  <2>6. Printed(Bytes[call.first_block]) = call.data
    BY <2>4, <2>5, PrintedText
  <2> QED  BY <1>1, <1>3, <2>1, <2>2, <2>6
<1>8. ASSUME NEW m \in Found, m # name
      PROVE  Content'[m] = Content[m]
  <2>1. PICK j \in Entries : find_file(m, j)
    BY DEF ContentFacts
  <2>2. j # call.file /\ m \in Names
    BY <1>2, <1>8, <2>1 DEF find_file, Found
  <2>3. Content[m] = Printed(Bytes[files[j].start_block])
    BY <2>1, <2>2 DEF ContentFacts
  <2>4. Content'[m] = Printed(Bytes'[files'[j].start_block])
    BY <1>6, <2>1, <2>2 DEF ContentFacts
  <2>5. Bytes'[files'[j].start_block] = Bytes[files[j].start_block]
    BY <1>1, <1>3, <2>2 DEF FileType
  <2> QED  BY <2>3, <2>4, <2>5
<1>9. name \in Found /\ Content = [m \in Found |-> Content[m]]
      /\ Content' = [m \in Found |-> Content'[m]]
  BY <1>1, <1>2, <1>5 DEF ContentFacts
<1>10. Content' = [Content EXCEPT ![name] = call.data]
  <2> DEFINE c == Content
             d == Content'
  <2>1. c = [m \in Found |-> c[m]] /\ d = [m \in Found |-> d[m]]
    BY <1>9
  <2>2. \A m \in Found : d[m] = IF m = name THEN call.data ELSE c[m]
    BY <1>7, <1>8
  <2> HIDE DEF c, d
  <2>3. d = [c EXCEPT ![name] = call.data]
    BY <2>1, <2>2
  <2> QED  BY <2>3 DEF c, d
<1>11. name \in DOMAIN Content
  BY <1>9
<1>12. reply' = Accepted
  BY DEF write_finish
<1>13. Store!Write(name, call.data)
  BY <1>10, <1>11, <1>12 DEF Store!Write, Store!Accepted, Accepted
<1> QED  BY <1>2, <1>13

\* Reading shows the text, and fails for an empty one.
LEMMA ReadStore ==
  ASSUME ContentInv, BytesEquation, BytesEquation', FileType,
         ContentFacts, ContentFacts', NEW name \in Names, read_file(name)
  PROVE  Store!Read(name)
PROOF
<1>1. UNCHANGED <<files, fat_table, data_blocks>>
  BY DEF read_file
<1>2. Content' = Content
  <2>1. \A c \in Links : Bytes'[c] = Bytes[c]
    BY <1>1, BytesStay DEF ContentInv
  <2> QED  BY <1>1, <2>1, ContentSame DEF FileType
<1>3. DOMAIN Content = Found
  BY DEF ContentFacts
<1>4. CASE name \notin Found
  <2>1. ~ \E i \in Entries : find_file(name, i)
    BY <1>4 DEF Found, Missing, find_file
  <2>2. reply' = Refused
    BY <2>1 DEF read_file
  <2> QED  BY <1>2, <1>3, <1>4, <2>2 DEF Store!Read, Store!Refused, Refused
<1>5. CASE name \in Found
  <2>1. PICK i \in Entries : find_file(name, i)
    BY <1>5 DEF ContentFacts
  <2>2. \A j \in Entries : find_file(name, j) => j = i
    BY <2>1, SMT DEF find_file, Entries
  <2>3. (CHOOSE j \in Entries : find_file(name, j)) = i
    BY <2>1, <2>2
  <2> DEFINE s == Bytes[files[i].start_block]
  <2>4. (\E j \in Entries : find_file(name, j) /\ Bytes[files[j].start_block] # <<>>)
          <=> s # <<>>
    BY <2>1, <2>2
  <2>5. reply' = IF s # <<>> THEN [ok |-> TRUE, text |-> Printed(s)] ELSE Refused
    BY <2>3, <2>4 DEF read_file
  <2>6. PICK text \in Texts \cup {<<>>} : Padded(s, text, Len(text))
    BY DEF ContentInv, ChainContents, FilesHold, Holds
  <2>7. Content[name] = Printed(s)
    BY <2>1 DEF ContentFacts
  <2> HIDE DEF s
  <2>8. text \in Seq(Chars)
    BY FileSystemAssumption, EmptySeq
  <2>9. Printed(s) = text
    BY <2>6, <2>8, PrintedText
  <2>10. s # <<>> <=> text # <<>>
    <3>1. text = <<>> => s = <<>>
      <4>1. Len(<<>>) = 0
        BY EmptySeq, Zenon
      <4> QED  BY <2>6, <4>1 DEF Padded
    <3>2. s = <<>> => text = <<>>
      BY <2>9, EmptyText
    <3> QED  BY <3>1, <3>2
  <2> QED  BY <1>2, <1>3, <1>5, <2>5, <2>7, <2>9, <2>10
           DEF Store!Read, Store!Refused, Refused
<1> QED  BY <1>4, <1>5

LEMMA NextStore ==
  ASSUME ContentInv, ContentInv', BytesEquation, BytesEquation', BytesType, FileType,
         ContentFacts, ContentFacts', [Next]_vars
  PROVE  [Store!Next]_<<Content, reply>>
PROOF
<1> SUFFICES ASSUME ~ UNCHANGED <<Content, reply>>
             PROVE  Store!Next
  OBVIOUS
<1>1. ASSUME UNCHANGED <<files, fat_table, data_blocks>>
      PROVE  Content' = Content
  <2>1. \A c \in Links : Bytes'[c] = Bytes[c]
    BY <1>1, BytesStay DEF ContentInv
  <2> QED  BY <1>1, <2>1, ContentSame DEF FileType
<1>2. ASSUME NEW name \in Names, create_file(name)
      PROVE  Store!Next
  BY <1>2, CreateStore DEF Store!Next
<1>3. ASSUME NEW name \in Names, read_file(name)
      PROVE  Store!Next
  BY <1>3, ReadStore DEF Store!Next
<1>4. ASSUME NEW name \in Names, NEW data \in Texts, write_file(name, data)
      PROVE  Store!Next
  <2>1. Content' = Content
    BY <1>1, <1>4 DEF write_file
  <2>2. reply' = Refused
    BY <1>4, <2>1 DEF write_file
  <2>3. Store!Write(name, data)
    BY <2>1, <2>2 DEF Store!Write, Store!Refused, Refused
  <2> QED  BY <2>3 DEF Store!Next
<1>5. CASE write_block
  <2>1. Content' = Content
    <3>1. UNCHANGED files
      BY <1>5 DEF write_block
    <3>2. \A i \in Entries :
            Bytes'[files[i].start_block] = Bytes[files[i].start_block]
      BY <1>5, BlockAppended DEF ContentInv, ChainContents
    <3> QED  BY <3>1, <3>2, ContentSame
  <2> QED  BY <1>5, <2>1 DEF write_block
<1>6. CASE write_out_of_blocks
  <2>1. Content' = Content /\ reply' = Refused
    BY <1>1, <1>6 DEF write_out_of_blocks
  <2>2. ~ Idle
    <3>1. Len(<<>>) = 0
      BY EmptySeq, Zenon
    <3> QED  BY <1>6, <3>1 DEF write_out_of_blocks, ContentInv, IInv, CallInv, NoCall
  <2>3. PICK name \in Names : call.data \in Texts
    BY <2>2 DEF ContentInv, ChainContents, CallTarget
  <2>4. Store!Write(name, call.data)
    BY <2>1 DEF Store!Write, Store!Refused, Refused
  <2> QED  BY <2>3, <2>4 DEF Store!Next
<1>7. CASE write_finish
  BY <1>7, FinishStore DEF Store!Next
<1>8. CASE UNCHANGED vars
  BY <1>1, <1>8 DEF vars
<1> QED  BY <1>2, <1>3, <1>4, <1>5, <1>6, <1>7, <1>8 DEF Next

\* The block chains implement the map from names to texts.
THEOREM StoreImplemented == Spec => ImplementsStore
PROOF
<1>1. Init => Store!Init
  <2> SUFFICES ASSUME Init
               PROVE  Store!Init
    OBVIOUS
  <2>1. Found = {}
    BY FileSystemAssumption DEF Init, Found, Missing
  <2>2. Content = [n \in {} |-> <<>>]
    BY <2>1, Zenon DEF Content
  <2>3. reply = Store!Accepted
    BY DEF Init, Store!Accepted, Accepted
  <2> QED  BY <2>2, <2>3 DEF Store!Init
<1>2. ContentInv /\ ContentInv' /\ BytesEquation /\ BytesEquation' /\ BytesType
        /\ FileType /\ ContentFacts /\ ContentFacts' /\ [Next]_vars
        => [Store!Next]_<<Content, reply>>
  BY NextStore
<1>3. ContentInv => IInv
  BY DEF ContentInv
<1>4. ContentInv /\ [Next]_vars => [Store!Next]_<<Content, reply>>
  <2>1. IInv => FileType
    BY FileTyped
  <2>2. ContentFacts
    BY ContentFound
  <2> QED  BY <1>2, <1>3, <2>1, <2>2, NextContentInv, Equations, PTL
<1> QED  BY <1>1, <1>4, ContentInvariance, PTL DEF Spec, ImplementsStore, Store!Spec
=============================================================================

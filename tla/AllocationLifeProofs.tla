------------------------ MODULE AllocationLifeProofs ------------------------
(***************************************************************************)
(* For any origins, ROIs, addresses and bounds, the table finds the right  *)
(* allocation and the ROIs report what they owe, for the origins that have *)
(* one live block at a time and that no entry executed again disturbs.     *)
(*                                                                         *)
(* An ALLOC_ADD that is executed again leaves an entry in the table that   *)
(* belongs to no live block.  The invariant says where such entries do no  *)
(* harm: their origin is confused, and so is that of every block around    *)
(* their address, so that no other lookup ever ends at them.               *)
(***************************************************************************)
EXTENDS AllocationLife, TLAPS

Separate(b, c) == b.base + b.len <= c.base \/ c.base + c.len <= b.base

\* The blocks bs do not overlap, and the table t has an entry for each of them
\* whose origin is not in cf.  Any other entry but the sentinel belongs to an
\* origin of cf and lies in no block of another one.
TableFor(t, bs, cf) ==
    /\ t[Top] = maxEntry
    /\ \A b \in bs : /\ b.base > 0 /\ b.base + b.len <= Top
                     /\ b.origin \notin cf => t[b.base] = b.origin
    /\ \A a \in Addresses : t[a] # NoAlloc /\ a # Top =>
          \/ \E b \in bs : b.base = a /\ t[a] = b.origin
          \/ t[a] \in cf /\ \A b \in bs : a \in Cells(b) => b.origin \in cf
    /\ \A b, c \in bs : b = c \/ Separate(b, c)

\* The object of an origin describes its only live block.
ObjectInv ==
    \A b \in blocks : b.origin \notin confused =>
        /\ object[b.origin].pointer = b.base
        /\ object[b.origin].length = b.len
        /\ Chain(object[b.origin].affiliatedState) = b.born
        /\ \A c \in blocks : c.origin = b.origin => c = b

Touches(n, b) == b.origin = n[2] /\ <<n[1], b.base, n[3]>> \in fresh

\* What the notes n must be: those that await a free or a commit are the
\* accesses to the blocks bs since the last one, and the sets of the ROIs hold
\* what they must hold; there may be more where an access was executed again.
NoteFor(n, bs) ==
    /\ (\E b \in bs : Touches(n, b)) => n \in info
    /\ n \in info => \E b \in bs : b.origin = n[2] /\ (Touches(n, b) \/ n \in echoed)
    /\ n \in settled => n \in temp
    /\ n \in temp => n \in settled \cup echoed
    /\ n \in owed => n \in final
    /\ n \in final => n \in owed \cup echoed

NotesFor(bs) ==
    /\ \A f \in fresh : \E b \in bs : b.base = f[2]
    /\ \A n \in info : <<n[1], n[2]>> \in keys
    /\ \A n \in Notes : n[2] \notin confused => NoteFor(n, bs)

\* The slots hold addresses that the program has used.
PastInv ==
    \A e \in past :
        /\ e.operation # "STATE_COMMIT" => e.ptr \in 1 .. Top - 1
        /\ e.operation = "ALLOC_ADD" => e.information \in Origins

IInv ==
    /\ TypeOK /\ PastInv
    /\ TableFor(table, blocks, confused) /\ ObjectInv /\ NotesFor(blocks)

-----------------------------------------------------------------------------
\* The parents of no State (the loops of commitStateInfo on a null skipState).
LEMMA ChainOfNone == Chain(NoState) = {}
  BY DEF Chain

\* Every State in a chain is a ROI.
LEMMA ChainType == \A s : Chain(s) \subseteq Regions
  BY DEF Chain

\* Addresses are numbers below AddrSpace.
LEMMA AddressType ==
    /\ Top \in Nat /\ Top \in Addresses
    /\ \A a : a \in Addresses <=> a \in Nat /\ a <= Top
  BY AllocationAssumption DEF Addresses, Top

\* The blocks in their numbers.
LEMMA BlockType ==
    ASSUME TypeOK, NEW b \in blocks
    PROVE  /\ b.base \in Nat /\ b.base \in Addresses /\ b.len \in Nat /\ b.len >= 1
           /\ b.len \in 1 .. MaxLen /\ b.origin \in Origins
           /\ \A p : p \in Cells(b) <=> p \in Int /\ b.base <= p /\ p < b.base + b.len
  BY AddressType, AllocationAssumption DEF TypeOK, Cells

\* An address that has an entry of its own is found there (findAllocation).
LEMMA FindKey ==
    ASSUME NEW p \in Addresses, table[p] # NoAlloc
    PROVE  findAllocation(p) = table[p]
  <1>1. ~(p < p) /\ p \in Keys(table)
    BY AddressType DEF Keys
  <1> QED
    BY <1>1 DEF findAllocation

\* An address inside a block is found with the block before it.
LEMMA FindIn ==
    ASSUME IInv, NEW b \in blocks, NEW p \in Cells(b), b.origin \notin confused
    PROVE  findAllocation(p) = b.origin
  <1>0. /\ p \in Nat /\ b.base <= p /\ p < b.base + b.len
        /\ b.base + b.len <= Top /\ table[b.base] = b.origin /\ b.origin # NoAlloc
    BY BlockType, AllocationAssumption DEF IInv, TableFor
  <1>1. p \in Addresses /\ p # Top
    BY <1>0, AddressType, BlockType DEF IInv
  <1>2. ASSUME NEW a \in Addresses, table[a] # NoAlloc, b.base <= a, a <= p
        PROVE  a = b.base
    <2>1. a # Top
      BY <1>0, <1>2, AddressType, BlockType DEF IInv
    <2>2. a \in Cells(b)
      BY <1>0, <1>2, BlockType, AddressType DEF IInv
    <2>3. PICK c \in blocks : c.base = a
      BY <1>2, <2>1, <2>2 DEF IInv, TableFor
    <2>4. c = b \/ Separate(b, c)
      BY DEF IInv, TableFor
    <2> QED
      BY <1>0, <1>2, <2>3, <2>4, BlockType, AddressType DEF Separate, IInv
  <1>3. CASE p = b.base
    BY <1>0, <1>1, <1>3, FindKey
  <1>4. CASE p # b.base
    <2>1. p \notin Keys(table)
      BY <1>0, <1>1, <1>2, <1>4 DEF Keys
    <2> DEFINE before  == {a \in Keys(table) : a < p}
               aliased == {a \in before : /\ \A c \in before : c <= a
                                          /\ doesItAlias(a, object[table[a]].length, p)}
    <2>2. b.base \in before
      BY <1>0, <1>4, BlockType, AddressType DEF Keys, IInv
    <2>3. \A c \in before : c <= b.base
      BY <1>0, <1>2, BlockType, AddressType DEF Keys, IInv
    <2>4. object[table[b.base]].length = b.len
      BY <1>0 DEF IInv, ObjectInv
    <2>5. b.base \in aliased
      BY <1>0, <2>2, <2>3, <2>4 DEF doesItAlias
    <2>6. \A a \in aliased : a = b.base
      BY <2>2, <2>3, BlockType, AddressType DEF Keys, IInv
    <2>7. Top \in Keys(table) /\ ~(Top < p)
      BY <1>0, AddressType, AllocationAssumption, BlockType DEF IInv, TableFor, Keys
    <2>8. ~(Keys(table) \subseteq before)
      BY <2>7
    <2>9. findAllocation(p) = table[CHOOSE a \in aliased : TRUE]
      BY <2>1, <2>5, <2>8 DEF findAllocation
    <2>10. (CHOOSE a \in aliased : TRUE) = b.base
      BY <2>5, <2>6
    <2> QED
      BY <1>0, <2>9, <2>10
  <1> QED
    BY <1>3, <1>4

\* What is found at an address in use by the program is the allocation of the
\* block around it, unless its origin is confused.
LEMMA FindOut ==
    ASSUME IInv, NEW p \in 1 .. Top - 1, findAllocation(p) # NoAlloc
    PROVE  /\ findAllocation(p) \in Origins
           /\ findAllocation(p) \notin confused =>
                \E b \in blocks : p \in Cells(b) /\ b.origin = findAllocation(p)
  <1>1. p \in Addresses /\ p # Top /\ p \in Nat /\ p < Top
    BY AddressType
  <1>2. CASE table[p] # NoAlloc
    <2>1. findAllocation(p) = table[p]
      BY <1>1, <1>2, FindKey
    <2>2. CASE table[p] \in confused
      BY <2>1, <2>2 DEF IInv, TypeOK
    <2>3. CASE table[p] \notin confused
      <3>1. PICK c \in blocks : c.base = p /\ table[p] = c.origin
        BY <1>1, <1>2, <2>3 DEF IInv, TableFor
      <3> QED
        BY <1>1, <2>1, <3>1, BlockType DEF IInv
    <2> QED
      BY <2>2, <2>3
  <1>3. CASE table[p] = NoAlloc
    <2>1. p \notin Keys(table)
      BY <1>3 DEF Keys
    <2> DEFINE before  == {a \in Keys(table) : a < p}
               aliased == {a \in before : /\ \A c \in before : c <= a
                                          /\ doesItAlias(a, object[table[a]].length, p)}
    <2>2. aliased # {} /\ findAllocation(p) = table[CHOOSE a \in aliased : TRUE]
      BY <2>1 DEF findAllocation
    <2>3. PICK a \in aliased : findAllocation(p) = table[a]
      BY <2>2
    <2>4. a \in Addresses /\ table[a] # NoAlloc /\ a < p /\ a # Top
      BY <1>1, <2>3, AddressType DEF Keys
    <2>5. CASE table[a] \in confused
      BY <2>3, <2>5 DEF IInv, TypeOK
    <2>6. CASE table[a] \notin confused
      <3>1. PICK c \in blocks : c.base = a /\ table[a] = c.origin
        BY <2>4, <2>6 DEF IInv, TableFor
      <3>2. object[table[a]].length = c.len
        BY <2>6, <3>1 DEF IInv, ObjectInv
      <3>3. p >= a /\ p < a + object[table[a]].length
        BY DEF doesItAlias
      <3>4. p \in Cells(c)
        BY <1>1, <2>4, <3>1, <3>2, <3>3, BlockType DEF IInv
      <3> QED
        BY <2>3, <3>1, <3>4, BlockType DEF IInv
    <2> QED
      BY <2>5, <2>6
  <1> QED
    BY <1>2, <1>3

\* An offset in a block is the distance from its start (GetOffset).
LEMMA Offset ==
    ASSUME NEW i \in Nat, NEW j \in Nat, i <= j, j <= Top
    PROVE  GetOffset(i, j) = j - i /\ j - i \in Addresses
  <1>1. j - i \in 0 .. AddrSpace - 1 /\ AddrSpace \in Nat
    BY AllocationAssumption DEF Top
  <1> QED
    BY <1>1 DEF GetOffset, Addresses

\* Whatever the arguments, it fits an address.
LEMMA OffsetType ==
    ASSUME NEW i \in Int, NEW j \in Int
    PROVE  GetOffset(i, j) \in Addresses
  <1>1. i - j \in Int /\ AddrSpace \in Nat \ {0} /\ j - i \in Int
    BY AllocationAssumption
  <1> QED
    BY <1>1 DEF GetOffset, Addresses

-----------------------------------------------------------------------------
\* A block that fits beside the others is separate from each (the allocator's
\* promise).
LEMMA Beside ==
    ASSUME TypeOK, NEW b \in blocks, NEW bs \in SUBSET blocks, b \in bs,
           NEW a \in Addresses, NEW n \in 1 .. MaxLen, Available(a, n, bs)
    PROVE  b.base + b.len <= a \/ a + n <= b.base
  <1>1. Cells(b) \cap (a .. a + n - 1) = {}
    BY DEF Available
  <1>2. a \in Nat /\ n \in Nat /\ n >= 1 /\ b.base \in Nat /\ b.len \in Nat /\ b.len >= 1
    BY BlockType, AddressType, AllocationAssumption
  <1>3. a \notin Cells(b) \/ a \notin a .. a + n - 1
    BY <1>1
  <1>4. b.base \notin Cells(b) \/ b.base \notin a .. a + n - 1
    BY <1>1
  <1> QED
    BY <1>2, <1>3, <1>4 DEF Cells

\* The table after a block is deleted (DeleteAllocation).
LEMMA DeletedTable ==
    ASSUME IInv, NEW b \in blocks, NEW t, t = DeleteAllocation(table, b.base),
           NEW bs, bs = blocks \ {b}
    PROVE  TableFor(t, bs, confused) /\ t \in [Addresses -> Origins \cup {maxEntry, NoAlloc}]
  <1>1. t = [table EXCEPT ![b.base] = NoAlloc]
    BY DEF DeleteAllocation
  <1>2. table \in [Addresses -> Origins \cup {maxEntry, NoAlloc}] /\ b.base \in Addresses
    BY BlockType DEF IInv, TypeOK
  <1>3. t \in [Addresses -> Origins \cup {maxEntry, NoAlloc}]
    BY <1>1, <1>2
  <1>4. b.base # Top
    BY BlockType, AddressType DEF IInv, TableFor
  <1>5. t[Top] = maxEntry
    BY <1>1, <1>2, <1>4, AddressType DEF IInv, TableFor
  <1>6. \A c \in bs : c.base # b.base /\ c.base \in Addresses
    BY BlockType DEF IInv, TableFor, Separate
  <1>7. \A c \in bs : /\ c.base > 0 /\ c.base + c.len <= Top
                      /\ c.origin \notin confused => t[c.base] = c.origin
    BY <1>1, <1>2, <1>6 DEF IInv, TableFor
  <1>8. ASSUME NEW a \in Addresses, t[a] # NoAlloc, a # Top
        PROVE  \/ \E c \in bs : c.base = a /\ t[a] = c.origin
               \/ t[a] \in confused /\ \A c \in bs : a \in Cells(c) => c.origin \in confused
    <2>1. a # b.base /\ t[a] = table[a]
      BY <1>1, <1>2, <1>8
    <2> QED
      BY <1>8, <2>1 DEF IInv, TableFor
  <1>9. \A a \in Addresses : t[a] # NoAlloc /\ a # Top =>
          \/ \E c \in bs : c.base = a /\ t[a] = c.origin
          \/ t[a] \in confused /\ \A c \in bs : a \in Cells(c) => c.origin \in confused
    BY <1>8
  <1>10. \A c, d \in bs : c = d \/ Separate(c, d)
    BY DEF IInv, TableFor
  <1>11. TableFor(t, bs, confused)
    BY ONLY <1>5, <1>7, <1>9, <1>10 DEF TableFor
  <1> QED
    BY <1>3, <1>11

\* The table and the objects after a block is added (processAddAlloc).
LEMMA AddedBlock ==
    ASSUME IInv, NEW bs \in SUBSET blocks,
           NEW t \in [Addresses -> Origins \cup {maxEntry, NoAlloc}], TableFor(t, bs, confused),
           NEW a \in Addresses, NEW n \in 1 .. MaxLen, NEW o \in Origins,
           Available(a, n, bs), processAddAlloc(t, AddEntry(a, n, o)),
           blocks' = bs \cup {Born(a, n, o)},
           confused' = confused \cup Doubtful(o, bs, t, a .. a + n - 1)
    PROVE  /\ TableFor(table, blocks, confused)' /\ ObjectInv'
           /\ table' \in [Addresses -> Origins \cup {maxEntry, NoAlloc}]
           /\ object' \in [Origins \cup {maxEntry} ->
                 [pointer : Addresses, length : 0 .. MaxLen, affiliatedState : RegionOrNone]]
           /\ blocks' \subseteq [base : Addresses, len : 1 .. MaxLen,
                                 origin : Origins, born : SUBSET Regions]
           /\ confused' \subseteq Origins
           /\ confused \subseteq confused'
           /\ \A b \in bs : b.base # a
           /\ \A b \in bs : b.origin = o => o \in confused'
  <1>0. PICK new : new = Born(a, n, o)
    OBVIOUS
  <1>1. /\ new.base = a /\ new.len = n /\ new.origin = o /\ new.born = Chain(activeState)
        /\ new \in [base : Addresses, len : 1 .. MaxLen, origin : Origins, born : SUBSET Regions]
        /\ blocks' = bs \cup {new}
    BY <1>0, ChainType DEF Born
  <1>2. a \in Nat /\ a > 0 /\ n \in Nat /\ n >= 1 /\ a + n <= Top /\ a # Top
    BY AddressType, AllocationAssumption DEF Available
  <1>3. \A b \in bs : b.base + b.len <= a \/ a + n <= b.base
    BY Beside DEF IInv
  <1>4. \A b \in bs : b.base # a /\ b.base \in Addresses /\ b.base \in Nat /\ b.len \in Nat
    BY <1>2, <1>3, BlockType DEF IInv
  <1>5. /\ \A b \in bs : b.origin = o => o \in confused'
        /\ \A c \in a .. a + n - 1 : t[c] # NoAlloc => o \in confused'
        /\ confused \subseteq confused' /\ confused' \subseteq Origins
    BY DEF Doubtful, IInv, TypeOK
  <1>6. table' = IF t[a] # NoAlloc THEN t ELSE [t EXCEPT ![a] = o]
    BY DEF processAddAlloc, InsertAllocation, AddEntry, Slot
  <1>7. table' \in [Addresses -> Origins \cup {maxEntry, NoAlloc}]
    BY <1>6
  <1>8. TableFor(table, blocks, confused)'
    <2>1. table'[Top] = maxEntry
      BY <1>2, <1>6, AddressType DEF TableFor
    <2>2. ASSUME NEW b \in blocks'
          PROVE  /\ b.base > 0 /\ b.base + b.len <= Top
                 /\ b.origin \notin confused' => table'[b.base] = b.origin
      <3>1. CASE b \in bs
        BY <1>4, <1>5, <1>6, <3>1 DEF TableFor
      <3>2. CASE b = new
        <4>1. a \in a .. a + n - 1
          BY <1>2
        <4> QED
          BY <1>1, <1>2, <1>5, <1>6, <3>2, <4>1
      <3> QED
        BY <1>1, <3>1, <3>2
    <2>3. ASSUME NEW c \in Addresses, table'[c] # NoAlloc, c # Top
          PROVE  \/ \E b \in blocks' : b.base = c /\ table'[c] = b.origin
                 \/ /\ table'[c] \in confused'
                    /\ \A b \in blocks' : c \in Cells(b) => b.origin \in confused'
      <3>1. CASE t[c] = NoAlloc
        <4>1. c = a /\ table'[c] = o
          BY <1>6, <2>3, <3>1
        <4> QED
          BY <1>1, <4>1
      <3>2. CASE t[c] # NoAlloc
        <4>1. table'[c] = t[c]
          BY <1>6, <3>2
        <4>2. CASE \E b \in bs : b.base = c /\ t[c] = b.origin
          BY <1>1, <4>1, <4>2
        <4>3. CASE t[c] \in confused /\ \A b \in bs : c \in Cells(b) => b.origin \in confused
          <5>1. c \in Cells(new) => new.origin \in confused'
            BY <1>1, <1>5, <3>2 DEF Cells
          <5> QED
            BY <1>1, <1>5, <4>1, <4>3, <5>1
        <4> QED
          BY <2>3, <3>2, <4>2, <4>3 DEF TableFor
      <3> QED
        BY <3>1, <3>2
    <2>4. \A b, c \in blocks' : b = c \/ Separate(b, c)
      BY <1>1, <1>3 DEF TableFor, Separate
    <2> QED
      BY <2>1, <2>2, <2>3, <2>4 DEF TableFor, Cells
  <1>9. object' = [object EXCEPT ![o] = [pointer |-> a, length |-> n,
                                         affiliatedState |-> activeState]]
    BY DEF processAddAlloc, AddEntry, Slot
  <1>10. /\ object \in [Origins \cup {maxEntry} ->
              [pointer : Addresses, length : 0 .. MaxLen, affiliatedState : RegionOrNone]]
         /\ activeState \in RegionOrNone /\ n \in 0 .. MaxLen
    BY <1>2, AllocationAssumption DEF IInv, TypeOK
  <1>11. object' \in [Origins \cup {maxEntry} ->
              [pointer : Addresses, length : 0 .. MaxLen, affiliatedState : RegionOrNone]]
    BY <1>9, <1>10
  <1>13. ObjectInv'
    <2>1. SUFFICES ASSUME NEW b \in blocks', b.origin \notin confused'
                   PROVE  /\ object'[b.origin].pointer = b.base
                          /\ object'[b.origin].length = b.len
                          /\ Chain(object'[b.origin].affiliatedState) = b.born
                          /\ \A c \in blocks' : c.origin = b.origin => c = b
      BY DEF ObjectInv, Chain
    <2>2. CASE b = new
      <3>1. object'[o] = [pointer |-> a, length |-> n, affiliatedState |-> activeState]
        BY <1>9, <1>10
      <3>2. \A c \in blocks' : c.origin = b.origin => c = b
        BY <1>1, <1>5, <2>1, <2>2
      <3> QED
        BY <1>1, <2>2, <3>1, <3>2
    <2>3. CASE b # new
      <3>1. b \in bs /\ b.origin # o /\ b.origin \notin confused /\ b.origin \in Origins
        BY <1>1, <1>5, <2>1, <2>3, BlockType DEF IInv
      <3>2. object'[b.origin] = object[b.origin]
        BY <1>9, <1>10, <3>1
      <3>3. \A c \in blocks' : c.origin = b.origin => c = b
        BY <1>1, <3>1 DEF IInv, ObjectInv
      <3> QED
        BY <3>1, <3>2, <3>3 DEF IInv, ObjectInv
    <2> QED
      BY <2>2, <2>3
  <1>14. blocks' \subseteq [base : Addresses, len : 1 .. MaxLen,
                            origin : Origins, born : SUBSET Regions]
    BY <1>1 DEF IInv, TypeOK
  <1> QED
    BY <1>4, <1>5, <1>7, <1>8, <1>11, <1>13, <1>14

\* A new block has no accesses yet, and none of an older block passes for one
\* of it.
LEMMA BornNotes ==
    ASSUME NEW bs, NotesFor(bs)', NEW new, blocks' = bs \cup {new},
           \A b \in bs : b.base # new.base
    PROVE  NotesFor(blocks)'
  <1>1. \A f \in fresh' : \E b \in blocks' : b.base = f[2]
    BY DEF NotesFor
  <1>2. ASSUME NEW n \in Notes, n[2] \notin confused' PROVE NoteFor(n, blocks)'
    <2>1. <<n[1], new.base, n[3]>> \notin fresh'
      BY DEF NotesFor
    <2>2. NoteFor(n, bs)'
      BY <1>2 DEF NotesFor
    <2> QED
      BY <2>1, <2>2 DEF NoteFor, Touches
  <1> QED
    BY <1>1, <1>2 DEF NotesFor

\* An address where a block starts is found with that block or with a confused
\* origin.
LEMMA FindBase ==
    ASSUME IInv, NEW b \in blocks
    PROVE  /\ b.base \in 1 .. Top - 1
           /\ findAllocation(b.base) \notin confused \cup {NoAlloc} =>
                 findAllocation(b.base) = b.origin
           /\ b.origin \notin confused => findAllocation(b.base) = b.origin
  <1>1. /\ b.base \in Nat /\ b.base > 0 /\ b.len \in Nat /\ b.len >= 1 /\ b.base + b.len <= Top
        /\ b.base \in Cells(b)
    BY BlockType DEF IInv, TableFor
  <1>2. b.base \in 1 .. Top - 1
    BY <1>1, AddressType
  <1>3. ASSUME findAllocation(b.base) \notin confused \cup {NoAlloc}
        PROVE  findAllocation(b.base) = b.origin
    <2>1. PICK c \in blocks : b.base \in Cells(c) /\ c.origin = findAllocation(b.base)
      BY <1>2, <1>3, FindOut
    <2>2. c = b
      BY <1>1, <2>1, BlockType DEF IInv, TableFor, Separate
    <2> QED
      BY <2>1, <2>2
  <1>4. b.origin \notin confused => findAllocation(b.base) = b.origin
    BY <1>1, FindIn
  <1> QED
    BY <1>2, <1>3, <1>4

\* What a free does to the notes: those of the block move to the ROIs' sets,
\* but for the ROIs that it was both allocated and freed in
\* (processFreeAllocation, commitStateInfo).
LEMMA ReleasedNotes ==
    ASSUME IInv, NEW b \in blocks, processFreeAllocation(FreeEntry(b.base)), Released(b),
           UNCHANGED final, confused \subseteq confused', NEW bs, bs = blocks \ {b}
    PROVE  /\ NotesFor(bs)'
           /\ keys' \subseteq Regions \X Origins /\ regionBased' \subseteq keys'
           /\ info' \subseteq Notes /\ temp' \subseteq Notes
           /\ fresh' \subseteq Regions \X Addresses \X Addresses
           /\ settled' \subseteq Notes
  <1>0. PICK os : os = Found(FreeEntry(b.base))
    OBVIOUS
  <1> DEFINE o == b.origin
             gone == Gone(os, activeState)
  <1>1. /\ os = {findAllocation(b.base)} \ {NoAlloc}
        /\ o # NoAlloc /\ o \in Origins
    BY <1>0, BlockType, AllocationAssumption DEF IInv, Found, FreeEntry, Slot
  <1>2. /\ keys' = keys \ gone
        /\ regionBased' = regionBased \ gone
        /\ info' = {n \in info : n[2] \notin os}
        /\ temp' = temp \cup Moved(os, activeState)
    BY <1>0 DEF processFreeAllocation, commitStateInfo, FreeEntry, Slot
  <1>3. /\ fresh' = {f \in fresh : f[2] # b.base}
        /\ settled' = settled \cup
             {<<f[1], o, f[3]>> : f \in {g \in fresh :
                 g[2] = b.base /\ ~(g[1] \in b.born /\ g[1] \in Chain(activeState))}}
        /\ owed' = owed /\ echoed' = echoed
    BY DEF Released
  <1>4. /\ keys' \subseteq Regions \X Origins /\ regionBased' \subseteq keys'
        /\ info' \subseteq Notes /\ temp' \subseteq Notes
        /\ fresh' \subseteq Regions \X Addresses \X Addresses
    BY <1>2, <1>3 DEF IInv, TypeOK, Moved
  <1>5. settled' \subseteq Notes
    BY <1>1, <1>3 DEF IInv, TypeOK, Notes
  <1>6. \A c \in bs : c.base # b.base
    BY BlockType DEF IInv, TableFor, Separate
  <1>7. \A f \in fresh' : \E c \in bs : c.base = f[2]
    BY <1>3 DEF IInv, NotesFor
  <1>8. \A n \in info' : <<n[1], n[2]>> \in keys'
    BY <1>2 DEF IInv, NotesFor, Gone
  <1>9. ASSUME NEW n \in Notes, n[2] \notin confused' PROVE NoteFor(n, bs)'
    <2>0. n[2] \notin confused /\ n = <<n[1], n[2], n[3]>> /\ NoteFor(n, blocks)
      BY <1>9 DEF IInv, NotesFor, Notes
    <2>1. CASE n[2] = o
      <3>0. os = {o}
        BY <1>1, <2>0, <2>1, FindBase
      <3>1. \A c \in blocks : c.origin = o => c = b
        BY <2>0, <2>1 DEF IInv, ObjectInv
      <3>2. <<n[1], b.base, n[3]>> \in fresh => n \in info
        BY <2>0, <2>1 DEF NoteFor, Touches
      <3>3. n \in info => <<n[1], b.base, n[3]>> \in fresh \/ n \in echoed
        BY <2>0, <2>1, <3>1 DEF NoteFor, Touches
      <3>4. n \notin info'
        BY <1>2, <2>1, <3>0
      <3>5. ~\E c \in bs : Touches(n, c)'
        BY <2>1, <3>1 DEF Touches
      <3>6. Erased(o, activeState) = b.born \cap Chain(activeState)
        BY <2>0, <2>1 DEF Erased, IInv, ObjectInv
      <3>7. n \in info => <<n[1], n[2]>> \in keys
        BY DEF IInv, NotesFor
      <3>8. n \in Moved(os, activeState) <=>
              n \in info /\ ~(n[1] \in b.born /\ n[1] \in Chain(activeState))
        BY <2>1, <3>0, <3>6, <3>7 DEF Moved, Gone
      <3>9. n \in settled' <=> n \in settled \/
              (/\ <<n[1], b.base, n[3]>> \in fresh
               /\ ~(n[1] \in b.born /\ n[1] \in Chain(activeState)))
        <4>1. ASSUME n \in settled', n \notin settled
              PROVE  /\ <<n[1], b.base, n[3]>> \in fresh
                     /\ ~(n[1] \in b.born /\ n[1] \in Chain(activeState))
          <5>1. PICK f \in fresh : /\ f[2] = b.base /\ n = <<f[1], o, f[3]>>
                                   /\ ~(f[1] \in b.born /\ f[1] \in Chain(activeState))
            BY <1>3, <4>1
          <5>2. f = <<n[1], b.base, n[3]>>
            BY <5>1 DEF IInv, TypeOK
          <5> QED
            BY <5>1, <5>2
        <4>2. ASSUME <<n[1], b.base, n[3]>> \in fresh,
                     ~(n[1] \in b.born /\ n[1] \in Chain(activeState))
              PROVE  n \in settled'
          <5>1. n = <<n[1], o, n[3]>>
            BY <2>0, <2>1
          <5> QED
            BY <1>3, <4>2, <5>1
        <4> QED
          BY <1>3, <4>1, <4>2
      <3> QED
        BY <1>2, <1>3, <2>0, <3>2, <3>3, <3>4, <3>5, <3>8, <3>9 DEF NoteFor
    <2>2. CASE n[2] # o
      <3>0. n[2] \notin os
        BY <1>1, <2>0, <2>2, FindBase
      <3>1. n \in info' <=> n \in info
        BY <1>2, <3>0
      <3>2. n \in temp' <=> n \in temp
        BY <1>2, <3>0 DEF Moved
      <3>3. n \in settled' <=> n \in settled
        BY <1>3, <2>0, <2>2
      <3>4. ASSUME NEW c \in blocks, c.origin = n[2]
            PROVE  c \in bs /\ (<<n[1], c.base, n[3]>> \in fresh' <=> <<n[1], c.base, n[3]>> \in fresh)
        <4>1. c \in bs
          BY <2>2, <3>4
        <4> QED
          BY <1>3, <1>6, <4>1
      <3>5. \A c \in bs : c \in blocks
        OBVIOUS
      <3> QED
        BY <1>3, <2>0, <3>1, <3>2, <3>3, <3>4, <3>5 DEF NoteFor, Touches
    <2> QED
      BY <2>1, <2>2
  <1> QED
    BY <1>4, <1>5, <1>7, <1>8, <1>9 DEF NotesFor

\* What is recorded, first or again, are notes for the ROIs of the entry, of an
\* allocation that is found (processAddToState, processStateRegionSet).
LEMMA RecordedTypes ==
    ASSUME IInv, NEW e \in Entry, e.ptr \in 1 .. Top - 1, Record(e)
    PROVE  /\ keys' \subseteq Regions \X Origins /\ regionBased' \subseteq keys'
           /\ NotesOf(e) \subseteq Notes /\ info' = info \cup NotesOf(e)
           /\ \A n \in info' : <<n[1], n[2]>> \in keys'
           /\ Ends(e) \subseteq Nat
  <1>0. e.ptr \in Nat /\ e.ptr \in Addresses /\ Chain(e.state) \subseteq Regions
    BY AddressType, ChainType
  <1>1. Ends(e) \subseteq Nat
    BY AllocationAssumption DEF Ends, Entry
  <1>2. Found(e) \subseteq Origins
    BY FindOut DEF Found
  <1>3. \A o \in Found(e), d \in Ends(e) : GetOffset(object[o].pointer, e.ptr + d) \in Addresses
    <2>1. \A o \in Found(e) : object[o].pointer \in Int
      BY <1>2, AddressType DEF IInv, TypeOK
    <2>2. \A d \in Ends(e) : e.ptr + d \in Int
      BY <1>0, <1>1
    <2> QED
      BY <2>1, <2>2, OffsetType
  <1>4. NotesOf(e) \subseteq Notes
    BY <1>0, <1>2, <1>3 DEF NotesOf, Notes
  <1>5. /\ keys' = keys \cup (Chain(e.state) \X Found(e))
        /\ regionBased' \subseteq regionBased \cup (Chain(e.state) \X Found(e))
        /\ info' = info \cup NotesOf(e)
    BY DEF Record
  <1>6. keys' \subseteq Regions \X Origins /\ regionBased' \subseteq keys'
    BY <1>0, <1>2, <1>5 DEF IInv, TypeOK
  <1>7. ASSUME NEW n \in info' PROVE <<n[1], n[2]>> \in keys'
    <2>1. CASE n \in info
      BY <1>5, <2>1 DEF IInv, NotesFor
    <2>2. CASE n \in NotesOf(e)
      <3>1. PICK s \in Chain(e.state), o \in Found(e), d \in Ends(e) :
               n = <<s, o, GetOffset(object[o].pointer, e.ptr + d)>>
        BY <2>2 DEF NotesOf
      <3>2. n[1] = s /\ n[2] = o
        BY <3>1
      <3> QED
        BY <1>5, <3>2
    <2> QED
      BY <1>5, <2>1, <2>2
  <1> QED
    BY <1>1, <1>4, <1>5, <1>6, <1>7

\* A note of an origin that is not confused is of the block around the address.
LEMMA NoteIsOfBlock ==
    ASSUME IInv, NEW e \in Entry, e.ptr \in 1 .. Top - 1, NEW n \in NotesOf(e),
           n[2] \notin confused
    PROVE  \E b \in blocks, s \in Chain(e.state), d \in Ends(e) :
              /\ e.ptr \in Cells(b) /\ b.origin = n[2]
              /\ n = <<s, b.origin, GetOffset(b.base, e.ptr + d)>>
  <1>1. PICK s \in Chain(e.state), o \in Found(e), d \in Ends(e) :
           n = <<s, o, GetOffset(object[o].pointer, e.ptr + d)>>
    BY DEF NotesOf
  <1>2. n[2] = o /\ o = findAllocation(e.ptr) /\ o # NoAlloc
    BY <1>1 DEF Found
  <1>3. PICK b \in blocks : e.ptr \in Cells(b) /\ b.origin = o
    BY <1>2, FindOut
  <1>4. object[o].pointer = b.base
    BY <1>2, <1>3 DEF IInv, ObjectInv
  <1> QED
    BY <1>1, <1>2, <1>3, <1>4

\* An access by the program leaves a note for exactly the ROIs it was made in,
\* with the offset in its block.
LEMMA RecordedNotes ==
    ASSUME IInv, NEW e \in Entry, e.ptr \in 1 .. Top - 1, e.state = activeState,
           \A b \in blocks, d \in Ends(e) : e.ptr \in Cells(b) => e.ptr + d \in Cells(b),
           Record(e), Performed(e), UNCHANGED <<temp, final>>
    PROVE  /\ NotesFor(blocks)'
           /\ fresh' \subseteq Regions \X Addresses \X Addresses
  <1> DEFINE here == Chain(activeState)
  <1>0. e.ptr \in Nat /\ e.ptr \in Addresses /\ here \subseteq Regions /\ Ends(e) \subseteq Nat
        /\ info' = info \cup NotesOf(e)
    BY AddressType, ChainType, RecordedTypes
  <1>1. /\ fresh' = fresh \cup
             {<<s, b.base, e.ptr + d - b.base>> : s \in here, d \in Ends(e),
                                              b \in {c \in blocks : e.ptr \in Cells(c)}}
        /\ blocks' = blocks /\ settled' = settled /\ owed' = owed
        /\ echoed' = echoed /\ confused' = confused
    BY DEF Performed
  <1>2. ASSUME NEW b \in blocks, e.ptr \in Cells(b), NEW d \in Ends(e)
        PROVE  /\ e.ptr + d - b.base \in Addresses
               /\ GetOffset(b.base, e.ptr + d) = e.ptr + d - b.base
    <2>1. e.ptr + d \in Cells(b)
      BY <1>2
    <2>2. PICK q : q = e.ptr + d
      OBVIOUS
    <2>3. b.base <= q /\ q <= Top /\ q \in Nat /\ b.base \in Nat
      BY <1>0, <2>1, <2>2, BlockType, AddressType DEF IInv, TableFor
    <2>4. q - b.base \in Addresses /\ GetOffset(b.base, q) = q - b.base
      BY <2>3, Offset, AddressType
    <2> QED
      BY <1>0, <2>2, <2>3, <2>4
  <1>3. fresh' \subseteq Regions \X Addresses \X Addresses
    <2>1. ASSUME NEW s \in here, NEW d \in Ends(e),
                 NEW b \in {c \in blocks : e.ptr \in Cells(c)}
          PROVE  <<s, b.base, e.ptr + d - b.base>> \in Regions \X Addresses \X Addresses
      BY <1>0, <1>2, BlockType DEF IInv
    <2>2. fresh \subseteq Regions \X Addresses \X Addresses
      BY DEF IInv, TypeOK
    <2> QED
      BY <1>1, <2>1, <2>2
  <1>4. \A f \in fresh' : \E b \in blocks' : b.base = f[2]
    BY <1>1 DEF IInv, NotesFor
  <1>5. \A n \in info' : <<n[1], n[2]>> \in keys'
    BY RecordedTypes
  <1>6. ASSUME NEW n \in Notes, n[2] \notin confused PROVE NoteFor(n, blocks)'
    <2>1. n = <<n[1], n[2], n[3]>> /\ NoteFor(n, blocks)
      BY <1>6 DEF Notes, IInv, NotesFor
    <2>2. fresh \subseteq fresh'
      BY <1>1
    <2>3. ASSUME n \in NotesOf(e)
          PROVE  \E b \in blocks : b.origin = n[2] /\ <<n[1], b.base, n[3]>> \in fresh'
      <3>1. PICK b \in blocks, s \in here, d \in Ends(e) :
               /\ e.ptr \in Cells(b) /\ b.origin = n[2]
               /\ n = <<s, b.origin, GetOffset(b.base, e.ptr + d)>>
        BY <1>6, <2>3, NoteIsOfBlock
      <3>2. n[1] = s /\ n[3] = e.ptr + d - b.base
        BY <1>2, <3>1
      <3>3. b \in {c \in blocks : e.ptr \in Cells(c)}
        BY <3>1
      <3> QED
        BY <1>1, <3>1, <3>2, <3>3
    <2>4. ASSUME NEW b \in blocks, b.origin = n[2], <<n[1], b.base, n[3]>> \in fresh'
          PROVE  n \in info'
      <3>1. CASE <<n[1], b.base, n[3]>> \in fresh
        BY <1>0, <2>1, <2>4, <3>1 DEF NoteFor, Touches
      <3>2. CASE <<n[1], b.base, n[3]>> \notin fresh
        <4>1. PICK s \in here, d \in Ends(e), c \in blocks :
                 e.ptr \in Cells(c) /\ <<n[1], b.base, n[3]>> = <<s, c.base, e.ptr + d - c.base>>
          BY <1>1, <2>4, <3>2
        <4>2. c = b
          BY <4>1, BlockType DEF IInv, TableFor, Separate
        <4>3. findAllocation(e.ptr) = b.origin
          BY <1>6, <2>4, <4>1, <4>2, FindIn
        <4>4. b.origin \in Found(e)
          BY <4>3, BlockType, AllocationAssumption DEF IInv, Found
        <4>5. object[b.origin].pointer = b.base
          BY <1>6, <2>4 DEF IInv, ObjectInv
        <4>6. n = <<s, b.origin, GetOffset(object[b.origin].pointer, e.ptr + d)>>
          BY <1>2, <2>1, <2>4, <4>1, <4>2, <4>5
        <4>7. n \in NotesOf(e)
          BY <4>1, <4>4, <4>6 DEF NotesOf
        <4> QED
          BY <1>0, <4>7
      <3> QED
        BY <3>1, <3>2
    <2>5. n \in info' => \E b \in blocks : b.origin = n[2]
                            /\ (<<n[1], b.base, n[3]>> \in fresh' \/ n \in echoed)
      BY <1>0, <2>1, <2>2, <2>3 DEF NoteFor, Touches
    <2> QED
      BY <1>1, <2>1, <2>4, <2>5 DEF NoteFor, Touches
  <1> QED
    BY <1>1, <1>3, <1>4, <1>5, <1>6 DEF NotesFor

\* A commit moves the notes of all allocations in the table, which are all
\* that matter, and empties the sets of the ROIs it is for (CommitState).
LEMMA CommittedNotes ==
    ASSUME IInv, NEW States, CommitStates(States)
    PROVE  /\ NotesFor(blocks)'
           /\ keys' \subseteq Regions \X Origins /\ regionBased' \subseteq keys'
           /\ info' \subseteq Notes /\ temp' \subseteq Notes /\ final' \subseteq Notes
           /\ fresh' = {}
           /\ settled' \subseteq Notes /\ owed' \subseteq Notes
  <1>1. Gone(Listed, NoState) = {}
    BY ChainOfNone DEF Gone, Erased
  <1> DEFINE all == temp \cup Moved(Listed, NoState)
  <1>2. /\ keys' = keys /\ regionBased' = regionBased
        /\ info' = {n \in info : n[2] \notin Listed}
        /\ final' = final \cup {n \in all : n[1] \in States}
        /\ temp' = {n \in all : n[1] \notin States}
        /\ fresh' = {}
        /\ owed' = owed \cup {n \in AllSettled : n[1] \in States}
        /\ settled' = {n \in AllSettled : n[1] \notin States}
        /\ blocks' = blocks /\ echoed' = echoed /\ confused' = confused
    BY <1>1 DEF CommitStates, commitStateInfo
  <1>3. Moved(Listed, NoState) = {n \in info : n[2] \in Listed}
    BY <1>1 DEF Moved
  <1>4. all \subseteq Notes
    BY <1>3 DEF IInv, TypeOK
  <1>5. \A f \in fresh : OfBlock(f) \in blocks /\ OfBlock(f).base = f[2]
    BY DEF OfBlock, IInv, NotesFor
  <1>6. \A b, c \in blocks : b.base = c.base => b = c
    BY BlockType DEF IInv, TableFor, Separate
  <1>7. AllSettled \subseteq Notes
    <2>1. \A f \in fresh : <<f[1], OfBlock(f).origin, f[3]>> \in Notes
      BY <1>5, BlockType DEF IInv, TypeOK, Notes
    <2> QED
      BY <2>1 DEF AllSettled, IInv, TypeOK
  <1>8. \A b \in blocks : b.origin \notin confused => b.origin \in Listed
    BY BlockType, AllocationAssumption DEF Listed, Keys, IInv, TableFor
  <1>9. ASSUME NEW n \in Notes, n[2] \notin confused
        PROVE  /\ n \in AllSettled => n \in all
               /\ n \in all => n \in AllSettled \cup echoed
               /\ n \notin info'
    <2>1. n = <<n[1], n[2], n[3]>> /\ NoteFor(n, blocks)
      BY <1>9 DEF Notes, IInv, NotesFor
    <2>2. n \in info => n[2] \in Listed
      BY <1>8, <1>9, <2>1 DEF NoteFor
    <2>3. ASSUME NEW b \in blocks, Touches(n, b)
          PROVE  n \in AllSettled
      <3> DEFINE f == <<n[1], b.base, n[3]>>
      <3>1. f \in fresh /\ b.origin = n[2]
        BY <2>3 DEF Touches
      <3>2. OfBlock(f) = b
        BY <1>5, <1>6, <3>1
      <3>3. n = <<f[1], OfBlock(f).origin, f[3]>>
        BY <2>1, <3>1, <3>2
      <3> QED
        BY <3>1, <3>3 DEF AllSettled
    <2>4. ASSUME n \in AllSettled, n \notin settled
          PROVE  \E b \in blocks : Touches(n, b)
      <3>1. PICK f \in fresh : n = <<f[1], OfBlock(f).origin, f[3]>>
        BY <2>4 DEF AllSettled
      <3>2. f = <<n[1], OfBlock(f).base, n[3]>>
        BY <1>5, <3>1 DEF IInv, TypeOK
      <3> QED
        BY <1>5, <3>1, <3>2 DEF Touches
    <2>5. n \in settled => n \in AllSettled
      BY DEF AllSettled
    <2>6. n \in info => n \in AllSettled \cup echoed
      BY <2>1, <2>3 DEF NoteFor
    <2>7. n \in AllSettled => n \in temp \/ n \in info
      BY <2>1, <2>4 DEF NoteFor
    <2>8. n \in temp => n \in AllSettled \cup echoed
      BY <2>1, <2>5 DEF NoteFor
    <2> QED
      BY <1>2, <1>3, <2>2, <2>6, <2>7, <2>8
  <1>10. ASSUME NEW n \in Notes, n[2] \notin confused PROVE NoteFor(n, blocks)'
    <2>1. NoteFor(n, blocks)
      BY <1>10 DEF IInv, NotesFor
    <2> QED
      BY <1>2, <1>9, <1>10, <2>1 DEF NoteFor, Touches
  <1>11. NotesFor(blocks)'
    BY <1>2, <1>10 DEF NotesFor, IInv
  <1> QED
    BY <1>2, <1>4, <1>7, <1>11 DEF IInv, TypeOK

-----------------------------------------------------------------------------
\* After texas_init the table holds the sentinel and nothing is noted.
LEMMA InitIInv == Init => IInv
  <1> SUFFICES ASSUME Init PROVE IInv
    OBVIOUS
  <1>1. TypeOK
    <2>1. table \in [Addresses -> Origins \cup {maxEntry, NoAlloc}]
      BY DEF Init
    <2>2. object \in [Origins \cup {maxEntry} ->
             [pointer : Addresses, length : 0 .. MaxLen, affiliatedState : RegionOrNone]]
      BY AddressType, AllocationAssumption DEF Init, RegionOrNone
    <2>3. ops \in 0 .. MaxOps /\ activeState \in RegionOrNone
      BY AllocationAssumption DEF Init, RegionOrNone
    <2> QED
      BY <2>1, <2>2, <2>3 DEF Init, TypeOK
  <1>2. TableFor(table, blocks, confused)
    BY AddressType DEF Init, TableFor
  <1>3. ObjectInv /\ NotesFor(blocks) /\ PastInv
    BY DEF Init, ObjectInv, NotesFor, NoteFor, PastInv
  <1> QED
    BY <1>1, <1>2, <1>3 DEF IInv

\* The invariant for objects and table, where neither changes.
LEMMA SameAllocations ==
    ASSUME IInv, UNCHANGED <<allocVars, blocks, confused>>
    PROVE  TableFor(table, blocks, confused)' /\ ObjectInv'
  <1>1. table' = table /\ object' = object /\ blocks' = blocks /\ confused' = confused
    BY DEF allocVars
  <1>2. TableFor(table, blocks, confused)'
    BY <1>1 DEF IInv, TableFor, Separate, Cells
  <1>3. ObjectInv'
    BY <1>1 DEF IInv, ObjectInv, Chain
  <1> QED
    BY <1>2, <1>3

\* The notes of the origins that stay clear, where none changes.
LEMMA SameNotes ==
    ASSUME IInv, UNCHANGED <<noteVars, temp, final, blocks, fresh, settled, owed, echoed>>,
           confused \subseteq confused'
    PROVE  NotesFor(blocks)'
  <1>1. /\ keys' = keys /\ info' = info /\ temp' = temp /\ final' = final /\ blocks' = blocks
        /\ fresh' = fresh /\ settled' = settled /\ owed' = owed /\ echoed' = echoed
    BY DEF noteVars
  <1>2. ASSUME NEW n \in Notes, n[2] \notin confused' PROVE NoteFor(n, blocks)'
    <2>1. NoteFor(n, blocks)
      BY <1>2 DEF IInv, NotesFor
    <2> QED
      BY <1>1, <2>1 DEF NoteFor, Touches
  <1> QED
    BY <1>1, <1>2 DEF IInv, NotesFor

\* Entries that are about addresses in use may be left in the slots.
LEMMA PastGrows ==
    ASSUME IInv, NEW es \in SUBSET Entry, past' \subseteq past \cup es,
           \A e \in es : /\ e.operation # "STATE_COMMIT" => e.ptr \in 1 .. Top - 1
                         /\ e.operation = "ALLOC_ADD" => e.information \in Origins
    PROVE  PastInv' /\ past' \subseteq Entry
  BY DEF IInv, TypeOK, PastInv

\* What Leave leaves.
LEMMA LeaveType == ASSUME NEW es, Leave(es) PROVE past' \subseteq past \cup es
  BY DEF Leave

\* The entries that a free and an allocation ship.
LEMMA EntryTypes ==
    ASSUME IInv
    PROVE  /\ \A a \in Addresses : /\ FreeEntry(a) \in Entry /\ FreeEntry(a).ptr = a
                                   /\ FreeEntry(a).operation = "ALLOC_FREE"
           /\ \A a \in Addresses, n \in 1 .. MaxLen, o \in Origins :
                 /\ AddEntry(a, n, o) \in Entry /\ AddEntry(a, n, o).ptr = a
                 /\ AddEntry(a, n, o).operation = "ALLOC_ADD"
                 /\ AddEntry(a, n, o).information = o
  <1>1. activeState \in RegionOrNone /\ 0 \in 0 .. MaxLen
    BY AllocationAssumption DEF IInv, TypeOK
  <1>2. \A n \in 1 .. MaxLen : n \in 0 .. MaxLen
    BY AllocationAssumption
  <1> QED
    BY <1>1, <1>2 DEF FreeEntry, AddEntry, Slot, Entry

\* An entry that is recorded leaves itself, or itself with another State.
LEMMA ClimbedType ==
    ASSUME NEW e \in Entry
    PROVE  Climbed(e) \subseteq Entry
           /\ \A x \in Climbed(e) : x.ptr = e.ptr /\ x.operation = e.operation
  <1>1. ASSUME NEW s \in Regions
        PROVE  /\ [e EXCEPT !.state = s] \in Entry
               /\ [e EXCEPT !.state = s].ptr = e.ptr
               /\ [e EXCEPT !.state = s].operation = e.operation
    BY DEF Entry, RegionOrNone
  <1>2. \A x \in Climbed(e) : x = e \/ \E s \in Regions : x = [e EXCEPT !.state = s]
    BY ChainType DEF Climbed
  <1>3. ASSUME NEW x \in Climbed(e)
        PROVE  x \in Entry /\ x.ptr = e.ptr /\ x.operation = e.operation
    <2>1. CASE x = e
      BY <2>1
    <2>2. CASE \E s \in Regions : x = [e EXCEPT !.state = s]
      BY <1>1, <2>2
    <2> QED
      BY <1>2, <2>1, <2>2
  <1> QED
    BY <1>3

\* A step that counts as an operation of the program keeps the count bounded.
LEMMA OperationType == TypeOK /\ Operation => ops' \in 0 .. MaxOps
  BY AllocationAssumption DEF TypeOK, Operation

\* Entering and leaving a ROI, and the steps that only move the report on.
LEMMA RegionIInv ==
    ASSUME IInv, ops' \in 0 .. MaxOps, activeState' \in RegionOrNone, stateMap' \subseteq Regions,
           phase' \in {"run", "cut", "last", "drained", "reported"},
           UNCHANGED <<allocVars, noteVars, temp, final, past, history>>
    PROVE  IInv'
  <1>1. TypeOK'
    BY DEF IInv, TypeOK, allocVars, noteVars, history
  <1>2. TableFor(table, blocks, confused)' /\ ObjectInv'
    BY SameAllocations DEF history
  <1>3. NotesFor(blocks)'
    BY SameNotes DEF history
  <1>4. PastInv'
    BY DEF IInv, PastInv
  <1> QED
    BY <1>1, <1>2, <1>3, <1>4 DEF IInv

\* malloc and calloc.
LEMMA AllocIInv ==
    ASSUME IInv, NEW a \in Addresses, NEW n \in 1 .. MaxLen, NEW o \in Origins, Alloc(a, n, o)
    PROVE  IInv'
  <1>1. PICK bs : bs = blocks
    OBVIOUS
  <1>2. PICK t : t = table
    OBVIOUS
  <1>3. PICK new : new = Born(a, n, o)
    OBVIOUS
  <1>4. /\ TableFor(table, blocks, confused)' /\ ObjectInv'
        /\ table' \in [Addresses -> Origins \cup {maxEntry, NoAlloc}]
        /\ object' \in [Origins \cup {maxEntry} ->
              [pointer : Addresses, length : 0 .. MaxLen, affiliatedState : RegionOrNone]]
        /\ blocks' \subseteq [base : Addresses, len : 1 .. MaxLen,
                              origin : Origins, born : SUBSET Regions]
        /\ confused' \subseteq Origins
        /\ confused \subseteq confused'
        /\ \A b \in bs : b.base # a
    <2>1. t \in [Addresses -> Origins \cup {maxEntry, NoAlloc}] /\ TableFor(t, bs, confused)
      BY <1>1, <1>2 DEF IInv, TypeOK
    <2>2. /\ Available(a, n, bs) /\ processAddAlloc(t, AddEntry(a, n, o))
          /\ blocks' = bs \cup {Born(a, n, o)}
          /\ confused' = confused \cup Doubtful(o, bs, t, a .. a + n - 1)
      BY <1>1, <1>2 DEF Alloc
    <2> QED
      BY <1>1, <2>1, <2>2, AddedBlock
  <1>5. PastInv' /\ past' \subseteq Entry
    <2>1. a \in 1 .. Top - 1
      BY AddressType, AllocationAssumption DEF Alloc, Available
    <2>2. PICK es : es = {AddEntry(a, n, o)}
      OBVIOUS
    <2>3. past' \subseteq past \cup es
      BY <2>2, LeaveType DEF Alloc
    <2>4. es \in SUBSET Entry
      BY <2>1, <2>2, EntryTypes
    <2>5. \A e \in es : /\ e.operation # "STATE_COMMIT" => e.ptr \in 1 .. Top - 1
                        /\ e.operation = "ALLOC_ADD" => e.information \in Origins
      BY <2>1, <2>2, EntryTypes
    <2> QED
      BY <2>3, <2>4, <2>5, PastGrows
  <1>6. TypeOK'
    BY <1>4, <1>5, OperationType DEF Alloc, IInv, TypeOK, regionVars, noteVars
  <1>7. NotesFor(bs)'
    <2>1. /\ keys' = keys /\ info' = info /\ temp' = temp /\ final' = final
          /\ fresh' = fresh /\ settled' = settled /\ owed' = owed /\ echoed' = echoed
      BY DEF Alloc, noteVars
    <2>2. ASSUME NEW m \in Notes, m[2] \notin confused' PROVE NoteFor(m, bs)'
      <3>1. NoteFor(m, bs)
        BY <1>1, <1>4, <2>2 DEF IInv, NotesFor
      <3> QED
        BY <2>1, <3>1 DEF NoteFor, Touches
    <2> QED
      BY <1>1, <2>1, <2>2 DEF IInv, NotesFor
  <1>8. new.base = a /\ new.origin = o /\ blocks' = bs \cup {new}
    BY <1>1, <1>3 DEF Born, Alloc
  <1>9. NotesFor(blocks)'
    BY <1>4, <1>7, <1>8, BornNotes
  <1> QED
    BY <1>4, <1>5, <1>6, <1>9 DEF IInv

\* free.
LEMMA FreeIInv == ASSUME IInv, NEW b \in blocks, Free(b) PROVE IInv'
  <1>1. PICK bs : bs = blocks \ {b}
    OBVIOUS
  <1>2. PICK t : t = DeleteAllocation(table, b.base)
    OBVIOUS
  <1>3. TableFor(t, bs, confused) /\ t \in [Addresses -> Origins \cup {maxEntry, NoAlloc}]
    BY <1>1, <1>2, DeletedTable
  <1>4. table' = t /\ blocks' = bs /\ object' = object /\ confused' = confused
    BY <1>1, <1>2 DEF Free
  <1>5. /\ NotesFor(bs)'
        /\ keys' \subseteq Regions \X Origins /\ regionBased' \subseteq keys'
        /\ info' \subseteq Notes /\ temp' \subseteq Notes
        /\ fresh' \subseteq Regions \X Addresses \X Addresses
        /\ settled' \subseteq Notes
    BY <1>1, <1>4, ReleasedNotes DEF Free
  <1>6. PastInv' /\ past' \subseteq Entry
    <2>1. b.base \in 1 .. Top - 1 /\ b.base \in Addresses
      BY FindBase, BlockType DEF IInv
    <2>2. PICK es : es = {FreeEntry(b.base)}
      OBVIOUS
    <2>3. past' \subseteq past \cup es
      BY <2>2, LeaveType DEF Free
    <2>4. \A e \in es : /\ e \in Entry /\ e.ptr \in 1 .. Top - 1
                        /\ e.operation # "ALLOC_ADD"
      BY <2>1, <2>2, EntryTypes
    <2> QED
      BY <2>3, <2>4, PastGrows
  <1>7. TypeOK'
    BY <1>1, <1>3, <1>4, <1>5, <1>6, OperationType DEF Free, Released, IInv, TypeOK, regionVars
  <1>8. TableFor(table, blocks, confused)'
    BY <1>3, <1>4 DEF TableFor, Separate, Cells
  <1>9. ObjectInv'
    BY <1>1, <1>4 DEF IInv, ObjectInv, Chain
  <1>10. NotesFor(blocks)'
    BY <1>4, <1>5 DEF NotesFor, NoteFor
  <1> QED
    BY <1>6, <1>7, <1>8, <1>9, <1>10 DEF IInv

\* realloc, a free and an allocation.
LEMMA ReallocIInv ==
    ASSUME IInv, NEW b \in blocks, NEW a \in Addresses, NEW n \in 1 .. MaxLen,
           NEW o \in Origins, Realloc(b, a, n, o)
    PROVE  IInv'
  <1>1. PICK bs : bs = blocks \ {b}
    OBVIOUS
  <1>2. PICK t : t = DeleteAllocation(table, b.base)
    OBVIOUS
  <1>3. PICK new : new = Born(a, n, o)
    OBVIOUS
  <1>4. TableFor(t, bs, confused) /\ t \in [Addresses -> Origins \cup {maxEntry, NoAlloc}]
    BY <1>1, <1>2, DeletedTable
  <1>5. /\ TableFor(table, blocks, confused)' /\ ObjectInv'
        /\ table' \in [Addresses -> Origins \cup {maxEntry, NoAlloc}]
        /\ object' \in [Origins \cup {maxEntry} ->
              [pointer : Addresses, length : 0 .. MaxLen, affiliatedState : RegionOrNone]]
        /\ blocks' \subseteq [base : Addresses, len : 1 .. MaxLen,
                              origin : Origins, born : SUBSET Regions]
        /\ confused' \subseteq Origins
        /\ confused \subseteq confused'
        /\ \A c \in bs : c.base # a
    <2>1. /\ Available(a, n, bs) /\ processAddAlloc(t, AddEntry(a, n, o))
          /\ blocks' = bs \cup {Born(a, n, o)}
          /\ confused' = confused \cup Doubtful(o, bs, t, a .. a + n - 1)
      BY <1>1, <1>2 DEF Realloc
    <2> QED
      BY <1>1, <1>4, <2>1, AddedBlock
  <1>6. /\ NotesFor(bs)'
        /\ keys' \subseteq Regions \X Origins /\ regionBased' \subseteq keys'
        /\ info' \subseteq Notes /\ temp' \subseteq Notes
        /\ fresh' \subseteq Regions \X Addresses \X Addresses
        /\ settled' \subseteq Notes
    BY <1>1, <1>5, ReleasedNotes DEF Realloc
  <1>7. PastInv' /\ past' \subseteq Entry
    <2>1. b.base \in 1 .. Top - 1 /\ b.base \in Addresses /\ a \in 1 .. Top - 1
      BY FindBase, BlockType, AddressType, AllocationAssumption DEF IInv, Realloc, Available
    <2>2. PICK es : es = {FreeEntry(b.base), AddEntry(a, n, o)}
      OBVIOUS
    <2>3. past' \subseteq past \cup es
      BY <2>2, LeaveType DEF Realloc
    <2>4. es \in SUBSET Entry
      BY <2>1, <2>2, EntryTypes
    <2>5. \A e \in es : /\ e.operation # "STATE_COMMIT" => e.ptr \in 1 .. Top - 1
                        /\ e.operation = "ALLOC_ADD" => e.information \in Origins
      BY <2>1, <2>2, EntryTypes
    <2> QED
      BY <2>3, <2>4, <2>5, PastGrows
  <1>8. TypeOK'
    BY <1>5, <1>6, <1>7, OperationType DEF Realloc, Released, IInv, TypeOK, regionVars
  <1>9. new.base = a /\ new.origin = o /\ blocks' = bs \cup {new}
    BY <1>1, <1>3 DEF Born, Realloc
  <1>10. NotesFor(blocks)'
    BY <1>5, <1>6, <1>9, BornNotes
  <1> QED
    BY <1>5, <1>7, <1>8, <1>10 DEF IInv

\* Loads, stores and direct state.
LEMMA ShippedIInv ==
    ASSUME IInv, NEW e \in Entry, e.ptr \in 1 .. Top - 1, e.state = activeState,
           e.operation \in {"STATE_ADD", "STATE_REGION_SET"},
           \A b \in blocks, d \in Ends(e) : e.ptr \in Cells(b) => e.ptr + d \in Cells(b),
           Operation, Shipped(e)
    PROVE  IInv'
  <1>1. /\ Record(e) /\ Leave(Climbed(e)) /\ Performed(e)
        /\ UNCHANGED <<regionVars, allocVars, temp, final, phase>>
    BY DEF Shipped
  <1>2. NotesFor(blocks)' /\ fresh' \subseteq Regions \X Addresses \X Addresses
    BY <1>1, RecordedNotes
  <1>3. keys' \subseteq Regions \X Origins /\ regionBased' \subseteq keys' /\ info' \subseteq Notes
    BY <1>1, RecordedTypes DEF IInv, TypeOK
  <1>4. PastInv' /\ past' \subseteq Entry
    <2>1. past' \subseteq past \cup Climbed(e)
      BY <1>1, LeaveType
    <2>2. /\ Climbed(e) \in SUBSET Entry
          /\ \A x \in Climbed(e) : /\ x.ptr \in 1 .. Top - 1
                                   /\ x.operation # "ALLOC_ADD"
      BY ClimbedType
    <2> QED
      BY <2>1, <2>2, PastGrows
  <1>5. TypeOK'
    BY <1>1, <1>2, <1>3, <1>4, OperationType DEF Performed, IInv, TypeOK, regionVars, allocVars
  <1>6. TableFor(table, blocks, confused)' /\ ObjectInv'
    BY <1>1, SameAllocations DEF Performed
  <1> QED
    BY <1>2, <1>4, <1>5, <1>6 DEF IInv

\* Commits.
LEMMA CommitIInv ==
    ASSUME IInv, NEW States, CommitStates(States), ops' \in 0 .. MaxOps,
           phase' \in {"run", "cut", "last", "drained", "reported"},
           PastInv', past' \subseteq Entry
    PROVE  IInv'
  <1>1. /\ NotesFor(blocks)'
        /\ keys' \subseteq Regions \X Origins /\ regionBased' \subseteq keys'
        /\ info' \subseteq Notes /\ temp' \subseteq Notes /\ final' \subseteq Notes
        /\ fresh' = {}
        /\ settled' \subseteq Notes /\ owed' \subseteq Notes
    BY CommittedNotes
  <1>2. TypeOK'
    BY <1>1 DEF CommitStates, IInv, TypeOK, regionVars, allocVars
  <1>3. TableFor(table, blocks, confused)' /\ ObjectInv'
    BY SameAllocations DEF CommitStates
  <1> QED
    BY <1>1, <1>2, <1>3 DEF IInv

-----------------------------------------------------------------------------
(***************************************************************************)
(* The slot behind a batch.                                                *)
(***************************************************************************)
\* An ALLOC_ADD executed again: its entry lies in no block of a clear origin.
LEMMA AgainAddIInv ==
    ASSUME IInv, NEW e \in past, AgainAdd(e), ops' = ops,
           phase' \in {"run", "cut", "last", "drained", "reported"}
    PROVE  IInv'
  <1>1. e \in Entry /\ e.ptr \in 1 .. Top - 1 /\ e.information \in Origins
    BY DEF IInv, TypeOK, PastInv, AgainAdd
  <1>2. PICK a : a = e.ptr
    OBVIOUS
  <1>3. PICK o : o = e.information
    OBVIOUS
  <1>4. a \in Addresses /\ a \in Nat /\ a < Top /\ o \in Origins
        /\ e.size \in 0 .. MaxLen /\ e.state \in RegionOrNone
    BY <1>1, <1>2, <1>3, AddressType DEF Entry
  <1>5. /\ object' = [object EXCEPT ![o] = [pointer |-> a, length |-> e.size,
                                            affiliatedState |-> e.state]]
        /\ table' = IF table[a] # NoAlloc THEN table ELSE [table EXCEPT ![a] = o]
        /\ blocks' = blocks
    BY <1>2, <1>3 DEF AgainAdd, processAddAlloc, InsertAllocation
  <1>6. /\ confused \subseteq confused' /\ o \in confused' /\ confused' \subseteq Origins
        /\ \A b \in blocks : a \in Cells(b) /\ a # b.base => b.origin \in confused'
    BY <1>2, <1>3, <1>4, BlockType DEF AgainAdd, IInv, TypeOK
  <1>7. /\ table \in [Addresses -> Origins \cup {maxEntry, NoAlloc}]
        /\ object \in [Origins \cup {maxEntry} ->
              [pointer : Addresses, length : 0 .. MaxLen, affiliatedState : RegionOrNone]]
    BY DEF IInv, TypeOK
  <1>8. /\ table' \in [Addresses -> Origins \cup {maxEntry, NoAlloc}]
        /\ object' \in [Origins \cup {maxEntry} ->
              [pointer : Addresses, length : 0 .. MaxLen, affiliatedState : RegionOrNone]]
    BY <1>4, <1>5, <1>7
  <1>9. TableFor(table, blocks, confused)'
    <2>1. table'[Top] = maxEntry
      BY <1>4, <1>5, <1>7, AddressType DEF IInv, TableFor
    <2>2. ASSUME NEW b \in blocks, b.origin \notin confused'
          PROVE  table'[b.base] = b.origin
      <3>1. table[b.base] = b.origin /\ b.origin # NoAlloc /\ b.base \in Addresses
        BY <1>6, <2>2, BlockType, AllocationAssumption DEF IInv, TableFor
      <3> QED
        BY <1>4, <1>5, <1>7, <3>1
    <2>3. ASSUME NEW c \in Addresses, table'[c] # NoAlloc, c # Top
          PROVE  \/ \E b \in blocks : b.base = c /\ table'[c] = b.origin
                 \/ /\ table'[c] \in confused'
                    /\ \A b \in blocks : c \in Cells(b) => b.origin \in confused'
      <3>1. CASE table[c] # NoAlloc
        <4>1. table'[c] = table[c]
          BY <1>5, <3>1
        <4> QED
          BY <1>6, <2>3, <3>1, <4>1 DEF IInv, TableFor
      <3>2. CASE table[c] = NoAlloc
        <4>1. c = a /\ table'[c] = o
          BY <1>5, <2>3, <3>2
        <4>2. ASSUME NEW b \in blocks, c \in Cells(b) PROVE b.origin \in confused'
          <5>1. CASE c = b.base
            BY <1>6, <3>2, <5>1, BlockType, AllocationAssumption DEF IInv, TableFor
          <5>2. CASE c # b.base
            BY <1>6, <4>1, <4>2, <5>2
          <5> QED
            BY <5>1, <5>2
        <4> QED
          BY <1>6, <4>1, <4>2
      <3> QED
        BY <3>1, <3>2
    <2>4. \A b \in blocks : b.base > 0 /\ b.base + b.len <= Top
      BY DEF IInv, TableFor
    <2>5. \A b, c \in blocks : b = c \/ Separate(b, c)
      BY DEF IInv, TableFor
    <2> QED
      BY <1>5, <2>1, <2>2, <2>3, <2>4, <2>5 DEF TableFor, Cells, Separate
  <1>10. ObjectInv'
    <2> SUFFICES ASSUME NEW b \in blocks, b.origin \notin confused'
                 PROVE  /\ object'[b.origin] = object[b.origin]
                        /\ b.origin \notin confused
      BY <1>5 DEF IInv, ObjectInv, Chain
    <2>1. b.origin # o /\ b.origin \in Origins
      BY <1>6, BlockType DEF IInv
    <2> QED
      BY <1>5, <1>6, <1>7, <2>1
  <1>11. NotesFor(blocks)'
    BY <1>6, SameNotes DEF AgainAdd
  <1>12. PastInv'
    BY DEF IInv, PastInv, AgainAdd
  <1>13. TypeOK'
    BY <1>6, <1>8 DEF AgainAdd, IInv, TypeOK, regionVars, noteVars
  <1> QED
    BY <1>9, <1>10, <1>11, <1>12, <1>13 DEF IInv

\* An ALLOC_FREE executed again: it takes away, or settles the notes of, an
\* allocation whose origin it confuses.
LEMMA AgainFreeIInv ==
    ASSUME IInv, NEW e \in past, AgainFree(e), ops' = ops,
           phase' \in {"run", "cut", "last", "drained", "reported"}
    PROVE  IInv'
  <1>1. e \in Entry /\ e.ptr \in 1 .. Top - 1
    BY DEF IInv, TypeOK, PastInv, AgainFree
  <1>2. PICK a : a = e.ptr
    OBVIOUS
  <1>3. PICK os : os = Found(e)
    OBVIOUS
  <1>4. a \in Addresses /\ a \in Nat /\ a < Top
    BY <1>1, <1>2, AddressType
  <1>5. os \subseteq Origins /\ (table[a] # NoAlloc => table[a] \in os)
    BY <1>1, <1>2, <1>3, <1>4, FindOut, FindKey DEF Found
  <1>6. /\ table' = [table EXCEPT ![a] = NoAlloc]
        /\ object' = object /\ blocks' = blocks /\ final' = final /\ past' = past
        /\ fresh' = fresh /\ settled' = settled /\ owed' = owed /\ echoed' = echoed
        /\ confused' = confused \cup os
    BY <1>2, <1>3 DEF AgainFree, DeleteAllocation
  <1>7. /\ keys' = keys \ Gone(os, e.state) /\ regionBased' = regionBased \ Gone(os, e.state)
        /\ info' = {n \in info : n[2] \notin os}
        /\ temp' = temp \cup Moved(os, e.state)
    BY <1>3 DEF AgainFree, processFreeAllocation, commitStateInfo
  <1>8. table \in [Addresses -> Origins \cup {maxEntry, NoAlloc}]
    BY DEF IInv, TypeOK
  <1>9. TableFor(table, blocks, confused)'
    <2>1. table'[Top] = maxEntry
      BY <1>4, <1>6, <1>8, AddressType DEF IInv, TableFor
    <2>2. ASSUME NEW b \in blocks, b.origin \notin confused'
          PROVE  table'[b.base] = b.origin
      <3>1. /\ table[b.base] = b.origin /\ b.origin # NoAlloc /\ b.base \in Addresses
            /\ b.origin \notin os
        BY <1>6, <2>2, BlockType, AllocationAssumption DEF IInv, TableFor
      <3>2. b.base # a
        BY <1>5, <3>1
      <3> QED
        BY <1>6, <1>8, <3>1, <3>2
    <2>3. ASSUME NEW c \in Addresses, table'[c] # NoAlloc, c # Top
          PROVE  \/ \E b \in blocks : b.base = c /\ table'[c] = b.origin
                 \/ /\ table'[c] \in confused'
                    /\ \A b \in blocks : c \in Cells(b) => b.origin \in confused'
      <3>1. table'[c] = table[c]
        BY <1>6, <1>8, <2>3
      <3> QED
        BY <1>6, <2>3, <3>1 DEF IInv, TableFor
    <2>4. \A b \in blocks : b.base > 0 /\ b.base + b.len <= Top
      BY DEF IInv, TableFor
    <2>5. \A b, c \in blocks : b = c \/ Separate(b, c)
      BY DEF IInv, TableFor
    <2> QED
      BY <1>6, <2>1, <2>2, <2>3, <2>4, <2>5 DEF TableFor, Cells, Separate
  <1>10. ObjectInv'
    BY <1>6 DEF IInv, ObjectInv, Chain
  <1>11. NotesFor(blocks)'
    <2>1. \A n \in info' : <<n[1], n[2]>> \in keys'
      BY <1>7 DEF IInv, NotesFor, Gone
    <2>2. ASSUME NEW n \in Notes, n[2] \notin confused' PROVE NoteFor(n, blocks)'
      <3>1. NoteFor(n, blocks) /\ n[2] \notin os
        BY <1>6, <2>2 DEF IInv, NotesFor
      <3>2. (n \in info' <=> n \in info) /\ (n \in temp' <=> n \in temp)
        BY <1>7, <3>1 DEF Moved
      <3> QED
        BY <1>6, <3>1, <3>2 DEF NoteFor, Touches
    <2> QED
      BY <1>6, <2>1, <2>2 DEF IInv, NotesFor
  <1>12. PastInv'
    BY <1>6 DEF IInv, PastInv
  <1>13. TypeOK'
    <2>1. table' \in [Addresses -> Origins \cup {maxEntry, NoAlloc}]
      BY <1>6, <1>8
    <2>2. /\ keys' \subseteq Regions \X Origins /\ regionBased' \subseteq keys'
          /\ info' \subseteq Notes /\ temp' \subseteq Notes /\ confused' \subseteq Origins
      BY <1>5, <1>6, <1>7 DEF IInv, TypeOK, Moved
    <2> QED
      BY <1>6, <2>1, <2>2 DEF AgainFree, IInv, TypeOK, regionVars
  <1> QED
    BY <1>9, <1>10, <1>11, <1>12, <1>13 DEF IInv

\* An access executed again: its notes are echoed.
LEMMA AgainAccessIInv ==
    ASSUME IInv, NEW e \in past, AgainAccess(e), ops' = ops,
           phase' \in {"run", "cut", "last", "drained", "reported"}
    PROVE  IInv'
  <1>1. e \in Entry /\ e.ptr \in 1 .. Top - 1 /\ e.operation # "ALLOC_ADD"
    BY DEF IInv, TypeOK, PastInv, AgainAccess
  <1>2. PICK more : more = NotesOf(e)
    OBVIOUS
  <1>3. /\ keys' \subseteq Regions \X Origins /\ regionBased' \subseteq keys'
        /\ more \subseteq Notes /\ info' = info \cup more
        /\ \A n \in info' : <<n[1], n[2]>> \in keys'
    BY <1>1, <1>2, RecordedTypes DEF AgainAccess
  <1>4. /\ temp' = temp /\ final' = final /\ blocks' = blocks /\ fresh' = fresh
        /\ settled' = settled /\ owed' = owed /\ confused' = confused
        /\ echoed' = echoed \cup more
    BY <1>2 DEF AgainAccess
  <1>5. NotesFor(blocks)'
    <2>1. ASSUME NEW n \in Notes, n[2] \notin confused' PROVE NoteFor(n, blocks)'
      <3>1. NoteFor(n, blocks)
        BY <1>4, <2>1 DEF IInv, NotesFor
      <3>2. n \in more => \E b \in blocks : b.origin = n[2]
        BY <1>1, <1>2, <1>4, <2>1, NoteIsOfBlock
      <3> QED
        BY <1>3, <1>4, <3>1, <3>2 DEF NoteFor, Touches
    <2> QED
      BY <1>3, <1>4, <2>1 DEF IInv, NotesFor
  <1>6. PastInv' /\ past' \subseteq Entry
    <2>1. past' \subseteq past \cup Climbed(e)
      BY DEF AgainAccess
    <2>2. /\ Climbed(e) \in SUBSET Entry
          /\ \A x \in Climbed(e) : /\ x.ptr \in 1 .. Top - 1
                                   /\ x.operation # "ALLOC_ADD"
      BY <1>1, ClimbedType
    <2> QED
      BY <2>1, <2>2, PastGrows
  <1>7. TypeOK'
    BY <1>3, <1>4, <1>6 DEF AgainAccess, IInv, TypeOK, regionVars, allocVars
  <1>8. TableFor(table, blocks, confused)' /\ ObjectInv'
    BY SameAllocations DEF AgainAccess
  <1> QED
    BY <1>5, <1>6, <1>7, <1>8 DEF IInv

\* The slot behind a batch, whatever it holds.
LEMMA SlotIInv == ASSUME IInv, SlotBehind PROVE IInv'
  <1>1. ops' = ops /\ ops' \in 0 .. MaxOps
        /\ phase' \in {"run", "cut", "last", "drained", "reported"}
    BY DEF SlotBehind, IInv, TypeOK
  <1>2. CASE NothingBehind
    BY <1>1, <1>2, RegionIInv DEF NothingBehind, IInv, TypeOK, regionVars
  <1>3. ASSUME NEW e \in past, AgainAdd(e) PROVE IInv'
    BY <1>1, <1>3, AgainAddIInv
  <1>4. ASSUME NEW e \in past, AgainFree(e) PROVE IInv'
    BY <1>1, <1>4, AgainFreeIInv
  <1>5. ASSUME NEW e \in past, AgainAccess(e) PROVE IInv'
    BY <1>1, <1>5, AgainAccessIInv
  <1>6. ASSUME NEW e \in past, AgainCommit(e) PROVE IInv'
    <2>1. CommitStates({e.state}) /\ past' = past
      BY <1>6 DEF AgainCommit
    <2>2. PastInv' /\ past' \subseteq Entry
      BY <2>1 DEF IInv, TypeOK, PastInv
    <2> QED
      BY <1>1, <2>1, <2>2, CommitIInv
  <1> QED
    BY <1>2, <1>3, <1>4, <1>5, <1>6 DEF SlotBehind

\* Every step keeps the invariant.
LEMMA NextIInv == IInv /\ [Next]_vars => IInv'
  <1> SUFFICES ASSUME IInv, [Next]_vars PROVE IInv'
    OBVIOUS
  <1>1. ASSUME NEW r \in Regions, GetState(r) PROVE IInv'
    BY <1>1, RegionIInv, OperationType DEF GetState, RegionOrNone, IInv, TypeOK
  <1>2. CASE EndState
    <2>1. Enclosing[activeState] \in RegionOrNone
      BY <1>2, AllocationAssumption DEF EndState, IInv, TypeOK, RegionOrNone
    <2> QED
      BY <1>2, <2>1, RegionIInv, OperationType DEF EndState, IInv, TypeOK
  <1>3. ASSUME NEW a \in Addresses, NEW n \in 1 .. MaxLen, NEW o \in Origins, Alloc(a, n, o)
        PROVE  IInv'
    BY <1>3, AllocIInv
  <1>4. ASSUME NEW b \in blocks, Free(b) PROVE IInv'
    BY <1>4, FreeIInv
  <1>5. ASSUME NEW b \in blocks, NEW a \in Addresses, NEW n \in 1 .. MaxLen,
               NEW o \in Origins, Realloc(b, a, n, o)
        PROVE  IInv'
    BY <1>5, ReallocIInv
  <1>6. ASSUME NEW p \in 1 .. Top - 1, Access(p) PROVE IInv'
    <2>1. PICK e : e = Slot("STATE_ADD", p, 0, NoAlloc, activeState)
      OBVIOUS
    <2>2. /\ e \in Entry /\ e.ptr = p /\ e.state = activeState /\ e.operation = "STATE_ADD"
      BY <2>1, AddressType, AllocationAssumption DEF Slot, Entry, IInv, TypeOK
    <2>3. \A b \in blocks, d \in Ends(e) : e.ptr \in Cells(b) => e.ptr + d \in Cells(b)
      BY <2>2, AddressType DEF Ends
    <2>4. Operation /\ Shipped(e)
      BY <1>6, <2>1 DEF Access
    <2> QED
      BY <2>2, <2>3, <2>4, ShippedIInv
  <1>7. ASSUME NEW p \in 1 .. Top - 1, NEW n \in 0 .. MaxLen - 1, SetStateRegion(p, n)
        PROVE  IInv'
    <2>1. PICK e : e = Slot("STATE_REGION_SET", p, n, NoAlloc, activeState)
      OBVIOUS
    <2>2. /\ e \in Entry /\ e.ptr = p /\ e.state = activeState /\ e.size = n
          /\ e.operation = "STATE_REGION_SET"
      BY <2>1, AddressType, AllocationAssumption DEF Slot, Entry, IInv, TypeOK
    <2>3. \A b \in blocks, d \in Ends(e) : e.ptr \in Cells(b) => e.ptr + d \in Cells(b)
      BY <1>7, <2>2, AddressType DEF Ends, SetStateRegion
    <2>4. Operation /\ Shipped(e)
      BY <1>7, <2>1 DEF SetStateRegion
    <2> QED
      BY <2>2, <2>3, <2>4, ShippedIInv
  <1>8. ASSUME NEW r \in Regions, EndStateInvocation(r) PROVE IInv'
    <2>1. PICK e : e = Slot("STATE_COMMIT", 0, 0, NoAlloc, r)
      OBVIOUS
    <2>2. e \in Entry /\ e.operation = "STATE_COMMIT"
      BY <2>1, AddressType, AllocationAssumption DEF Slot, Entry, RegionOrNone
    <2>3. past' \subseteq past \cup {e}
      BY <1>8, <2>1, LeaveType DEF EndStateInvocation
    <2>4. PastInv' /\ past' \subseteq Entry
      BY <2>2, <2>3, PastGrows
    <2>5. CommitStates({r}) /\ ops' \in 0 .. MaxOps /\ phase' = "cut"
      BY <1>8, OperationType DEF EndStateInvocation, IInv
    <2> QED
      BY <2>4, <2>5, CommitIInv
  <1>9. CASE ReportStatistics
    <2>1. PastInv' /\ past' \subseteq Entry
      BY <1>9 DEF ReportStatistics, IInv, TypeOK, PastInv
    <2> QED
      BY <1>9, <2>1, CommitIInv DEF ReportStatistics, IInv, TypeOK
  <1>10. CASE LastBatch
    BY <1>10, RegionIInv DEF LastBatch, IInv, TypeOK, regionVars
  <1>11. CASE SlotBehind
    BY <1>11, SlotIInv
  <1>12. CASE Terminated \/ UNCHANGED vars
    <2>1. UNCHANGED vars
      BY <1>12 DEF Terminated
    <2> QED
      BY <2>1, RegionIInv DEF IInv, TypeOK, vars, regionVars
  <1> QED
    BY <1>1, <1>2, <1>3, <1>4, <1>5, <1>6, <1>7, <1>8, <1>9, <1>10, <1>11, <1>12 DEF Next

-----------------------------------------------------------------------------
\* The invariant holds in every reachable state.
THEOREM IInvHolds == Spec => []IInv
  BY InitIInv, NextIInv, PTL DEF Spec

\* Type correctness: every note has an offset that fits an address.
THEOREM TypeCorrect == Spec => []TypeOK
  <1>1. IInv => TypeOK
    BY DEF IInv
  <1> QED
    BY <1>1, IInvHolds, PTL

\* findAllocation finds the allocation of the block that an address lies in
\* and no other, except for confused origins: those with two live blocks at
\* once and those that the slot behind a batch has disturbed.
THEOREM LookupCorrect == Spec => []LookupFindsBlock
  <1>1. ASSUME IInv PROVE LookupFindsBlock
    <2>1. ASSUME NEW p \in 1 .. Top - 1, NEW b \in blocks, p \in Cells(b), b.origin \notin confused
          PROVE  findAllocation(p) = b.origin
      BY <1>1, <2>1, FindIn
    <2>2. ASSUME NEW p \in 1 .. Top - 1, findAllocation(p) \notin confused \cup {NoAlloc}
          PROVE  \E b \in blocks : p \in Cells(b) /\ b.origin = findAllocation(p)
      BY <1>1, <2>2, FindOut
    <2> QED
      BY <2>1, <2>2 DEF LookupFindsBlock
  <1> QED
    BY <1>1, IInvHolds, PTL

\* What a ROI owes after its commits is in its Final sets, at the right
\* offset, whatever happened to the block since and whatever accesses and
\* commits were executed again, except for the blocks of confused origins.
THEOREM ReportComplete == Spec => []NothingLost
  <1>1. IInv => NothingLost
    BY DEF IInv, TypeOK, NotesFor, NoteFor, NothingLost
  <1> QED
    BY <1>1, IInvHolds, PTL

\* The Final sets hold nothing that the ROI does not owe, except for the
\* blocks of confused origins and the notes of accesses executed again.
THEOREM ReportSound == Spec => []NothingExtra
  <1>1. IInv => NothingExtra
    BY DEF IInv, TypeOK, NotesFor, NoteFor, NothingExtra
  <1> QED
    BY <1>1, IInvHolds, PTL
=============================================================================

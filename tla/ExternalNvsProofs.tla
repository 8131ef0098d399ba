------------------------- MODULE ExternalNvsProofs -------------------------
(***************************************************************************)
(* Proofs about ExternalNvs, for every set of entries and values and every *)
(* bound: its type invariant, NoRollback and Durable from the inductive    *)
(* invariant IInv, and that it implements VersionedStore.                  *)
(*                                                                         *)
(* Each part of IInv has a lemma of its own.  Its steps are the actions    *)
(* that change what the part is about; every other action leaves that      *)
(* unchanged, which is the last case of the lemma.                         *)
(***************************************************************************)
EXTENDS ExternalNvs, TLAPS

USE NoneAssumption, BoundsAssumption, NoneIsNoObject

(* What the two flashes hold stays well typed. *)
LEMMA FlashTypeStep == IInv /\ [Next]_vars => FlashTypeOK'
<1> SUFFICES ASSUME IInv, [Next]_vars PROVE FlashTypeOK'
  OBVIOUS
<1> USE DEF IInv, TypeOK, FlashTypeOK, RamTypeOK, CallTypeOK, HistoryTypeOK,
    Uids, Counts, Object, NoUid, UidsGrow, WriteInv, OtherCallsInv, internal,
    external, ram, call, past, ghosts, Begin, Goto, Return, Forget,
    Superseded, Erased
<1>1. CASE InitCounterGenerate
  BY <1>1 DEF InitCounterGenerate
<1>2. CASE InitErase
  BY <1>2 DEF InitErase
<1>3. CASE InitWriteUid
  BY <1>3 DEF InitWriteUid
<1>4. CASE WriteStore
  BY <1>4 DEF WriteStore
<1>5. CASE WriteCount
  BY <1>5 DEF WriteCount
<1>6. CASE WriteCleanup
  BY <1>6 DEF WriteCleanup
<1>7. CASE ReadCleanup
  BY <1>7 DEF ReadCleanup
<1>8. CASE DeleteStore
  BY <1>8 DEF DeleteStore
<1>9. CASE DeleteCount
  BY <1>9 DEF DeleteCount
<1>10. CASE ClearUid
  BY <1>10 DEF ClearUid
<1>11. CASE ClearCounters
  BY <1>11 DEF ClearCounters
<1>12. CASE ClearStore
  BY <1>12 DEF ClearStore
<1>13. CASE \E id \in Ids : StaleEntry(id)
  BY <1>13 DEF StaleEntry
<1>14. CASE StaleUid
  BY <1>14 DEF StaleUid
<1>15. CASE UNCHANGED <<psUid, ctr, ext, extUid>>
  BY <1>15 DEF vars
<1> QED
  BY <1>1, <1>2, <1>3, <1>4, <1>5, <1>6, <1>7, <1>8, <1>9, <1>10, <1>11,
    <1>12, <1>13, <1>14, <1>15 DEF Next, InitCall, WriteCall, ReadCall,
    DeleteCall, ClearCall, Environment, vars, BeginInit, InitStorage,
    InitCounterLoad, InitCounterFails, InitUidMatch, InitUidMismatch,
    InitRemount, BeginWrite, WriteSeal, WriteCountFails, BeginRead, ReadOk,
    ReadFails, ReadFailsEio, BeginDelete, DeleteCountFails, BeginClear, Reset

(* So do the variables a reset loses. *)
LEMMA RamTypeStep == IInv /\ [Next]_vars => RamTypeOK'
<1> SUFFICES ASSUME IInv, [Next]_vars PROVE RamTypeOK'
  OBVIOUS
<1> USE DEF IInv, TypeOK, FlashTypeOK, RamTypeOK, CallTypeOK, HistoryTypeOK,
    Uids, Counts, Object, NoUid, internal, external, ram, call, past, ghosts,
    Begin, Goto, Return, Forget, Superseded, Erased
<1>1. CASE InitStorage
  BY <1>1 DEF InitStorage
<1>2. CASE InitCounterLoad
  BY <1>2 DEF InitCounterLoad
<1>3. CASE InitCounterGenerate
  <2>1. mounted' \in BOOLEAN /\ counterInit' \in BOOLEAN
    BY <1>3 DEF InitCounterGenerate
  <2>2. ramUid' \in Uids
    BY <1>3 DEF InitCounterGenerate
  <2> QED
    BY <2>1, <2>2
<1>4. CASE InitErase
  BY <1>4 DEF InitErase
<1>5. CASE InitRemount
  BY <1>5 DEF InitRemount
<1>6. CASE ClearUid
  BY <1>6 DEF ClearUid
<1>7. CASE ClearStore
  BY <1>7 DEF ClearStore
<1>8. CASE Reset
  <2>1. mounted' \in BOOLEAN /\ counterInit' \in BOOLEAN
    BY <1>8 DEF Reset
  <2>2. ramUid' \in Uids
    BY <1>8 DEF Reset
  <2> QED
    BY <2>1, <2>2
<1>9. CASE UNCHANGED <<mounted, counterInit, ramUid>>
  BY <1>9 DEF vars
<1> QED
  BY <1>1, <1>2, <1>3, <1>4, <1>5, <1>6, <1>7, <1>8, <1>9 DEF Next, InitCall,
    WriteCall, ReadCall, DeleteCall, ClearCall, Environment, vars, BeginInit,
    InitCounterFails, InitUidMatch, InitUidMismatch, InitWriteUid, BeginWrite,
    WriteSeal, WriteStore, WriteCount, WriteCountFails, WriteCleanup,
    BeginRead, ReadOk, ReadFails, ReadFailsEio, ReadCleanup, BeginDelete,
    DeleteStore, DeleteCount, DeleteCountFails, BeginClear, ClearCounters,
    StaleEntry, StaleUid

(* So does the call in progress. *)
LEMMA CallTypeStep == IInv /\ [Next]_vars => CallTypeOK'
<1> SUFFICES ASSUME IInv, [Next]_vars PROVE CallTypeOK'
  OBVIOUS
<1> USE DEF IInv, TypeOK, FlashTypeOK, RamTypeOK, CallTypeOK, HistoryTypeOK,
    Uids, Counts, Object, NoUid, Steps, UidsGrow, WriteInv, OtherCallsInv,
    internal, external, ram, call, past, ghosts, Begin, Goto, Return, Forget,
    Superseded, Erased
<1>1. CASE BeginInit
  BY <1>1 DEF BeginInit
<1>2. CASE InitStorage
  BY <1>2 DEF InitStorage
<1>3. CASE InitCounterLoad
  BY <1>3 DEF InitCounterLoad
<1>4. CASE InitCounterGenerate
  BY <1>4 DEF InitCounterGenerate
<1>5. CASE InitCounterFails
  BY <1>5 DEF InitCounterFails
<1>6. CASE InitUidMatch
  BY <1>6 DEF InitUidMatch
<1>7. CASE InitUidMismatch
  BY <1>7 DEF InitUidMismatch
<1>8. CASE InitErase
  BY <1>8 DEF InitErase
<1>9. CASE InitRemount
  BY <1>9 DEF InitRemount
<1>10. CASE InitWriteUid
  BY <1>10 DEF InitWriteUid
<1>11. CASE \E id \in Ids, v \in Values : BeginWrite(id, v)
  BY <1>11 DEF BeginWrite
<1>12. CASE WriteSeal
  BY <1>12 DEF WriteSeal
<1>13. CASE WriteStore
  BY <1>13 DEF WriteStore
<1>14. CASE WriteCount
  BY <1>14 DEF WriteCount
<1>15. CASE WriteCountFails
  BY <1>15 DEF WriteCountFails
<1>16. CASE WriteCleanup
  BY <1>16 DEF WriteCleanup
<1>17. CASE \E id \in Ids : BeginRead(id)
  BY <1>17 DEF BeginRead
<1>18. CASE ReadOk
  BY <1>18 DEF ReadOk
<1>19. CASE ReadFails
  BY <1>19 DEF ReadFails
<1>20. CASE ReadFailsEio
  BY <1>20 DEF ReadFailsEio
<1>21. CASE ReadCleanup
  BY <1>21 DEF ReadCleanup
<1>22. CASE \E id \in Ids : BeginDelete(id)
  BY <1>22 DEF BeginDelete
<1>23. CASE DeleteStore
  BY <1>23 DEF DeleteStore
<1>24. CASE DeleteCount
  BY <1>24 DEF DeleteCount
<1>25. CASE DeleteCountFails
  BY <1>25 DEF DeleteCountFails
<1>26. CASE BeginClear
  BY <1>26 DEF BeginClear
<1>27. CASE ClearUid
  BY <1>27 DEF ClearUid
<1>28. CASE ClearCounters
  BY <1>28 DEF ClearCounters
<1>29. CASE ClearStore
  BY <1>29 DEF ClearStore
<1>30. CASE Reset
  BY <1>30 DEF Reset
<1>31. CASE UNCHANGED <<pc, cid, cobj, answer>>
  BY <1>31 DEF vars
<1> QED
  BY <1>1, <1>2, <1>3, <1>4, <1>5, <1>6, <1>7, <1>8, <1>9, <1>10, <1>11,
    <1>12, <1>13, <1>14, <1>15, <1>16, <1>17, <1>18, <1>19, <1>20, <1>21,
    <1>22, <1>23, <1>24, <1>25, <1>26, <1>27, <1>28, <1>29, <1>30, <1>31 DEF
    Next, InitCall, WriteCall, ReadCall, DeleteCall, ClearCall, Environment,
    vars, StaleEntry, StaleUid

(* So do the history variables. *)
LEMMA HistoryTypeStep == IInv /\ [Next]_vars => HistoryTypeOK'
<1> SUFFICES ASSUME IInv, [Next]_vars PROVE HistoryTypeOK'
  OBVIOUS
<1> USE DEF IInv, TypeOK, FlashTypeOK, RamTypeOK, CallTypeOK, HistoryTypeOK,
    Uids, Counts, Object, NoUid, UidsGrow, WriteInv, OtherCallsInv, internal,
    external, ram, call, past, ghosts, Begin, Goto, Return, Forget,
    Superseded, Erased
<1>1. CASE BeginInit
  BY <1>1 DEF BeginInit
<1>2. CASE InitCounterGenerate
  BY <1>2 DEF InitCounterGenerate
<1>3. CASE InitUidMatch
  BY <1>3 DEF InitUidMatch
<1>4. CASE InitUidMismatch
  BY <1>4 DEF InitUidMismatch
<1>5. CASE InitWriteUid
  BY <1>5 DEF InitWriteUid
<1>6. CASE \E id \in Ids, v \in Values : BeginWrite(id, v)
  BY <1>6 DEF BeginWrite
<1>7. CASE WriteStore
  BY <1>7 DEF WriteStore
<1>8. CASE WriteCount
  BY <1>8 DEF WriteCount
<1>9. CASE ReadFailsEio
  BY <1>9 DEF ReadFailsEio
<1>10. CASE \E id \in Ids : BeginDelete(id)
  BY <1>10 DEF BeginDelete
<1>11. CASE DeleteCount
  BY <1>11 DEF DeleteCount
<1>12. CASE BeginClear
  BY <1>12 DEF BeginClear
<1>13. CASE ClearStore
  BY <1>13 DEF ClearStore
<1>14. CASE Reset
  BY <1>14 DEF Reset
<1>15. CASE \E id \in Ids : StaleEntry(id)
  BY <1>15 DEF StaleEntry
<1>16. CASE StaleUid
  BY <1>16 DEF StaleUid
<1>17. CASE UNCHANGED <<sealed, lastUid, ready, acked, gone, held>>
  BY <1>17 DEF vars
<1> QED
  BY <1>1, <1>2, <1>3, <1>4, <1>5, <1>6, <1>7, <1>8, <1>9, <1>10, <1>11,
    <1>12, <1>13, <1>14, <1>15, <1>16, <1>17 DEF Next, InitCall, WriteCall,
    ReadCall, DeleteCall, ClearCall, Environment, vars, InitStorage,
    InitCounterLoad, InitCounterFails, InitErase, InitRemount, WriteSeal,
    WriteCountFails, WriteCleanup, BeginRead, ReadOk, ReadFails, ReadCleanup,
    DeleteStore, DeleteCountFails, ClearUid, ClearCounters

(* Unique IDs are generated in increasing order and RAM agrees with the flash. *)
LEMMA UidsGrowStep == IInv /\ [Next]_vars => UidsGrow'
<1> SUFFICES ASSUME IInv, [Next]_vars PROVE UidsGrow'
  OBVIOUS
<1> USE DEF IInv, TypeOK, FlashTypeOK, RamTypeOK, CallTypeOK, HistoryTypeOK,
    Uids, Counts, Object, NoUid, UidsGrow, internal, external, ram, call,
    past, ghosts, Begin, Goto, Return, Forget, Superseded, Erased
<1>1. CASE InitCounterLoad
  BY <1>1 DEF InitCounterLoad
<1>2. CASE InitCounterGenerate
  BY <1>2 DEF InitCounterGenerate
<1>3. CASE ClearUid
  BY <1>3 DEF ClearUid
<1>4. CASE Reset
  BY <1>4 DEF Reset
<1>5. CASE UNCHANGED <<psUid, lastUid, counterInit, ramUid>>
  BY <1>5 DEF vars
<1> QED
  BY <1>1, <1>2, <1>3, <1>4, <1>5 DEF Next, InitCall, WriteCall, ReadCall,
    DeleteCall, ClearCall, Environment, vars, BeginInit, InitStorage,
    InitCounterFails, InitUidMatch, InitUidMismatch, InitErase, InitRemount,
    InitWriteUid, BeginWrite, WriteSeal, WriteStore, WriteCount,
    WriteCountFails, WriteCleanup, BeginRead, ReadOk, ReadFails, ReadFailsEio,
    ReadCleanup, BeginDelete, DeleteStore, DeleteCount, DeleteCountFails,
    BeginClear, ClearCounters, ClearStore, StaleEntry, StaleUid

(* No object is sealed more than one step ahead of its counter. *)
LEMMA SealedStep == IInv /\ [Next]_vars => SealedBehindCounter'
<1> SUFFICES ASSUME IInv, [Next]_vars PROVE SealedBehindCounter'
  OBVIOUS
<1> USE DEF IInv, TypeOK, FlashTypeOK, RamTypeOK, CallTypeOK, HistoryTypeOK,
    Uids, Counts, Object, NoUid, UidsGrow, SealedBehindCounter, WriteInv,
    OtherCallsInv, internal, external, ram, call, past, ghosts, Begin, Goto,
    Return, Forget, Superseded, Erased
<1>1. CASE InitCounterGenerate
  BY <1>1 DEF InitCounterGenerate
<1>2. CASE WriteStore
  BY <1>2 DEF WriteStore
<1>3. CASE WriteCount
  BY <1>3 DEF WriteCount
<1>4. CASE DeleteCount
  BY <1>4 DEF DeleteCount
<1>5. CASE ClearUid
  BY <1>5 DEF ClearUid
<1>6. CASE ClearCounters
  BY <1>6 DEF ClearCounters
<1>7. CASE UNCHANGED <<sealed, lastUid, psUid, ctr>>
  BY <1>7 DEF vars
<1> QED
  BY <1>1, <1>2, <1>3, <1>4, <1>5, <1>6, <1>7 DEF Next, InitCall, WriteCall,
    ReadCall, DeleteCall, ClearCall, Environment, vars, BeginInit,
    InitStorage, InitCounterLoad, InitCounterFails, InitUidMatch,
    InitUidMismatch, InitErase, InitRemount, InitWriteUid, BeginWrite,
    WriteSeal, WriteCountFails, WriteCleanup, BeginRead, ReadOk, ReadFails,
    ReadFailsEio, ReadCleanup, BeginDelete, DeleteStore, DeleteCountFails,
    BeginClear, ClearStore, Reset, StaleEntry, StaleUid

(* The flash holds nothing that was not sealed. *)
LEMMA FlashStep == IInv /\ [Next]_vars => FlashHoldsSealed'
<1> SUFFICES ASSUME IInv, [Next]_vars PROVE FlashHoldsSealed'
  OBVIOUS
<1> USE DEF IInv, TypeOK, FlashTypeOK, RamTypeOK, CallTypeOK, HistoryTypeOK,
    Uids, Counts, Object, NoUid, FlashHoldsSealed, WriteInv, OtherCallsInv,
    internal, external, ram, call, past, ghosts, Begin, Goto, Return, Forget,
    Superseded, Erased
<1>1. CASE InitErase
  BY <1>1 DEF InitErase
<1>2. CASE WriteStore
  BY <1>2 DEF WriteStore
<1>3. CASE WriteCleanup
  BY <1>3 DEF WriteCleanup
<1>4. CASE ReadCleanup
  BY <1>4 DEF ReadCleanup
<1>5. CASE DeleteStore
  BY <1>5 DEF DeleteStore
<1>6. CASE ClearStore
  BY <1>6 DEF ClearStore
<1>7. CASE \E id \in Ids : StaleEntry(id)
  BY <1>7 DEF StaleEntry
<1>8. CASE UNCHANGED <<ext, sealed>>
  BY <1>8 DEF vars
<1> QED
  BY <1>1, <1>2, <1>3, <1>4, <1>5, <1>6, <1>7, <1>8 DEF Next, InitCall,
    WriteCall, ReadCall, DeleteCall, ClearCall, Environment, vars, BeginInit,
    InitStorage, InitCounterLoad, InitCounterGenerate, InitCounterFails,
    InitUidMatch, InitUidMismatch, InitRemount, InitWriteUid, BeginWrite,
    WriteSeal, WriteCount, WriteCountFails, BeginRead, ReadOk, ReadFails,
    ReadFailsEio, BeginDelete, DeleteCount, DeleteCountFails, BeginClear,
    ClearUid, ClearCounters, Reset, StaleUid

(* An acknowledged object is not ahead of its counter. *)
LEMMA AckedStep == IInv /\ [Next]_vars => AckedAtCounter'
<1> SUFFICES ASSUME IInv, [Next]_vars PROVE AckedAtCounter'
  OBVIOUS
<1> USE DEF IInv, TypeOK, FlashTypeOK, RamTypeOK, CallTypeOK, HistoryTypeOK,
    Uids, Counts, Object, NoUid, UidsGrow, AckedAtCounter, WriteInv,
    OtherCallsInv, SealedBehindCounter, FlashHoldsSealed, internal, external,
    ram, call, past, ghosts, Begin, Goto, Return, Forget, Superseded, Erased
<1>1. CASE InitCounterGenerate
  BY <1>1 DEF InitCounterGenerate
<1>2. CASE WriteStore
  BY <1>2 DEF WriteStore
<1>3. CASE WriteCount
  BY <1>3 DEF WriteCount
<1>4. CASE DeleteCount
  BY <1>4 DEF DeleteCount
<1>5. CASE ClearUid
  BY <1>5 DEF ClearUid
<1>6. CASE ClearCounters
  BY <1>6 DEF ClearCounters
<1>7. CASE ClearStore
  BY <1>7 DEF ClearStore
<1>8. CASE UNCHANGED <<acked, sealed, psUid, ctr>>
  BY <1>8 DEF vars
<1> QED
  BY <1>1, <1>2, <1>3, <1>4, <1>5, <1>6, <1>7, <1>8 DEF Next, InitCall,
    WriteCall, ReadCall, DeleteCall, ClearCall, Environment, vars, BeginInit,
    InitStorage, InitCounterLoad, InitCounterFails, InitUidMatch,
    InitUidMismatch, InitErase, InitRemount, InitWriteUid, BeginWrite,
    WriteSeal, WriteCountFails, WriteCleanup, BeginRead, ReadOk, ReadFails,
    ReadFailsEio, ReadCleanup, BeginDelete, DeleteStore, DeleteCountFails,
    BeginClear, Reset, StaleEntry, StaleUid

(* A superseded object is behind its counter. *)
LEMMA GoneStep == IInv /\ [Next]_vars => GoneBehindCounter'
<1> SUFFICES ASSUME IInv, [Next]_vars PROVE GoneBehindCounter'
  OBVIOUS
<1> USE DEF IInv, TypeOK, FlashTypeOK, RamTypeOK, CallTypeOK, HistoryTypeOK,
    Uids, Counts, Object, NoUid, UidsGrow, AckedAtCounter, GoneBehindCounter,
    WriteInv, OtherCallsInv, SealedBehindCounter, internal, external, ram,
    call, past, ghosts, Begin, Goto, Return, Forget, Superseded, Erased
<1>1. CASE InitCounterGenerate
  BY <1>1 DEF InitCounterGenerate
<1>2. CASE WriteStore
  BY <1>2 DEF WriteStore
<1>3. CASE WriteCount
  BY <1>3 DEF WriteCount
<1>4. CASE DeleteCount
  BY <1>4 DEF DeleteCount
<1>5. CASE ClearUid
  BY <1>5 DEF ClearUid
<1>6. CASE ClearCounters
  BY <1>6 DEF ClearCounters
<1>7. CASE ClearStore
  BY <1>7 DEF ClearStore
<1>8. CASE UNCHANGED <<gone, sealed, psUid, ctr>>
  BY <1>8 DEF vars
<1> QED
  BY <1>1, <1>2, <1>3, <1>4, <1>5, <1>6, <1>7, <1>8 DEF Next, InitCall,
    WriteCall, ReadCall, DeleteCall, ClearCall, Environment, vars, BeginInit,
    InitStorage, InitCounterLoad, InitCounterFails, InitUidMatch,
    InitUidMismatch, InitErase, InitRemount, InitWriteUid, BeginWrite,
    WriteSeal, WriteCountFails, WriteCleanup, BeginRead, ReadOk, ReadFails,
    ReadFailsEio, ReadCleanup, BeginDelete, DeleteStore, DeleteCountFails,
    BeginClear, Reset, StaleEntry, StaleUid

(* The steps of Write keep its entry, its object and the counter together. *)
LEMMA WriteStep == IInv /\ [Next]_vars => WriteInv'
<1> SUFFICES ASSUME IInv, [Next]_vars PROVE WriteInv'
  OBVIOUS
<1> USE DEF IInv, TypeOK, FlashTypeOK, RamTypeOK, CallTypeOK, HistoryTypeOK,
    Uids, Counts, Object, NoUid, UidsGrow, WriteInv, internal, external, ram,
    call, past, ghosts, Begin, Goto, Return, Forget, Superseded, Erased
<1>1. CASE \E id \in Ids, v \in Values : BeginWrite(id, v)
  BY <1>1 DEF BeginWrite
<1>2. CASE WriteSeal
  BY <1>2 DEF WriteSeal
<1>3. CASE WriteStore
  BY <1>3 DEF WriteStore
<1>4. CASE WriteCount
  BY <1>4 DEF WriteCount
<1>5. CASE WriteCountFails
  BY <1>5 DEF WriteCountFails
<1>6. CASE WriteCleanup
  BY <1>6 DEF WriteCleanup
<1>7. CASE BeginInit
  BY <1>7 DEF BeginInit
<1>8. CASE InitStorage
  BY <1>8 DEF InitStorage
<1>9. CASE InitCounterLoad
  BY <1>9 DEF InitCounterLoad
<1>10. CASE InitCounterGenerate
  BY <1>10 DEF InitCounterGenerate
<1>11. CASE InitCounterFails
  BY <1>11 DEF InitCounterFails
<1>12. CASE InitUidMatch
  BY <1>12 DEF InitUidMatch
<1>13. CASE InitUidMismatch
  BY <1>13 DEF InitUidMismatch
<1>14. CASE InitErase
  BY <1>14 DEF InitErase
<1>15. CASE InitRemount
  BY <1>15 DEF InitRemount
<1>16. CASE InitWriteUid
  BY <1>16 DEF InitWriteUid
<1>17. CASE \E id \in Ids : BeginRead(id)
  BY <1>17 DEF BeginRead
<1>18. CASE ReadOk
  BY <1>18 DEF ReadOk
<1>19. CASE ReadFails
  BY <1>19 DEF ReadFails
<1>20. CASE ReadFailsEio
  BY <1>20 DEF ReadFailsEio
<1>21. CASE ReadCleanup
  BY <1>21 DEF ReadCleanup
<1>22. CASE \E id \in Ids : BeginDelete(id)
  BY <1>22 DEF BeginDelete
<1>23. CASE DeleteStore
  BY <1>23 DEF DeleteStore
<1>24. CASE DeleteCount
  BY <1>24 DEF DeleteCount
<1>25. CASE DeleteCountFails
  BY <1>25 DEF DeleteCountFails
<1>26. CASE BeginClear
  BY <1>26 DEF BeginClear
<1>27. CASE ClearUid
  BY <1>27 DEF ClearUid
<1>28. CASE ClearCounters
  BY <1>28 DEF ClearCounters
<1>29. CASE ClearStore
  BY <1>29 DEF ClearStore
<1>30. CASE Reset
  BY <1>30 DEF Reset
<1>31. CASE \E id \in Ids : StaleEntry(id)
  BY <1>31 DEF StaleEntry
<1>32. CASE StaleUid
  BY <1>32 DEF StaleUid
<1>33. CASE UNCHANGED vars
  BY <1>33 DEF vars
<1> QED
  BY <1>1, <1>2, <1>3, <1>4, <1>5, <1>6, <1>7, <1>8, <1>9, <1>10, <1>11,
    <1>12, <1>13, <1>14, <1>15, <1>16, <1>17, <1>18, <1>19, <1>20, <1>21,
    <1>22, <1>23, <1>24, <1>25, <1>26, <1>27, <1>28, <1>29, <1>30, <1>31,
    <1>32, <1>33 DEF Next, InitCall, WriteCall, ReadCall, DeleteCall,
    ClearCall, Environment, vars

(* So do the steps of the other calls. *)
LEMMA OtherCallsStep == IInv /\ [Next]_vars => OtherCallsInv'
<1> SUFFICES ASSUME IInv, [Next]_vars PROVE OtherCallsInv'
  OBVIOUS
<1> USE DEF IInv, TypeOK, FlashTypeOK, RamTypeOK, CallTypeOK, HistoryTypeOK,
    Uids, Counts, Object, NoUid, UidsGrow, OtherCallsInv, internal, external,
    ram, call, past, ghosts, Begin, Goto, Return, Forget, Superseded, Erased
<1>1. CASE BeginInit
  BY <1>1 DEF BeginInit
<1>2. CASE InitStorage
  BY <1>2 DEF InitStorage
<1>3. CASE InitCounterLoad
  BY <1>3 DEF InitCounterLoad
<1>4. CASE InitCounterGenerate
  BY <1>4 DEF InitCounterGenerate
<1>5. CASE InitCounterFails
  BY <1>5 DEF InitCounterFails
<1>6. CASE InitUidMatch
  BY <1>6 DEF InitUidMatch
<1>7. CASE InitUidMismatch
  BY <1>7 DEF InitUidMismatch
<1>8. CASE InitErase
  BY <1>8 DEF InitErase
<1>9. CASE InitRemount
  BY <1>9 DEF InitRemount
<1>10. CASE InitWriteUid
  BY <1>10 DEF InitWriteUid
<1>11. CASE \E id \in Ids, v \in Values : BeginWrite(id, v)
  BY <1>11 DEF BeginWrite
<1>12. CASE WriteSeal
  BY <1>12 DEF WriteSeal
<1>13. CASE WriteStore
  BY <1>13 DEF WriteStore
<1>14. CASE WriteCount
  BY <1>14 DEF WriteCount
<1>15. CASE WriteCountFails
  BY <1>15 DEF WriteCountFails
<1>16. CASE WriteCleanup
  BY <1>16 DEF WriteCleanup
<1>17. CASE \E id \in Ids : BeginRead(id)
  BY <1>17 DEF BeginRead
<1>18. CASE ReadOk
  BY <1>18 DEF ReadOk
<1>19. CASE ReadFails
  BY <1>19 DEF ReadFails
<1>20. CASE ReadFailsEio
  BY <1>20 DEF ReadFailsEio
<1>21. CASE ReadCleanup
  BY <1>21 DEF ReadCleanup
<1>22. CASE \E id \in Ids : BeginDelete(id)
  BY <1>22 DEF BeginDelete
<1>23. CASE DeleteStore
  BY <1>23 DEF DeleteStore
<1>24. CASE DeleteCount
  BY <1>24 DEF DeleteCount
<1>25. CASE DeleteCountFails
  BY <1>25 DEF DeleteCountFails
<1>26. CASE BeginClear
  BY <1>26 DEF BeginClear
<1>27. CASE ClearUid
  BY <1>27 DEF ClearUid
<1>28. CASE ClearCounters
  BY <1>28 DEF ClearCounters
<1>29. CASE ClearStore
  BY <1>29 DEF ClearStore
<1>30. CASE Reset
  BY <1>30 DEF Reset
<1>31. CASE \E id \in Ids : StaleEntry(id)
  BY <1>31 DEF StaleEntry
<1>32. CASE StaleUid
  BY <1>32 DEF StaleUid
<1>33. CASE UNCHANGED vars
  BY <1>33 DEF vars
<1> QED
  BY <1>1, <1>2, <1>3, <1>4, <1>5, <1>6, <1>7, <1>8, <1>9, <1>10, <1>11,
    <1>12, <1>13, <1>14, <1>15, <1>16, <1>17, <1>18, <1>19, <1>20, <1>21,
    <1>22, <1>23, <1>24, <1>25, <1>26, <1>27, <1>28, <1>29, <1>30, <1>31,
    <1>32, <1>33 DEF Next, InitCall, WriteCall, ReadCall, DeleteCall,
    ClearCall, Environment, vars

(* What a caller relies on is on a flash that carries the device's unique ID. *)
LEMMA HeldIsOwnedStep == IInv /\ [Next]_vars => HeldIsOwned'
<1> SUFFICES ASSUME IInv, [Next]_vars PROVE HeldIsOwned'
  OBVIOUS
<1> USE DEF IInv, TypeOK, FlashTypeOK, RamTypeOK, CallTypeOK, HistoryTypeOK,
    Uids, Counts, Object, NoUid, UidsGrow, HeldIsOwned, WriteInv,
    OtherCallsInv, SealedBehindCounter, FlashHoldsSealed, Durable, Accepts,
    internal, external, ram, call, past, ghosts, Begin, Goto, Return, Forget,
    Superseded, Erased
<1>1. CASE BeginInit
  BY <1>1 DEF BeginInit
<1>2. CASE InitStorage
  BY <1>2 DEF InitStorage
<1>3. CASE InitCounterLoad
  BY <1>3 DEF InitCounterLoad
<1>4. CASE InitCounterGenerate
  BY <1>4 DEF InitCounterGenerate
<1>5. CASE InitCounterFails
  BY <1>5 DEF InitCounterFails
<1>6. CASE InitUidMatch
  BY <1>6 DEF InitUidMatch
<1>7. CASE InitUidMismatch
  BY <1>7 DEF InitUidMismatch
<1>8. CASE InitErase
  BY <1>8 DEF InitErase
<1>9. CASE InitRemount
  BY <1>9 DEF InitRemount
<1>10. CASE InitWriteUid
  BY <1>10 DEF InitWriteUid
<1>11. CASE \E id \in Ids, v \in Values : BeginWrite(id, v)
  BY <1>11 DEF BeginWrite
<1>12. CASE WriteSeal
  BY <1>12 DEF WriteSeal
<1>13. CASE WriteStore
  BY <1>13 DEF WriteStore
<1>14. CASE WriteCount
  BY <1>14 DEF WriteCount
<1>15. CASE WriteCountFails
  BY <1>15 DEF WriteCountFails
<1>16. CASE WriteCleanup
  BY <1>16 DEF WriteCleanup
<1>17. CASE \E id \in Ids : BeginRead(id)
  BY <1>17 DEF BeginRead
<1>18. CASE ReadOk
  BY <1>18 DEF ReadOk
<1>19. CASE ReadFails
  BY <1>19 DEF ReadFails
<1>20. CASE ReadFailsEio
  BY <1>20 DEF ReadFailsEio
<1>21. CASE ReadCleanup
  BY <1>21 DEF ReadCleanup
<1>22. CASE \E id \in Ids : BeginDelete(id)
  BY <1>22 DEF BeginDelete
<1>23. CASE DeleteStore
  BY <1>23 DEF DeleteStore
<1>24. CASE DeleteCount
  BY <1>24 DEF DeleteCount
<1>25. CASE DeleteCountFails
  BY <1>25 DEF DeleteCountFails
<1>26. CASE BeginClear
  BY <1>26 DEF BeginClear
<1>27. CASE ClearUid
  BY <1>27 DEF ClearUid
<1>28. CASE ClearCounters
  BY <1>28 DEF ClearCounters
<1>29. CASE ClearStore
  BY <1>29 DEF ClearStore
<1>30. CASE Reset
  BY <1>30 DEF Reset
<1>31. CASE \E id \in Ids : StaleEntry(id)
  BY <1>31 DEF StaleEntry
<1>32. CASE StaleUid
  BY <1>32 DEF StaleUid
<1>33. CASE UNCHANGED vars
  BY <1>33 DEF vars
<1> QED
  BY <1>1, <1>2, <1>3, <1>4, <1>5, <1>6, <1>7, <1>8, <1>9, <1>10, <1>11,
    <1>12, <1>13, <1>14, <1>15, <1>16, <1>17, <1>18, <1>19, <1>20, <1>21,
    <1>22, <1>23, <1>24, <1>25, <1>26, <1>27, <1>28, <1>29, <1>30, <1>31,
    <1>32, <1>33 DEF Next, InitCall, WriteCall, ReadCall, DeleteCall,
    ClearCall, Environment, vars

(* What a caller relies on stays readable. *)
LEMMA DurableStep == IInv /\ [Next]_vars => Durable'
<1> SUFFICES ASSUME IInv, [Next]_vars PROVE Durable'
  OBVIOUS
<1> USE DEF IInv, TypeOK, FlashTypeOK, RamTypeOK, CallTypeOK, HistoryTypeOK,
    Uids, Counts, Object, NoUid, UidsGrow, HeldIsOwned, WriteInv,
    OtherCallsInv, SealedBehindCounter, FlashHoldsSealed, Durable, Accepts,
    internal, external, ram, call, past, ghosts, Begin, Goto, Return, Forget,
    Superseded, Erased
<1>1. CASE InitCounterGenerate
  BY <1>1 DEF InitCounterGenerate
<1>2. CASE InitUidMismatch
  BY <1>2 DEF InitUidMismatch
<1>3. CASE InitErase
  BY <1>3 DEF InitErase
<1>4. CASE \E id \in Ids, v \in Values : BeginWrite(id, v)
  BY <1>4 DEF BeginWrite
<1>5. CASE WriteStore
  BY <1>5 DEF WriteStore
<1>6. CASE WriteCount
  BY <1>6 DEF WriteCount
<1>7. CASE WriteCleanup
  BY <1>7 DEF WriteCleanup
<1>8. CASE ReadFailsEio
  BY <1>8 DEF ReadFailsEio
<1>9. CASE ReadCleanup
  BY <1>9 DEF ReadCleanup
<1>10. CASE \E id \in Ids : BeginDelete(id)
  BY <1>10 DEF BeginDelete
<1>11. CASE DeleteStore
  BY <1>11 DEF DeleteStore
<1>12. CASE DeleteCount
  BY <1>12 DEF DeleteCount
<1>13. CASE BeginClear
  BY <1>13 DEF BeginClear
<1>14. CASE ClearUid
  BY <1>14 DEF ClearUid
<1>15. CASE ClearCounters
  BY <1>15 DEF ClearCounters
<1>16. CASE ClearStore
  BY <1>16 DEF ClearStore
<1>17. CASE \E id \in Ids : StaleEntry(id)
  BY <1>17 DEF StaleEntry
<1>18. CASE StaleUid
  BY <1>18 DEF StaleUid
<1>19. CASE UNCHANGED <<held, ext, psUid, ctr>>
  BY <1>19 DEF vars
<1> QED
  BY <1>1, <1>2, <1>3, <1>4, <1>5, <1>6, <1>7, <1>8, <1>9, <1>10, <1>11,
    <1>12, <1>13, <1>14, <1>15, <1>16, <1>17, <1>18, <1>19 DEF Next, InitCall,
    WriteCall, ReadCall, DeleteCall, ClearCall, Environment, vars, BeginInit,
    InitStorage, InitCounterLoad, InitCounterFails, InitUidMatch, InitRemount,
    InitWriteUid, WriteSeal, WriteCountFails, BeginRead, ReadOk, ReadFails,
    DeleteCountFails, Reset

(* IInv is an invariant: initially true and kept by every step. *)
THEOREM Invariance == Spec => []IInv
<1>1. ASSUME Init PROVE IInv
  <2>1. FlashTypeOK
    BY <1>1 DEF Init, FlashTypeOK, Uids, Counts, NoUid
  <2>2. CallTypeOK
    BY <1>1 DEF Init, CallTypeOK, Steps
  <2>3. mounted \in BOOLEAN /\ counterInit \in BOOLEAN /\ ready \in BOOLEAN
    BY <1>1 DEF Init
  <2>4. ramUid \in Uids /\ lastUid \in Uids
    BY <1>1 DEF Init, Uids, NoUid
  <2>5. /\ sealed \in [Ids -> SUBSET Object] /\ gone \in [Ids -> SUBSET Object]
        /\ acked \in [Ids -> Object \union {None}] /\ held \in [Ids -> Values \union {None}]
    BY <1>1 DEF Init
  <2>6. /\ UidsGrow /\ SealedBehindCounter /\ FlashHoldsSealed /\ AckedAtCounter
        /\ GoneBehindCounter /\ WriteInv /\ OtherCallsInv /\ HeldIsOwned /\ Durable
    BY <1>1 DEF Init, NoUid, UidsGrow, SealedBehindCounter, FlashHoldsSealed,
      AckedAtCounter, GoneBehindCounter, WriteInv, OtherCallsInv, HeldIsOwned, Durable
  <2> QED
    BY <2>1, <2>2, <2>3, <2>4, <2>5, <2>6 DEF IInv, TypeOK, RamTypeOK, HistoryTypeOK
<1>2. IInv /\ [Next]_vars => IInv'
  BY FlashTypeStep, RamTypeStep, CallTypeStep, HistoryTypeStep, UidsGrowStep,
    SealedStep, FlashStep, AckedStep, GoneStep, WriteStep, OtherCallsStep,
    HeldIsOwnedStep, DurableStep DEF IInv, TypeOK
<1> QED
  BY <1>1, <1>2, PTL DEF Spec

(* Every variable keeps its type, in every instance. *)
THEOREM TypeCorrect == Spec => []TypeOK
<1>1. IInv => TypeOK
  BY DEF IInv
<1> QED
  BY <1>1, Invariance, PTL

(* No acknowledged value comes back after an acknowledged call superseded   *)
(* it: what Counter::Write and DeleteLocked increment the counters for.     *)
THEOREM NeverRollsBack == Spec => []NoRollback
<1>1. IInv => NoRollback
  BY DEF IInv, TypeOK, FlashTypeOK, Counts, GoneBehindCounter, SealedBehindCounter, NoRollback, Accepts
<1> QED
  BY <1>1, Invariance, PTL

(* A value a caller may rely on stays readable through resets and failures. *)
THEOREM StaysDurable == Spec => []Durable
<1>1. IInv => Durable
  BY DEF IInv
<1> QED
  BY <1>1, Invariance, PTL

(* An empty device is an empty store. *)
LEMMA RefinementInit == Init => Store!Init
  BY DEF Init, Store!Init, SealedWith, Visible

(* Every step is a step of the store or leaves it unchanged.  What a caller *)
(* sees changes at the write to the external flash (the entry reads as      *)
(* absent until the counter is saved), at the save of the counter, at every *)
(* deletion, at a successful Read and when the unique ID goes.              *)
LEMMA RefinementStep == IInv /\ [Next]_vars => [Store!Next]_Store!vars
<1> SUFFICES ASSUME IInv, [Next]_vars PROVE [Store!Next]_Store!vars
  OBVIOUS
<1> DEFINE store   == [id \in Ids |-> IF Visible(id) THEN ext[id].val ELSE None]
           current == [id \in Ids |-> SealedWith(id, ctr[id])]
           next    == [id \in Ids |-> SealedWith(id, ctr[id] + 1)]
<1> USE DEF IInv, OtherCallsInv, WriteInv, internal, external, ram, call, past, ghosts,
            Begin, Goto, Return
<1>1. ASSUME UNCHANGED <<psUid, ctr, sealed>> PROVE UNCHANGED <<current, next>>
  BY <1>1 DEF SealedWith
<1>2. ASSUME UNCHANGED <<psUid, ctr, sealed, ext>> PROVE UNCHANGED <<store, current, next>>
  BY <1>1, <1>2 DEF Visible, Accepts
<1>3. ASSUME UNCHANGED <<psUid, ctr, sealed, ext>>, answer' = None
      PROVE  Store!Forget
  BY <1>2, <1>3 DEF Store!Forget
<1>4. ASSUME UNCHANGED <<psUid, ctr, sealed>>, answer' = None,
             NEW S \in SUBSET Ids, ext' = [id \in Ids |-> IF id \in S THEN None ELSE ext[id]]
      PROVE  Store!Drop(S)
  BY <1>1, <1>4 DEF Store!Drop, Visible, Accepts
<1>5. ASSUME NEW uid \in Uids, uid = NoUid \/ lastUid < uid, NEW id \in Ids
      PROVE  \A o \in sealed[id] : o.uid # uid
  BY <1>5 DEF SealedBehindCounter, TypeOK, HistoryTypeOK, Uids, Object, NoUid
<1>6. ASSUME psUid = NoUid, psUid' = NoUid \/ lastUid < psUid', psUid' \in Uids,
             UNCHANGED sealed, \A id \in Ids : ext'[id] = None \/ ext'[id] = ext[id]
      PROVE  UNCHANGED <<store, current, next>>
  <2>1. \A id \in Ids : ~Visible(id) /\ SealedWith(id, ctr[id]) = {} /\ SealedWith(id, ctr[id] + 1) = {}
    BY <1>5, <1>6 DEF Visible, Accepts, SealedWith, FlashHoldsSealed, TypeOK, FlashTypeOK
  <2>2. \A id \in Ids : (~Visible(id) /\ SealedWith(id, ctr[id]) = {} /\ SealedWith(id, ctr[id] + 1) = {})'
    BY <1>5, <1>6 DEF Visible, Accepts, SealedWith, FlashHoldsSealed, TypeOK, FlashTypeOK
  <2> QED
    BY <2>1, <2>2
<1>7. ASSUME cid \in Ids, UNCHANGED <<psUid, ctr, sealed>>, answer' = None,
             ext' = [ext EXCEPT ![cid] = None] \/ UNCHANGED ext
      PROVE  Store!Next
  <2>1. CASE ext' = [ext EXCEPT ![cid] = None]
    <3>1. ext' = [id \in Ids |-> IF id \in {cid} THEN None ELSE ext[id]]
      BY <2>1 DEF TypeOK, FlashTypeOK
    <3>2. PICK S \in SUBSET Ids : S = {cid}
      BY <1>7
    <3>3. Store!Drop(S)
      BY <1>4, <1>7, <3>1, <3>2
    <3> QED
      BY <3>3 DEF Store!Next
  <2>2. CASE UNCHANGED ext
    BY <1>3, <1>7, <2>2 DEF Store!Next
  <2> QED
    BY <1>7, <2>1, <2>2
<1>8. CASE WriteStore
  <2>1. cid \in Ids /\ cobj \in Object /\ cobj.val \in Values
    BY <1>8 DEF WriteStore, Object
  <2>2. ASSUME ext' = [ext EXCEPT ![cid] = cobj],
               sealed' = [sealed EXCEPT ![cid] = @ \union {cobj}]
        PROVE  Store!Prepare(cid, cobj.val)
    <3>0. ctr[cid] \in Nat /\ ctr[cid] # ctr[cid] + 1
      BY <2>1 DEF TypeOK, FlashTypeOK, Counts
    <3>1. store' = [store EXCEPT ![cid] = None]
      BY <1>8, <2>1, <2>2, <3>0 DEF WriteStore, Visible, Accepts, TypeOK, FlashTypeOK
    <3>2. current' = current
      BY <1>8, <2>1, <2>2 DEF WriteStore, SealedWith, TypeOK, FlashTypeOK, HistoryTypeOK, Counts
    <3>3. SealedWith(cid, ctr[cid] + 1)' = SealedWith(cid, ctr[cid] + 1) \union {cobj.val}
      BY <1>8, <2>1, <2>2 DEF WriteStore, SealedWith, TypeOK, FlashTypeOK, HistoryTypeOK, Counts
    <3>4. next' = [next EXCEPT ![cid] = @ \union {cobj.val}]
      <4>1. \A id \in Ids \ {cid} : sealed'[id] = sealed[id]
        BY <2>1, <2>2 DEF HistoryTypeOK, TypeOK
      <4>2. \A id \in Ids \ {cid} : next'[id] = next[id]
        BY <1>8, <4>1 DEF WriteStore, SealedWith
      <4>3. next'[cid] = next[cid] \union {cobj.val}
        BY <1>8, <2>1, <3>3 DEF WriteStore, SealedWith
      <4>4. next' = [id \in Ids |-> next'[id]] /\ next = [id \in Ids |-> next[id]]
        OBVIOUS
      <4> HIDE DEF next
      <4> QED
        BY <2>1, <4>2, <4>3, <4>4
    <3> QED
      BY <1>8, <3>1, <3>2, <3>4 DEF WriteStore, Store!Prepare
  <2>3. Store!Prepare(cid, cobj.val) => Store!Next
    BY <2>1 DEF Store!Prepare, Store!Next
  <2>4. CASE UNCHANGED <<ext, sealed>>
    BY <1>2, <1>8, <2>4 DEF WriteStore, Store!vars
  <2> QED
    BY <1>8, <2>2, <2>3, <2>4 DEF WriteStore
<1>9. ASSUME NEW i \in Ids, UNCHANGED <<psUid, ext, sealed>>,
             ctr' = [ctr EXCEPT ![i] = @ + 1], answer' = None
      PROVE  Store!Advance(i)
  <2>1. \A o \in sealed[i] : ~(o.uid = psUid /\ o.ctr = ctr[i] + 2)
    BY <1>9 DEF SealedBehindCounter, TypeOK, FlashTypeOK, HistoryTypeOK, Counts, Object
  <2>2. current' = [current EXCEPT ![i] = next[i]]
    BY <1>9 DEF SealedWith, TypeOK, FlashTypeOK
  <2>3. next' = [next EXCEPT ![i] = {}]
    <3>1. ctr'[i] + 1 = ctr[i] + 2
      BY <1>9 DEF TypeOK, FlashTypeOK, Counts
    <3>2. next'[i] = {}
      BY <1>9, <2>1, <3>1 DEF SealedWith
    <3>3. \A id \in Ids \ {i} : next'[id] = next[id]
      BY <1>9 DEF SealedWith, TypeOK, FlashTypeOK
    <3>4. next' = [id \in Ids |-> next'[id]] /\ next = [id \in Ids |-> next[id]]
      OBVIOUS
    <3> HIDE DEF next
    <3> QED
      BY <3>2, <3>3, <3>4
  <2> QED
    BY <1>9, <2>2, <2>3 DEF Store!Advance
<1>10. CASE WriteCount
  <2>1. cid \in Ids /\ cobj \in Object /\ cobj.val \in Values
    BY <1>10 DEF WriteCount, Object
  <2>2. ctr' = [ctr EXCEPT ![cid] = @ + 1]
    BY <1>10, <2>1 DEF WriteCount
  <2>3. Store!Advance(cid)
    BY <1>9, <1>10, <2>1, <2>2 DEF WriteCount
  <2>4. cobj.val \in next[cid]
    BY <1>10, <2>1 DEF WriteCount, SealedWith, FlashHoldsSealed
  <2>5. store' = [store EXCEPT ![cid] = cobj.val]
    BY <1>10, <2>1 DEF WriteCount, Visible, Accepts, TypeOK, FlashTypeOK
  <2> QED
    BY <2>1, <2>3, <2>4, <2>5 DEF Store!Commit, Store!Next
<1>11. CASE DeleteCount
  <2>1. Store!Advance(cid)
    BY <1>9, <1>11 DEF DeleteCount
  <2>2. store' = [store EXCEPT ![cid] = None]
    BY <1>11 DEF DeleteCount, Visible, Accepts, TypeOK, FlashTypeOK
  <2> QED
    BY <1>11, <2>1, <2>2 DEF DeleteCount, Store!Remove, Store!Next
<1>12. CASE WriteCleanup \/ ReadCleanup
  BY <1>7, <1>12 DEF WriteCleanup, ReadCleanup
<1>13. CASE DeleteStore
  BY <1>7, <1>13 DEF DeleteStore
<1>14. CASE ReadOk
  <2>1. Store!Answer(cid)
    BY <1>2, <1>14 DEF ReadOk, Store!Answer, Visible, Accepts, UidsGrow, TypeOK, FlashTypeOK, Object
  <2> QED
    BY <1>14, <2>1 DEF ReadOk, Store!Next
<1>15. CASE ClearUid
  <2>1. CASE psUid' = NoUid
    <3>1. \A id \in Ids : \A o \in sealed[id] : o.uid # NoUid
      BY <1>5 DEF Uids, NoUid
    <3>2. \A id \in Ids : /\ ~Visible(id)'
                         /\ SealedWith(id, ctr[id])' = {}
                         /\ SealedWith(id, ctr[id] + 1)' = {}
      BY <1>15, <2>1, <3>1 DEF ClearUid, Visible, Accepts, SealedWith, FlashHoldsSealed
    <3>3. Store!Wipe
      BY <1>15, <3>2 DEF ClearUid, Store!Wipe
    <3> QED
      BY <3>3 DEF Store!Next
  <2>2. CASE UNCHANGED psUid
    BY <1>3, <1>15, <2>2 DEF ClearUid, Store!Next
  <2> QED
    BY <1>15, <2>1, <2>2 DEF ClearUid
<1>16. CASE InitCounterGenerate \/ ClearCounters
  <2>1. psUid = NoUid
    BY <1>16 DEF InitCounterGenerate, ClearCounters
  <2>2. psUid' \in Uids /\ (psUid' = NoUid \/ lastUid < psUid')
    BY <1>16, <2>1 DEF InitCounterGenerate, ClearCounters, TypeOK, FlashTypeOK, HistoryTypeOK, Uids
  <2> QED
    BY <1>6, <1>16, <2>1, <2>2 DEF InitCounterGenerate, ClearCounters, Store!vars
<1>17. CASE InitErase \/ ClearStore
  <2>1. PICK S \in SUBSET Ids : ext' = [id \in Ids |-> IF id \in S THEN None ELSE ext[id]]
    BY <1>17 DEF InitErase, ClearStore, Erased
  <2>2. Store!Drop(S)
    BY <1>4, <1>17, <2>1 DEF InitErase, ClearStore
  <2> QED
    BY <2>2 DEF Store!Next
<1>18. ASSUME NEW id \in Ids, StaleEntry(id) PROVE Store!Next
  <2>1. PICK o \in sealed[id] : ext' = [ext EXCEPT ![id] = o]
    BY <1>18 DEF StaleEntry
  <2>2. PICK v \in current[id] \union {None} : v = IF Visible(id)' THEN o.val ELSE None
    BY <1>18, <2>1 DEF StaleEntry, SealedWith, Visible, Accepts, TypeOK, FlashTypeOK
  <2>3. store' = [store EXCEPT ![id] = v]
    BY <1>18, <2>1, <2>2 DEF StaleEntry, Visible, Accepts, TypeOK, FlashTypeOK
  <2>4. Store!Restore(id)
    BY <1>1, <1>18, <2>2, <2>3 DEF StaleEntry, Store!Restore
  <2> QED
    BY <2>4 DEF Store!Next
<1>19. CASE UNCHANGED <<psUid, ctr, sealed, ext>> /\ (answer' = None \/ UNCHANGED answer)
  BY <1>2, <1>3, <1>19 DEF Store!Next, Store!vars
<1> QED
  BY <1>8, <1>10, <1>11, <1>12, <1>13, <1>14, <1>15, <1>16, <1>17, <1>18, <1>19
  DEF Next, InitCall, WriteCall, ReadCall, DeleteCall, ClearCall, Environment, vars,
      BeginInit, InitStorage, InitCounterLoad, InitCounterFails, InitUidMatch,
      InitUidMismatch, InitRemount, InitWriteUid, BeginWrite, WriteSeal,
      WriteCountFails, BeginRead, ReadFails, ReadFailsEio, BeginDelete,
      DeleteCountFails, BeginClear, Reset, StaleUid

(* The subsystem implements the store its header promises. *)
THEOREM Refines == Spec => ImplementsStore
<1>1. Init => Store!Init
  BY RefinementInit
<1>2. IInv /\ [Next]_vars => [Store!Next]_Store!vars
  BY RefinementStep
<1> QED
  BY <1>1, <1>2, Invariance, PTL DEF Spec, ImplementsStore, Store!Spec
=============================================================================

-------------------------- MODULE KernelStore_proof --------------------------
(***************************************************************************)
(* Theorems about the Campaign row, for any number of processes that       *)
(* advance, inspect, or do both at once.  The CAS of _save protects every  *)
(* acknowledged fact but those that a save over a refreshed version drops. *)
(***************************************************************************)
EXTENDS KernelStore, TLAPS

\* The row, the caches and every thread of every kernel hold values of their
\* types.
THEOREM TypeCorrect == Spec => []TypeOK
<1>1. Init => TypeOK
  BY MaxVersionAssumption DEF Init, TypeOK, Version, PcValue, Unread
<1>2. TypeOK /\ [Next]_vars => TypeOK'
  <2> SUFFICES ASSUME TypeOK, [Next]_vars PROVE TypeOK'
    OBVIOUS
  <2> USE MaxVersionAssumption DEF TypeOK, Version, PcValue, Unread
  <2>1. CASE UNCHANGED vars
    BY <2>1 DEF vars
  <2>2. ASSUME NEW k \in Kernel, Select(k) PROVE TypeOK'
    BY <2>2 DEF Select
  <2>3. ASSUME NEW k \in Kernel, Remember(k) PROVE TypeOK'
    BY <2>3 DEF Remember
  <2>4. ASSUME NEW k \in Kernel, NEW fact \in Step, Progress(k, fact)
        PROVE TypeOK'
    BY <2>4 DEF Progress
  <2>5. ASSUME NEW k \in Kernel, Save(k) PROVE TypeOK'
    BY <2>5 DEF Save
  <2>6. ASSUME NEW k \in Kernel, RememberSaved(k) PROVE TypeOK'
    BY <2>6 DEF RememberSaved
  <2>7. ASSUME NEW k \in Kernel, SaveRefused(k) PROVE TypeOK'
    BY <2>7 DEF SaveRefused
  <2>8. ASSUME NEW k \in Kernel, ConflictSelect(k) PROVE TypeOK'
    BY <2>8 DEF ConflictSelect
  <2>9. ASSUME NEW k \in Kernel, ConflictCompare(k) PROVE TypeOK'
    BY <2>9 DEF ConflictCompare
  <2>10. ASSUME NEW k \in Kernel, Return(k) PROVE TypeOK'
    BY <2>10 DEF Return
  <2>11. ASSUME NEW k \in Kernel, PeekSelect(k) PROVE TypeOK'
    BY <2>11 DEF PeekSelect
  <2>12. ASSUME NEW k \in Kernel, PeekRemember(k) PROVE TypeOK'
    BY <2>12 DEF PeekRemember
  <2>13. ASSUME NEW k \in Kernel, Restart(k) PROVE TypeOK'
    BY <2>13 DEF Restart
  <2> QED
    BY <2>1, <2>2, <2>3, <2>4, <2>5, <2>6, <2>7, <2>8, <2>9, <2>10, <2>11,
       <2>12, <2>13 DEF Next
<1> QED
  BY <1>1, <1>2, PTL DEF Spec

------------------------------------------------------------------------------
\* The version a thread expects at its next save is the version its document
\* was built from, or an unlocked read of its process has put it there.
CacheIsBase(k) ==
    /\ pc[k] \in {"selected", "stored"} => seen[k] = base[k]
    /\ pc[k] = "working" => cache[k] = base[k] \/ refreshed[k]

\* A document built from the current version of the row holds the whole row,
\* and so does a readback of the current version.
HoldsRow(k) ==
    /\ seen[k] <= row.version
    /\ base[k] <= row.version
    /\ (pc[k] \in {"selected", "working", "stored"} /\ base[k] = row.version)
         => row.state \subseteq mem[k]
    /\ (pc[k] = "compare" /\ seen[k] = row.version) => found[k] = row.state
    /\ pc[k] = "compare" => found[k] \subseteq acknowledged

\* The inductive invariant: a process that does not advance holds no document,
\* and the row holds exactly the acknowledged facts that were not overrun.
RowInv ==
    /\ TypeOK
    /\ \A k \in Kernel \ Advancing : pc[k] = "idle"
    /\ row.state \subseteq acknowledged
    /\ acknowledged \ overrun \subseteq row.state
    /\ \A k \in Kernel : CacheIsBase(k) /\ HoldsRow(k)

LEMMA InitRowInv == Init => RowInv
  BY MaxVersionAssumption, InspectingAssumption
  DEF Init, RowInv, TypeOK, Version, PcValue, Unread, CacheIsBase, HoldsRow

\* A save that is accepted was built from the current row, or over a version
\* that an unlocked read has refreshed.
LEMMA AcceptedSaveIsCurrent ==
  ASSUME RowInv, NEW k \in Kernel, Save(k)
  PROVE  \/ base[k] = row.version /\ row.state \subseteq mem[k]
         \/ base[k] # row.version /\ refreshed[k]
  BY DEF RowInv, CacheIsBase, HoldsRow, Save, SaveAccepted

LEMMA NextRowInv ==
  ASSUME TypeOK', RowInv, [Next]_vars
  PROVE  RowInv'
<1> USE InspectingAssumption DEF RowInv, CacheIsBase, HoldsRow
<1> DEFINE Rest == /\ \A k \in Kernel \ Advancing : pc'[k] = "idle"
                   /\ row'.state \subseteq acknowledged'
                   /\ acknowledged' \ overrun' \subseteq row'.state
                   /\ \A k \in Kernel : CacheIsBase(k)' /\ HoldsRow(k)'
<1> SUFFICES Rest
  OBVIOUS
<1>1. CASE UNCHANGED vars
  BY <1>1 DEF vars
<1>2. ASSUME NEW k \in Kernel, Select(k) PROVE Rest
  BY <1>2 DEF Select, TypeOK, Version
<1>3. ASSUME NEW k \in Kernel, Remember(k) PROVE Rest
  BY <1>3 DEF Remember, TypeOK
<1>4. ASSUME NEW k \in Kernel, NEW fact \in Step, Progress(k, fact) PROVE Rest
  BY <1>4 DEF Progress, TypeOK
<1>5. ASSUME NEW k \in Kernel, Save(k) PROVE Rest
  <2>1. \/ base[k] = row.version /\ row.state \subseteq mem[k]
        \/ base[k] # row.version /\ refreshed[k]
    BY <1>5, AcceptedSaveIsCurrent
  <2>2. row'.state \subseteq acknowledged' /\ acknowledged' \ overrun' \subseteq row'.state
    BY <1>5, <2>1 DEF Save
  <2>3. row'.version = row.version + 1 /\ row.version \in Nat
    BY <1>5, MaxVersionAssumption DEF Save, TypeOK, Version
  <2>4. ASSUME NEW j \in Kernel PROVE CacheIsBase(j)' /\ HoldsRow(j)'
    BY <1>5, <2>1, <2>2, <2>3, <2>4, MaxVersionAssumption
    DEF Save, TypeOK, Version
  <2> QED
    BY <1>5, <2>2, <2>4 DEF Save
<1>6. ASSUME NEW k \in Kernel, RememberSaved(k) PROVE Rest
  BY <1>6 DEF RememberSaved, TypeOK
<1>7. ASSUME NEW k \in Kernel, SaveRefused(k) PROVE Rest
  BY <1>7 DEF SaveRefused, TypeOK
<1>8. ASSUME NEW k \in Kernel, ConflictSelect(k) PROVE Rest
  BY <1>8 DEF ConflictSelect, TypeOK, Version
<1>9. ASSUME NEW k \in Kernel, ConflictCompare(k) PROVE Rest
  <2>1. CASE found[k] = mem[k]
    <3>1. /\ acknowledged' = acknowledged
          /\ pc' = [pc EXCEPT ![k] = "working"]
          /\ base' = [base EXCEPT ![k] = seen[k]]
      BY <1>9, <2>1 DEF ConflictCompare
    <3>2. CacheIsBase(k)' /\ HoldsRow(k)'
      BY <1>9, <2>1, <3>1 DEF ConflictCompare, TypeOK, Version
    <3>3. ASSUME NEW j \in Kernel \ {k} PROVE CacheIsBase(j)' /\ HoldsRow(j)'
      BY <1>9, <2>1, <3>1, <3>3 DEF ConflictCompare, TypeOK, Version
    <3> QED
      BY <1>9, <3>1, <3>2, <3>3 DEF ConflictCompare
  <2>2. CASE found[k] # mem[k]
    BY <1>9, <2>2 DEF ConflictCompare, TypeOK, Version
  <2> QED
    BY <2>1, <2>2
<1>10. ASSUME NEW k \in Kernel, Return(k) PROVE Rest
  BY <1>10 DEF Return, TypeOK
<1>11. ASSUME NEW k \in Kernel, PeekSelect(k) PROVE Rest
  BY <1>11 DEF PeekSelect
<1>12. ASSUME NEW k \in Kernel, PeekRemember(k) PROVE Rest
  BY <1>12 DEF PeekRemember, TypeOK
<1>13. ASSUME NEW k \in Kernel, Restart(k) PROVE Rest
  BY <1>13 DEF Restart, TypeOK
<1> QED
  BY <1>1, <1>2, <1>3, <1>4, <1>5, <1>6, <1>7, <1>8, <1>9, <1>10, <1>11,
     <1>12, <1>13 DEF Next

LEMMA RowInvariant == Spec => []RowInv
<1>1. RowInv /\ [Next]_vars /\ TypeOK' => RowInv'
  BY NextRowInv
<1> QED
  BY <1>1, InitRowInv, TypeCorrect, PTL DEF Spec

\* Whatever the number of processes, of unlocked reads, crashes and conflicts, no
\* acknowledged fact leaves the row but by a save over a version that an unlocked
\* read of the same process had refreshed.
THEOREM FactsAreDurable == Spec => []AcknowledgedDurable
<1>1. RowInv => AcknowledgedDurable
  BY DEF RowInv, AcknowledgedDurable
<1> QED
  BY <1>1, RowInvariant, PTL

\* Every process saves only over the version its document was built from, or over one
\* that its own unlocked read has put in the place of that version.
THEOREM StaleWriterFails == Spec => StaleWriterFailsClosed
<1> DEFINE Fails == \A k \in Kernel :
              (pc[k] = "working" /\ pc'[k] = "stored") =>
                 base[k] = row.version \/ refreshed[k]
<1>1. RowInv /\ [Next]_vars => [Fails]_vars
  <2> SUFFICES ASSUME RowInv, Next, NEW k \in Kernel,
                      pc[k] = "working", pc'[k] = "stored"
               PROVE  base[k] = row.version \/ refreshed[k]
    OBVIOUS
  <2>1. Save(k)
    BY DEF Next, RowInv, TypeOK, Select, Remember, Progress, Save,
           RememberSaved, SaveRefused, ConflictSelect, ConflictCompare, Return,
           PeekSelect, PeekRemember, Restart
  <2> QED
    BY <2>1, AcceptedSaveIsCurrent
<1> QED
  BY <1>1, RowInvariant, PTL DEF Spec, StaleWriterFailsClosed

==============================================================================

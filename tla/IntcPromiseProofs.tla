------------------------- MODULE IntcPromiseProofs -------------------------
(***************************************************************************)
(* The controller implements PriorityInterrupts: every step of Intc is a   *)
(* step of the abstract controller, or changes none of its variables.  And *)
(* what a waiting entry of the controller stands for: the interrupts that  *)
(* wait and are not in service are those owed to the core, so that no core *)
(* accepts an interrupt without a request of its own.                      *)
(***************************************************************************)
EXTENDS IntcRequests, IntcProofs

(* The abstract variables that stand for sets: masked and active interrupts.   *)
Masked == [c \in Cores |-> {i \in Ints : ic[c][i].mk}]
Active == [c \in Cores |-> InService(c)]

(* After the reset nothing waits, nothing is active, all is masked.            *)
LEMMA InitRefines == Init => Promise!Init
<1> SUFFICES ASSUME Init PROVE Promise!Init
  OBVIOUS
<1>1. wlvl = [c \in Cores |-> [i \in Ints |-> NumLvl]]
  BY DEF Init, AllInts, AllCores
<1>2. Active = [c \in Cores |-> {}]
  <2>1. \A c \in Cores : cur[c] = -1 /\ stack[c] = <<>>
    BY DEF Init, AllCores
  <2>2. Len(<<>>) = 0
    BY EmptySeq
  <2>3. \A c \in Cores : InService(c) = {}
    BY <2>1, <2>2 DEF InService
  <2> QED
    BY <2>3 DEF Active
<1>3. Masked = [c \in Cores |-> Ints]
  BY DEF Init, AllInts, AllCores, Masked, ResetIC
<1> QED
  BY <1>1, <1>2, <1>3 DEF Promise!Init, Active, Masked

(* The order of the keys is the order of the abstract controller.              *)
LEMMA KeyBeats ==
  ASSUME TypeOK, NEW c \in Cores, NEW i \in Ints, NEW j \in Ints
  PROVE  Key(c, i) < Key(c, j) <=> Promise!Beats(c, i, j)
  BY KeyOrder DEF Promise!Beats

(* What get_maxpri_itno searches are the eligible interrupts.                  *)
LEMMA CandidatesAreEligible ==
  ASSUME IInv, NEW c \in Cores
  PROVE  Candidates(c) = Promise!Eligible(c)
<1> USE DEF IInv, Structure
<1>1. Active[c] = InService(c) /\ Masked[c] = {i \in Ints : ic[c][i].mk}
  BY DEF Active, Masked
<1>2. ASSUME NEW j \in InService(c)
      PROVE  /\ cur[c] \in Ints /\ cur[c] \in InService(c)
             /\ j \in Ints
             /\ j = cur[c] \/ Key(c, cur[c]) < Key(c, j)
  <2>1. j \in Ints
    BY InServiceType
  <2>2. CASE j = cur[c]
    BY <2>1, <2>2
  <2>3. CASE j # cur[c]
    <3>1. PICK k \in 1 .. Len(stack[c]) : j = stack[c][k]
      BY <2>3 DEF InService
    <3>2. stack[c] # <<>>
      BY <3>1, EmptySeq
    <3>3. cur[c] \in InService(c) \cap Ints
      BY <3>2, InServiceType DEF NestingOrder
    <3> QED
      BY <2>1, <3>1, <3>3 DEF NestingOrder
  <2> QED
    BY <2>2, <2>3
<1>3. ASSUME NEW i \in Ints, Waits(c, i), cur[c] >= 0 => Key(c, i) < Key(c, cur[c]),
             NEW j \in InService(c)
      PROVE  Key(c, i) < Key(c, j)
  <2>1. cur[c] >= 0
    BY <1>2, IntcAssumption DEF Ints
  <2>2. Key(c, i) \in Nat /\ Key(c, j) \in Nat /\ Key(c, cur[c]) \in Nat
    BY <1>2, KeyOrder
  <2> QED
    BY <1>2, <1>3, <2>1, <2>2
<1>4. ASSUME NEW i \in Candidates(c) PROVE i \in Promise!Eligible(c)
  <2>1. i \in Ints /\ Waits(c, i) /\ ~ ic[c][i].mk /\ (cur[c] >= 0 => Key(c, i) < Key(c, cur[c]))
    BY DEF Candidates
  <2>2. \A j \in InService(c) : Key(c, i) < Key(c, j)
    BY <1>3, <2>1
  <2>3. i \notin InService(c)
    BY <2>1, <2>2, KeyOrder
  <2>4. \A j \in InService(c) : Promise!Beats(c, i, j)
    BY <1>2, <2>1, <2>2, KeyBeats
  <2> QED
    BY <1>1, <2>1, <2>3, <2>4 DEF Promise!Eligible, Active, Masked, Waits
<1>5. ASSUME NEW i \in Promise!Eligible(c) PROVE i \in Candidates(c)
  <2>1. /\ i \in Ints /\ ~ ic[c][i].mk /\ i \notin InService(c) /\ Waits(c, i)
        /\ \A j \in InService(c) : Promise!Beats(c, i, j)
    BY <1>1 DEF Promise!Eligible, Active, Masked, Waits
  <2>2. wtotal[c] # 0
    BY <2>1, WaitingIsCounted
  <2>3. cur[c] >= 0 => cur[c] # i /\ Key(c, i) < Key(c, cur[c])
    <3>1. SUFFICES ASSUME cur[c] >= 0 PROVE cur[c] # i /\ Key(c, i) < Key(c, cur[c])
      OBVIOUS
    <3>2. cur[c] \in InService(c) \cap Ints
      BY <3>1, InServiceType
    <3> QED
      BY <2>1, <3>2, KeyBeats
  <2>4. ~ (cur[c] > 0 /\ cur[c] = i)
    <3>1. cur[c] \in Int
      BY IntcAssumption DEF TypeOK, Ints
    <3> QED
      BY <2>3, <3>1
  <2> QED
    BY <2>1, <2>2, <2>3, <2>4 DEF Candidates
<1> QED
  BY <1>4, <1>5

(* A device clock is an Accept.                                                *)
LEMMA SupplyClockRefines == ASSUME IInv, SupplyClock PROVE Promise!Accept
<1> USE DEF IInv, Structure
<1>1. wlvl' = wlvl /\ Masked' = Masked
  BY DEF SupplyClock, waiting, Masked
<1>2. ASSUME NEW c \in Cores
      PROVE  InService(c)' = InService(c) \cup (IF TakesInt(c) THEN {Best(c)} ELSE {})
  BY SupplyClockService
<1>3. ASSUME NEW c \in Cores, TakesInt(c)
      PROVE  /\ Best(c) \in Promise!Eligible(c)
             /\ Promise!MostUrgent(c, Best(c), Promise!Eligible(c))
  <2>1. /\ Best(c) \in Candidates(c)
        /\ \A j \in Candidates(c) : Key(c, Best(c)) <= Key(c, j)
    BY <1>3, BestIsLeast DEF TakesInt
  <2>2. ASSUME NEW j \in Candidates(c) \ {Best(c)} PROVE Promise!Beats(c, Best(c), j)
    <3>1. j \in Ints /\ Best(c) \in Ints
      BY <2>1 DEF Candidates
    <3>2. Key(c, Best(c)) # Key(c, j) /\ Key(c, Best(c)) \in Nat /\ Key(c, j) \in Nat
      BY <3>1, KeyOrder
    <3>3. Key(c, Best(c)) < Key(c, j)
      BY <2>1, <3>2
    <3> QED
      BY <3>1, <3>3, KeyBeats
  <2> QED
    BY <2>1, <2>2, CandidatesAreEligible DEF Promise!MostUrgent
<1>4. \A c \in Cores :
        \/ Active'[c] = Active[c]
        \/ \E i \in Promise!Eligible(c) :
             /\ Promise!MostUrgent(c, i, Promise!Eligible(c))
             /\ Active'[c] = Active[c] \cup {i}
  BY <1>2, <1>3 DEF Active
<1> QED
  BY <1>1, <1>4 DEF Promise!Accept, Active, Masked

(* common_raise_intr is a Request.                                             *)
LEMMA CommonRaiseRefines ==
  ASSUME IInv, NEW S \in SUBSET Cores, NEW i \in Ints, CommonRaise(S, i)
  PROVE  Promise!Request(S, i)
<1> USE DEF IInv, Structure
<1>1. Active' = Active
  BY DEF CommonRaise, service, Active, InService
<1>2. Masked' = Masked
  <2>1. \A c \in Cores, j \in Ints : ic'[c][j].mk = ic[c][j].mk
    BY DEF TypeOK, CommonRaise
  <2> QED
    BY <2>1 DEF Masked
<1>3. \A c \in Cores \ S : wlvl'[c] = wlvl[c]
  BY DEF CommonRaise, SetWait
<1>4. ASSUME NEW c \in S
      PROVE  \E l \in 0 .. NumLvl - 1 :
               wlvl'[c] = IF wlvl[c][i] = NumLvl THEN [wlvl[c] EXCEPT ![i] = l] ELSE wlvl[c]
  <2>1. ic[c][i].pr \in 0 .. NumLvl - 1
    BY DEF TypeOK, Lvls
  <2>2. wlvl'[c] = IF wlvl[c][i] = NumLvl THEN [wlvl[c] EXCEPT ![i] = ic[c][i].pr] ELSE wlvl[c]
    BY DEF CommonRaise, SetWait, Waits
  <2> QED
    BY <2>1, <2>2
<1> QED
  BY <1>1, <1>2, <1>3, <1>4 DEF Promise!Request, Active, Masked

(* A byte written to xxICn is an End, or changes masks only.                   *)
LEMMA EndServiceRefines ==
  ASSUME IInv, NEW c \in Cores, EndService(c), \A d \in Cores \ {c} : ic'[d] = ic[d]
  PROVE  Promise!End(c) \/ Promise!Remask(c)
<1> USE DEF IInv, Structure
<1>1. \A d \in Cores \ {c} : Masked'[d] = Masked[d]
  BY DEF Masked
<1>2. CASE cur[c] = -1
  <2>1. wlvl' = wlvl /\ Active' = Active
    BY <1>2 DEF EndService, service, waiting, Active, InService
  <2> QED
    BY <1>1, <2>1 DEF Promise!Remask, Active, Masked
<1>3. CASE cur[c] # -1
  <2>1. cur[c] \in InService(c) \cap Ints
    BY <1>3, InServiceType
  <2>2. Promise!MostUrgent(c, cur[c], InService(c))
    <3> SUFFICES ASSUME NEW j \in InService(c) \ {cur[c]} PROVE Promise!Beats(c, cur[c], j)
      BY DEF Promise!MostUrgent
    <3>1. PICK k \in 1 .. Len(stack[c]) : j = stack[c][k]
      BY DEF InService
    <3>2. Key(c, cur[c]) < Key(c, j) /\ j \in Ints
      BY <3>1, InServiceType DEF NestingOrder
    <3> QED
      BY <2>1, <3>2, KeyBeats
  <2>3. InService(c)' = InService(c) \ {cur[c]}
    BY <1>3, EndServiceInService
  <2>4. \A d \in Cores \ {c} : InService(d)' = InService(d)
    BY <1>3, EndServiceFacts DEF InService
  <2>5. Active' = [Active EXCEPT ![c] = InService(c) \ {cur[c]}]
    BY <2>3, <2>4 DEF Active
  <2>6. wlvl' = [wlvl EXCEPT ![c][cur[c]] = NumLvl]
    BY <1>3, EndServiceFacts
  <2> QED
    BY <1>1, <2>1, <2>2, <2>5, <2>6 DEF Promise!End, Active, Masked
<1> QED
  BY <1>2, <1>3

(* device_reset is a Reset.                                                    *)
LEMMA DeviceResetRefines == ASSUME DeviceReset PROVE Promise!Reset
<1>1. wlvl' = [c \in Cores |-> [i \in Ints |-> NumLvl]]
  BY DEF DeviceReset, AllInts, AllCores
<1>2. Active' = [c \in Cores |-> {}]
  <2>1. \A c \in Cores : cur'[c] = -1 /\ stack'[c] = <<>>
    BY DEF DeviceReset, AllCores
  <2>2. Len(<<>>) = 0
    BY EmptySeq
  <2>3. \A c \in Cores : InService(c)' = {}
    BY <2>1, <2>2 DEF InService
  <2> QED
    BY <2>3 DEF Active
<1>3. Masked' = [c \in Cores |-> Ints]
  BY DEF DeviceReset, AllInts, AllCores, Masked, ResetIC
<1> QED
  BY <1>1, <1>2, <1>3 DEF Promise!Reset, Active, Masked

(* So is every write to a register of the controller.                          *)
LEMMA RegisterWriteRefines ==
  ASSUME IInv, NEW c \in Cores, RegisterWrite(c)
  PROVE  Promise!End(c) \/ Promise!Remask(c)
<1>1. \A d \in Cores \ {c} : ic'[d] = ic[d]
  BY DEF RegisterWrite, WriteIC8, WriteIC8Upper, WriteIC16, WriteIC32, WriteIMR8, WriteIMR16,
         WriteIMR, IInv, TypeOK
<1>2. EndService(c) \/ UNCHANGED <<service, waiting>>
  BY DEF RegisterWrite, WriteIC8, WriteIC8Upper, WriteIC16, WriteIC32, WriteIMR8, WriteIMR16,
         WriteIMR
<1>3. CASE EndService(c)
  BY <1>1, <1>3, EndServiceRefines
<1>4. CASE UNCHANGED <<service, waiting>>
  <2>1. wlvl' = wlvl /\ Active' = Active
    BY <1>4 DEF service, waiting, Active, InService
  <2>2. \A d \in Cores \ {c} : Masked'[d] = Masked[d]
    BY <1>1 DEF Masked
  <2> QED
    BY <2>1, <2>2 DEF Promise!Remask, Active, Masked
<1> QED
  BY <1>2, <1>3, <1>4

(* Every step is an abstract step or changes no abstract variable.             *)
LEMMA StepRefines ==
  ASSUME IInv, [Next]_vars PROVE Promise!Next \/ UNCHANGED Promise!vars
<1>1. CASE SupplyClock
  BY <1>1, SupplyClockRefines DEF Promise!Next
<1>2. ASSUME NEW i \in Sources, RaiseIntr(i) PROVE Promise!Next
  <2>1. i \in Ints /\ CommonRaise(Cores, i)
    BY <1>2, IntcAssumption DEF RaiseIntr
  <2>2. Promise!Request(Cores, i)
    BY <2>1, CommonRaiseRefines
  <2> QED
    BY <2>1, <2>2 DEF Promise!Next
<1>3. ASSUME NEW c \in Cores, NEW i \in MirInts, CpuTrigger(c, i) PROVE Promise!Next
  <2>1. i \in Ints /\ CommonRaise({1 - c} \cap Cores, i) /\ {1 - c} \cap Cores \in SUBSET Cores
    BY <1>3, IntcAssumption DEF CpuTrigger
  <2>2. Promise!Request({1 - c} \cap Cores, i)
    BY <2>1, CommonRaiseRefines
  <2> QED
    BY <2>1, <2>2 DEF Promise!Next
<1>4. CASE DeviceReset
  BY <1>4, DeviceResetRefines DEF Promise!Next
<1>5. ASSUME NEW c \in Cores, RegisterWrite(c) PROVE Promise!Next
  BY <1>5, RegisterWriteRefines DEF Promise!Next
<1>6. CASE UNCHANGED <<service, waiting, ic>>
  <2>1. wlvl' = wlvl /\ Active' = Active /\ Masked' = Masked
    BY <1>6 DEF service, waiting, Active, InService, Masked
  <2> QED
    BY <2>1 DEF Promise!vars, Active, Masked
<1>7. ASSUME RaiseNmi \/ UNCHANGED vars \/ \E c \in Cores : CoreInstruction(c)
      PROVE  UNCHANGED <<service, waiting, ic>>
  BY <1>7 DEF RaiseNmi, vars, service, waiting, CoreInstruction, DiEi, Halt, Trap, FeTrap,
              IllegalOpcodeTrap, EiReturn, FeRet, NmiReturn
<1> QED
  BY <1>1, <1>2, <1>3, <1>4, <1>5, <1>6, <1>7 DEF Next, Instruction, CoreInstruction

(* The controller keeps the promise of PriorityInterrupts.                     *)
THEOREM PromiseKept == Spec => KeepsPromise
<1>1. Init => Promise!Init
  BY InitRefines
<1>2. IInv /\ [Next]_vars => [Promise!Next]_(Promise!vars)
  BY StepRefines
<1> QED
  BY <1>1, <1>2, Invariance, PTL DEF Spec, KeepsPromise, Promise!Spec

-----------------------------------------------------------------------------

(* The history does not change what the controller does.                       *)
LEMMA HistoryIsSilent ==
  /\ HInit => Init
  /\ [HNext]_hvars => [Next]_vars
<1>1. HInit => Init
  BY DEF HInit
<1>2. ASSUME HNext PROVE Next
  <2>1. ASSUME NEW c \in Cores, OtherInstruction(c) PROVE Instruction(c)
    BY <2>1 DEF OtherInstruction, Instruction
  <2>2. ASSUME NEW c \in Cores, NEW i \in MirInts, CpuTrigger(c, i) PROVE Instruction(c)
    BY <2>2 DEF Instruction
  <2> QED
    BY <1>2, <2>1, <2>2 DEF HNext, HClock, Next
<1>3. UNCHANGED hvars => UNCHANGED vars
  BY DEF hvars
<1> QED
  BY <1>1, <1>2, <1>3

(* What a request of j to the cores of S leaves owed.                          *)
Requested(S, j) ==
  \A c \in Cores :
    owed'[c] = IF c \in S /\ j \notin InService(c) THEN owed[c] \cup {j} ELSE owed[c]

(* The kinds of steps, as far as service, requests and the history go.         *)
LEMMA KindsOfSteps ==
  ASSUME [HNext]_hvars
  PROVE  \/ SupplyClock /\ owed' = [c \in Cores |-> IF TakesInt(c) THEN owed[c] \ {Best(c)}
                                                    ELSE owed[c]]
         \/ \E S \in SUBSET Cores, i \in Ints :
              SetWait(S, i) /\ UNCHANGED service /\ Requested(S, i)
         \/ DeviceReset /\ owed' = AllCores({})
         \/ \E c \in Cores : EndService(c) /\ UNCHANGED owed
         \/ UNCHANGED <<service, waiting, owed>>
<1>1. ASSUME NEW i \in Sources, RaiseIntr(i), Owe(Cores, i)
      PROVE  \E S \in SUBSET Cores, j \in Ints :
               SetWait(S, j) /\ UNCHANGED service /\ Requested(S, j)
  <2>1. i \in Ints /\ SetWait(Cores, i) /\ UNCHANGED service
    BY <1>1, IntcAssumption DEF RaiseIntr, CommonRaise
  <2>2. Requested(Cores, i)
    BY <1>1 DEF Owe, Requested
  <2> QED
    BY <2>1, <2>2
<1>2. ASSUME NEW d \in Cores, NEW i \in MirInts, CpuTrigger(d, i), Owe({1 - d}, i)
      PROVE  \E S \in SUBSET Cores, j \in Ints :
               SetWait(S, j) /\ UNCHANGED service /\ Requested(S, j)
  <2> DEFINE S == {1 - d} \cap Cores
  <2>1. i \in Ints /\ SetWait(S, i) /\ UNCHANGED service
    BY <1>2, IntcAssumption DEF CpuTrigger, CommonRaise
  <2>2. Requested(S, i)
    BY <1>2 DEF Owe, Requested
  <2>3. S \in SUBSET Cores
    OBVIOUS
  <2> HIDE DEF S
  <2> QED
    BY <2>1, <2>2, <2>3
<1>3. ASSUME NEW c \in Cores, OtherInstruction(c)
      PROVE  EndService(c) \/ UNCHANGED <<service, waiting>>
  BY <1>3 DEF OtherInstruction, RegisterWrite, WriteIC8, WriteIC8Upper, WriteIC16, WriteIC32,
              WriteIMR8, WriteIMR16, WriteIMR, DiEi, Halt, Trap, FeTrap, IllegalOpcodeTrap,
              EiReturn, FeRet, NmiReturn
<1>4. CASE RaiseNmi /\ UNCHANGED owed
  BY <1>4 DEF RaiseNmi
<1>5. CASE UNCHANGED hvars
  BY <1>5 DEF hvars, vars, service, waiting
<1> QED
  BY <1>1, <1>2, <1>3, <1>4, <1>5 DEF HNext, HClock

(* Service, requests and history left alone leave the agreement alone.         *)
LEMMA SameRequests ==
  ASSUME RequestsWait, NEW c \in Cores, wlvl'[c] = wlvl[c], InService(c)' = InService(c),
         owed'[c] = owed[c]
  PROVE  owed'[c] = {i \in Ints : Waits(c, i)' /\ i \notin InService(c)'}
BY DEF RequestsWait, Waits

(* No step loses a request of an interrupt that is not in service, and none    *)
(* leaves a waiting entry that no request stands behind.                       *)
LEMMA StepRequestsWait ==
  ASSUME IInv, RequestsWait, [HNext]_hvars PROVE RequestsWait'
<1> DEFINE Agree(c) == owed'[c] = {i \in Ints : Waits(c, i)' /\ i \notin InService(c)'}
<1> SUFFICES ASSUME NEW c \in Cores PROVE Agree(c)
  BY DEF RequestsWait
<1>0. /\ wlvl \in [Cores -> [Ints -> 0 .. NumLvl]]
      /\ owed[c] = {i \in Ints : Waits(c, i) /\ i \notin InService(c)}
  BY DEF IInv, TypeOK, RequestsWait
<1>1. CASE SupplyClock /\ owed' = [d \in Cores |-> IF TakesInt(d) THEN owed[d] \ {Best(d)}
                                                   ELSE owed[d]]
  <2>1. \A i \in Ints : Waits(c, i)' <=> Waits(c, i)
    BY <1>1 DEF SupplyClock, waiting, Waits
  <2>2. InService(c)' = InService(c) \cup (IF TakesInt(c) THEN {Best(c)} ELSE {})
    BY <1>1, SupplyClockService
  <2>3. owed'[c] = IF TakesInt(c) THEN owed[c] \ {Best(c)} ELSE owed[c]
    BY <1>1
  <2> QED
    BY <1>0, <2>1, <2>2, <2>3
<1>2. ASSUME NEW S \in SUBSET Cores, NEW j \in Ints, SetWait(S, j), UNCHANGED service,
             Requested(S, j)
      PROVE  Agree(c)
  <2>1. InService(c)' = InService(c)
    BY <1>2 DEF service, InService
  <2>2. wlvl'[c] = IF c \in S /\ ~ Waits(c, j) THEN [wlvl[c] EXCEPT ![j] = ic[c][j].pr]
                   ELSE wlvl[c]
    BY <1>2 DEF SetWait
  <2>3. owed'[c] = IF c \in S /\ j \notin InService(c) THEN owed[c] \cup {j} ELSE owed[c]
    BY <1>2 DEF Requested
  <2>4. ic[c][j].pr # NumLvl
    BY IntcAssumption DEF IInv, TypeOK, Lvls
  <2>5. \A i \in Ints : Waits(c, i)' <=> (Waits(c, i) \/ (c \in S /\ i = j))
    BY <1>0, <2>2, <2>4 DEF Waits
  <2> QED
    BY <1>0, <2>1, <2>3, <2>5
<1>3. CASE DeviceReset /\ owed' = AllCores({})
  BY <1>3 DEF DeviceReset, AllInts, AllCores, Waits
<1>4. ASSUME NEW d \in Cores, EndService(d), UNCHANGED owed
      PROVE  Agree(c)
  <2>1. CASE cur[d] = -1
    BY <1>4, <2>1, SameRequests DEF EndService, service, waiting, InService
  <2>2. CASE cur[d] # -1
    <3>1. /\ wlvl' = [wlvl EXCEPT ![d][cur[d]] = NumLvl] /\ cur[d] \in Ints
          /\ InService(d)' = InService(d) \ {cur[d]}
      BY <1>4, <2>2, EndServiceFacts, EndServiceInService
    <3>2. CASE c # d
      <4>1. InService(c)' = InService(c)
        BY <1>4, <2>2, <3>2, EndServiceFacts DEF InService
      <4>2. wlvl'[c] = wlvl[c]
        BY <1>0, <3>1, <3>2
      <4> QED
        BY <1>4, <4>1, <4>2, SameRequests
    <3>3. CASE c = d
      <4>1. \A i \in Ints : Waits(c, i)' <=> (Waits(c, i) /\ i # cur[c])
        BY <1>0, <3>1, <3>3 DEF Waits
      <4>2. cur[c] \in InService(c)
        BY <2>2, <3>3 DEF InService
      <4> QED
        BY <1>0, <1>4, <3>1, <3>3, <4>1, <4>2
    <3> QED
      BY <3>2, <3>3
  <2> QED
    BY <2>1, <2>2
<1>5. CASE UNCHANGED <<service, waiting, owed>>
  BY <1>5, SameRequests DEF service, waiting, InService
<1> HIDE DEF Agree
<1> QED
  BY <1>1, <1>2, <1>3, <1>4, <1>5, KindsOfSteps

(* An interrupt that a core accepts was waiting, and was not in service.       *)
LEMMA AcceptsWhatWaits ==
  ASSUME IInv, [HNext]_hvars, NEW c \in Cores, Accepts(c)
  PROVE  cur'[c] \in Ints /\ Waits(c, cur'[c]) /\ cur'[c] \notin InService(c)
<1>1. cur'[c] # cur[c] /\ cur'[c] # -1
  BY DEF Accepts
<1>2. CASE SupplyClock
  <2>1. TakesInt(c) /\ cur'[c] = Best(c)
    BY <1>1, <1>2 DEF SupplyClock
  <2>2. Best(c) \in Candidates(c)
    BY <2>1, BestIsLeast DEF TakesInt, IInv
  <2>3. Best(c) \in Promise!Eligible(c)
    BY <2>2, CandidatesAreEligible
  <2>4. Best(c) \in Ints /\ Waits(c, Best(c))
    BY <2>2 DEF Candidates
  <2>5. Best(c) \notin InService(c)
    BY <2>3 DEF Promise!Eligible
  <2> QED
    BY <2>1, <2>4, <2>5
<1>3. ASSUME NEW d \in Cores, EndService(d) PROVE FALSE
  <2>1. CASE cur[d] = -1
    BY <1>3, <2>1 DEF EndService, service, Accepts
  <2>2. CASE cur[d] # -1 /\ d # c
    BY <1>3, <2>2, EndServiceFacts DEF Accepts
  <2>3. CASE cur[d] # -1 /\ d = c
    <3>1. \/ cur'[c] = -1
          \/ Len(stack[c]) \in Nat /\ Len(stack'[c]) = Len(stack[c]) - 1
      BY <1>3, <2>3, EndServiceFacts, InServiceType DEF IInv
    <3> QED
      BY <3>1 DEF Accepts
  <2> QED
    BY <2>1, <2>2, <2>3
<1>4. CASE DeviceReset
  BY <1>1, <1>4 DEF DeviceReset, AllCores
<1>5. CASE UNCHANGED service
  BY <1>1, <1>5 DEF service
<1>6. ASSUME UNCHANGED <<service, waiting, owed>> PROVE UNCHANGED service
  BY <1>6
<1> QED
  BY <1>2, <1>3, <1>4, <1>5, <1>6, KindsOfSteps

(* The structure of Intc is an invariant beside the history as well, and the   *)
(* entries that wait are the requests.                                         *)
LEMMA RequestInvariant == HSpec => [](IInv /\ RequestsWait)
<1>1. HInit => IInv /\ RequestsWait
  <2>1. HInit => IInv
    BY HistoryIsSilent, InitType, InitStructure DEF IInv
  <2>2. HInit => RequestsWait
    BY DEF HInit, Init, AllInts, AllCores, Waits, RequestsWait
  <2> QED
    BY <2>1, <2>2
<1>2. IInv /\ RequestsWait /\ [HNext]_hvars => (IInv /\ RequestsWait)'
  <2>1. IInv /\ [HNext]_hvars => IInv'
    BY HistoryIsSilent, NextType, NextStructure DEF IInv, Structure
  <2> QED
    BY <2>1, StepRequestsWait
<1> QED
  BY <1>1, <1>2, PTL DEF HSpec

(* On every core the entries that wait are the requests it has not answered,   *)
(* on one core or two, for any number of interrupts and levels.                *)
THEOREM EveryRequestWaits == HSpec => []RequestsWait
BY RequestInvariant, PTL

(* A core accepts an interrupt only for a request that came after the last     *)
(* time it accepted that interrupt, on any number of cores.                    *)
THEOREM ServedOnlyOnRequest == HSpec => NoSpuriousService
<1>1. IInv /\ RequestsWait /\ [HNext]_hvars
        => [\A c \in Cores : Accepts(c) => cur'[c] \in owed[c]]_hvars
  BY AcceptsWhatWaits DEF RequestsWait
<1> QED
  BY <1>1, RequestInvariant, PTL DEF HSpec, NoSpuriousService
=============================================================================

-------------------------- MODULE MatrixSessionProofs --------------------------
(*****************************************************************************)
(* Proofs about MatrixSession, for any tabs, any finite set of runs of the     *)
(* effect and any number of faults.                                           *)
(*****************************************************************************)
EXTENDS MatrixSession, FiniteSetTheorems, TLAPS

(* The runs that were given a token, and the devices that were made. *)
Given == {e \in Runs : run[e].token # 0}
Made == {d \in DOMAIN token : token[d] # 0}

(* Every login makes at most one device, and every run logs in at most once. *)
CountInv ==
  /\ \A e \in Runs : run[e].pc \in {"unborn", "info", "mint"} => run[e].token = 0
  /\ Cardinality(Made) <= Cardinality(Given)

(* Who has not been cancelled is the run of a tab, and a machine is starting, was *)
(* left by a client that failed, or is shown by a tab.                           *)
OwnedInv ==
  /\ \A e \in Runs : run[e].pc \in UnderWay \cup {"live"} /\ ~run[e].cancelled =>
                       \E t \in Tabs : current[t] = e
  /\ NoOrphanMachine

(* As long as no two runs were under way before there was a device id: whoever is *)
(* about to log in or to store goes by the id that is stored, or is alone.       *)
FirstInv ==
  ~raced =>
    /\ stored = 0 => \A e, f \in Runs : run[e].pc \in UnderWay /\ run[f].pc \in UnderWay => e = f
    /\ \A e \in Runs :
         /\ run[e].pc \in {"mint", "store"} => run[e].sent = stored
         /\ run[e].pc = "store" => run[e].device # 0
                                   /\ (run[e].sent # 0 => run[e].device = run[e].sent)

IndInv == TypeOK /\ CountInv /\ OwnedInv /\ FirstInv

(* A run of the effect. *)
Run == [pc : Steps, cancelled : BOOLEAN, sent : 0 .. MaxDevices, device : 0 .. MaxDevices,
        token : 0 .. MaxDevices]

LEMMA MaxDevicesType == MaxDevices \in Nat
  BY MatrixSessionAssumption, FS_CardinalityType DEF MaxDevices

LEMMA CountsType ==
  ASSUME TypeOK
  PROVE  /\ IsFiniteSet(Given) /\ Cardinality(Given) \in Nat
         /\ IsFiniteSet(Made) /\ Cardinality(Made) \in Nat
  <1>1. Given \in SUBSET Runs
    BY DEF Given
  <1>2. IsFiniteSet(Given)
    BY <1>1, MatrixSessionAssumption, FS_Subset
  <1>3. Made \in SUBSET (1..MaxDevices)
    BY DEF Made, TypeOK
  <1>4. IsFiniteSet(1..MaxDevices)
    BY MaxDevicesType, FS_Interval
  <1>5. IsFiniteSet(Made)
    BY <1>3, <1>4, FS_Subset
  <1> QED
    BY <1>2, <1>5, FS_CardinalityType

(* A run that is about to log in leaves room for its token and its device. *)
LEMMA MintTypes ==
  ASSUME TypeOK, CountInv, NEW e \in Runs, run[e].pc = "mint"
  PROVE  /\ NextToken = Cardinality(Given) + 1 /\ NextToken \in 1..MaxDevices
         /\ NextDevice = Cardinality(Made) + 1 /\ NextDevice \in 1..MaxDevices
         /\ MintedDevice(e) \in 1..MaxDevices
  <1>1. e \notin Given
    BY DEF CountInv, Given
  <1>2. Given \in SUBSET (Runs \ {e})
    BY <1>1 DEF Given
  <1>3. IsFiniteSet(Runs \ {e}) /\ Cardinality(Runs \ {e}) = MaxDevices - 1
    BY MatrixSessionAssumption, FS_RemoveElement DEF MaxDevices
  <1>4. Cardinality(Given) <= MaxDevices - 1
    BY <1>2, <1>3, FS_Subset
  <1>5. NextToken = Cardinality(Given) + 1 /\ NextDevice = Cardinality(Made) + 1
    BY CountsType DEF NextToken, NextDevice, Given, Made
  <1> QED
    BY <1>4, <1>5, CountsType, MaxDevicesType DEF CountInv, TypeOK, MintedDevice

(* What every step but a login does to the counts: nothing. *)
LEMMA SameCounts ==
  ASSUME CountInv, token' = token,
         \A e \in Runs : /\ run'[e].token = run[e].token
                         /\ run'[e].pc \in {"unborn", "info", "mint"} =>
                              run[e].pc \in {"unborn", "info", "mint"}
  PROVE  CountInv'
  <1>1. Given' = Given /\ Made' = Made
    BY DEF Given, Made
  <1> QED
    BY <1>1 DEF CountInv

(* A login adds one run to those given a token, and at most one device. *)
LEMMA MintCounts ==
  ASSUME TypeOK, CountInv, NEW e \in Runs, Mint(e)
  PROVE  CountInv'
  <1>1. run[e].pc = "mint" /\ NextToken \in 1..MaxDevices /\ MintedDevice(e) \in 1..MaxDevices
    BY MintTypes DEF Mint
  <1>2. \A f \in Runs : run'[f].token = (IF f = e THEN NextToken ELSE run[f].token)
                        /\ (f # e => run'[f].pc = run[f].pc)
                        /\ run'[e].pc \in {"store", "failed"}
    BY DEF Mint, TypeOK
  <1>3. Given' = Given \cup {e} /\ e \notin Given
    BY <1>1, <1>2 DEF Given, CountInv
  <1>4. Cardinality(Given') = Cardinality(Given) + 1
    BY <1>3, CountsType, FS_AddElement
  <1>5. Made' \in SUBSET (Made \cup {MintedDevice(e)})
    BY <1>1 DEF Made, Mint, TypeOK
  <1>6. IsFiniteSet(Made \cup {MintedDevice(e)})
        /\ Cardinality(Made \cup {MintedDevice(e)}) <= Cardinality(Made) + 1
    <2>1. IsFiniteSet(Made) /\ Cardinality(Made) \in Nat
      BY CountsType
    <2>2. /\ IsFiniteSet(Made \cup {MintedDevice(e)})
          /\ Cardinality(Made \cup {MintedDevice(e)}) =
               IF MintedDevice(e) \in Made THEN Cardinality(Made) ELSE Cardinality(Made) + 1
      BY <2>1, FS_AddElement
    <2> QED
      BY <2>1, <2>2
  <1>7. IsFiniteSet(Made') /\ Cardinality(Made') <= Cardinality(Made \cup {MintedDevice(e)})
    BY <1>5, <1>6, FS_Subset
  <1>8. Cardinality(Made') <= Cardinality(Given')
    BY <1>4, <1>6, <1>7, CountsType, FS_CardinalityType DEF CountInv
  <1> QED
    BY <1>2, <1>8 DEF CountInv

(* Types and counts depend on each other: room for a token is what keeps it typed. *)
LEMMA TypeStep ==
  ASSUME TypeOK, CountInv, [Next]_vars
  PROVE  TypeOK' /\ CountInv'
  <1> USE MaxDevicesType, MatrixSessionAssumption DEF TypeOK, Steps
  <1>1. ASSUME NEW e \in Runs, Info(e)
        PROVE  TypeOK' /\ CountInv'
    <2>1. stored \in 0..MaxDevices /\ (IF run[e].cancelled THEN "over" ELSE "mint") \in Steps
      OBVIOUS
    <2>2. TypeOK'
      <3> DEFINE q == [run[e] EXCEPT !.pc = IF run[e].cancelled THEN "over" ELSE "mint", !.sent = stored]
      <3>1. run[e] \in Run
        BY DEF Run
      <3>2. q \in Run
        BY <2>1, <3>1 DEF Run
      <3>3. run' = [run EXCEPT ![e] = q]
        BY <1>1 DEF Info
      <3>4. run' \in [Runs -> Run]
        BY <3>2, <3>3 DEF Run
      <3> QED
        BY <1>1, <3>4 DEF Info, Run
    <2>3. CountInv'
      BY <1>1, SameCounts DEF Info
    <2> QED
      BY <2>2, <2>3
  <1>2. ASSUME NEW e \in Runs, InfoUnavailable(e)
        PROVE  TypeOK' /\ CountInv'
    BY <1>2, SameCounts DEF InfoUnavailable, Goto
  <1>3. ASSUME NEW e \in Runs, Mint(e)
        PROVE  TypeOK' /\ CountInv'
    <2>1. NextToken \in 1..MaxDevices /\ MintedDevice(e) \in 1..MaxDevices
      BY <1>3, MintTypes DEF Mint
    <2>2. NextToken \in 0..MaxDevices /\ MintedDevice(e) \in 0..MaxDevices
      BY <2>1
    <2>3. run' \in [Runs -> Run]
      <3>1. PICK answered \in BOOLEAN :
              run' = [run EXCEPT ![e].pc = IF answered THEN "store" ELSE "failed",
                                 ![e].device = MintedDevice(e), ![e].token = NextToken]
        BY <1>3 DEF Mint
      <3> DEFINE q == [run[e] EXCEPT !.pc = IF answered THEN "store" ELSE "failed",
                                     !.device = MintedDevice(e), !.token = NextToken]
      <3>2. run[e] \in Run
        BY DEF Run
      <3>3. q \in Run
        BY <2>2, <3>2 DEF Run
      <3>4. run' = [run EXCEPT ![e] = q]
        BY <3>1
      <3> QED
        BY <3>3, <3>4 DEF Run
    <2>4. token' \in [1 .. MaxDevices -> 0 .. MaxDevices]
      BY <1>3, <2>1, <2>2 DEF Mint
    <2>5. faults' \in 0 .. MaxFaults
      BY <1>3 DEF Mint, Fault
    <2>6. TypeOK'
      BY <1>3, <2>3, <2>4, <2>5 DEF Mint, Run
    <2> QED
      BY <1>3, <2>6, MintCounts
  <1>4. ASSUME NEW e \in Runs, Store(e)
        PROVE  TypeOK' /\ CountInv'
    BY <1>4, SameCounts DEF Store, Unless, Goto
  <1>5. ASSUME NEW e \in Runs, Import(e)
        PROVE  TypeOK' /\ CountInv'
    BY <1>5, SameCounts DEF Import, Unless, Goto
  <1>6. ASSUME NEW e \in Runs, InitRustCrypto(e)
        PROVE  TypeOK' /\ CountInv'
    BY <1>6, SameCounts DEF InitRustCrypto, Goto
  <1>7. ASSUME NEW e \in Runs, Started(e)
        PROVE  TypeOK' /\ CountInv'
    BY <1>7, SameCounts DEF Started, Unless, Goto
  <1>8. ASSUME NEW e \in Runs, Fails(e)
        PROVE  TypeOK' /\ CountInv'
    <2>1. TypeOK'
      <3>1. faults' \in 0 .. MaxFaults
        BY <1>8 DEF Fails, Fault
      <3>2. run' \in [Runs -> Run]
        BY <1>8 DEF Fails, Goto, Run
      <3> QED
        BY <1>8, <3>1, <3>2 DEF Fails, Run
    <2>2. CountInv'
      BY <1>8, SameCounts DEF Fails, Goto
    <2> QED
      BY <2>1, <2>2
  <1>9. ASSUME NEW e \in Runs, NEW t \in Tabs, Mount(t, e)
        PROVE  TypeOK' /\ CountInv'
    BY <1>9, SameCounts DEF Mount, Goto
  <1>10. ASSUME NEW t \in Tabs, Unmount(t)
         PROVE  TypeOK' /\ CountInv'
    <2>1. current[t] \in Runs
      BY <1>10 DEF Unmount
    <2>2. run' \in [Runs -> Run]
      BY <1>10, <2>1 DEF Unmount, Run
    <2>3. machines' \subseteq Runs /\ current' \in [Tabs -> Runs \cup {NoRun}]
      BY <1>10, <2>1 DEF Unmount
    <2>4. TypeOK'
      BY <1>10, <2>2, <2>3 DEF Unmount, Run
    <2>5. CountInv'
      BY <1>10, <2>1, SameCounts DEF Unmount
    <2> QED
      BY <2>4, <2>5
  <1>11. CASE UNCHANGED vars
    BY <1>11, SameCounts DEF vars
  <1> QED
    BY <1>1, <1>2, <1>3, <1>4, <1>5, <1>6, <1>7, <1>8, <1>9, <1>10, <1>11 DEF Next, Step

(* The cleanup takes the tab's run with it; a start that ends looks whether it was. *)
LEMMA OwnedStep ==
  ASSUME TypeOK, OwnedInv, [Next]_vars
  PROVE  OwnedInv'
  <1> USE MatrixSessionAssumption DEF TypeOK, OwnedInv, NoOrphanMachine, UnderWay
  <1>1. ASSUME NEW e \in Runs, Info(e)
        PROVE  OwnedInv'
    BY <1>1 DEF Info
  <1>2. ASSUME NEW e \in Runs, InfoUnavailable(e)
        PROVE  OwnedInv'
    BY <1>2 DEF InfoUnavailable, Goto
  <1>3. ASSUME NEW e \in Runs, Mint(e)
        PROVE  OwnedInv'
    BY <1>3 DEF Mint
  <1>4. ASSUME NEW e \in Runs, Store(e)
        PROVE  OwnedInv'
    BY <1>4 DEF Store, Unless, Goto
  <1>5. ASSUME NEW e \in Runs, Import(e)
        PROVE  OwnedInv'
    BY <1>5 DEF Import, Unless, Goto
  <1>6. ASSUME NEW e \in Runs, InitRustCrypto(e)
        PROVE  OwnedInv'
    BY <1>6 DEF InitRustCrypto, Goto
  <1>7. ASSUME NEW e \in Runs, Started(e)
        PROVE  OwnedInv'
    BY <1>7 DEF Started, Unless, Goto
  <1>8. ASSUME NEW e \in Runs, Fails(e)
        PROVE  OwnedInv'
    BY <1>8 DEF Fails, Goto
  <1>9. ASSUME NEW e \in Runs, NEW t \in Tabs, Mount(t, e)
        PROVE  OwnedInv'
    BY <1>9 DEF Mount, Goto
  <1>10. ASSUME NEW t \in Tabs, Unmount(t)
         PROVE  OwnedInv'
    BY <1>10 DEF Unmount
  <1>11. CASE UNCHANGED vars
    BY <1>11 DEF vars
  <1> QED
    BY <1>1, <1>2, <1>3, <1>4, <1>5, <1>6, <1>7, <1>8, <1>9, <1>10, <1>11 DEF Next, Step

(* The id is read after the instance has answered, and minted for whoever read none. *)
LEMMA FirstStep ==
  ASSUME TypeOK, CountInv, FirstInv, [Next]_vars
  PROVE  FirstInv'
  <1> USE MatrixSessionAssumption DEF TypeOK, FirstInv, UnderWay
  <1>1. ASSUME NEW e \in Runs, Info(e)
        PROVE  FirstInv'
    BY <1>1 DEF Info
  <1>2. ASSUME NEW e \in Runs, InfoUnavailable(e)
        PROVE  FirstInv'
    BY <1>2 DEF InfoUnavailable, Goto
  <1>3. ASSUME NEW e \in Runs, Mint(e)
        PROVE  FirstInv'
    <2>1. MintedDevice(e) \in 1..MaxDevices
      BY <1>3, MintTypes DEF Mint
    <2>2. MintedDevice(e) # 0
      BY <2>1, MaxDevicesType
    <2>3. run[e].sent # 0 => MintedDevice(e) = run[e].sent
      BY DEF MintedDevice
    <2> QED
      BY <1>3, <2>2, <2>3 DEF Mint
  <1>4. ASSUME NEW e \in Runs, Store(e)
        PROVE  FirstInv'
    BY <1>4 DEF Store, Unless, Goto
  <1>5. ASSUME NEW e \in Runs, Import(e)
        PROVE  FirstInv'
    BY <1>5 DEF Import, Unless, Goto
  <1>6. ASSUME NEW e \in Runs, InitRustCrypto(e)
        PROVE  FirstInv'
    BY <1>6 DEF InitRustCrypto, Goto
  <1>7. ASSUME NEW e \in Runs, Started(e)
        PROVE  FirstInv'
    BY <1>7 DEF Started, Unless, Goto
  <1>8. ASSUME NEW e \in Runs, Fails(e)
        PROVE  FirstInv'
    BY <1>8 DEF Fails, Goto
  <1>9. ASSUME NEW e \in Runs, NEW t \in Tabs, Mount(t, e)
        PROVE  FirstInv'
    BY <1>9 DEF Mount, Goto
  <1>10. ASSUME NEW t \in Tabs, Unmount(t)
         PROVE  FirstInv'
    BY <1>10 DEF Unmount
  <1>11. CASE UNCHANGED vars
    BY <1>11 DEF vars
  <1> QED
    BY <1>1, <1>2, <1>3, <1>4, <1>5, <1>6, <1>7, <1>8, <1>9, <1>10, <1>11 DEF Next, Step

LEMMA InitHolds == Init => IndInv
  <1> SUFFICES ASSUME Init
               PROVE  IndInv
    OBVIOUS
  <1>1. TypeOK
    <2>1. 0 \in 0..MaxDevices /\ 0 \in 0..MaxFaults
      BY MaxDevicesType, MatrixSessionAssumption
    <2> QED
      BY <2>1 DEF Init, TypeOK, Steps
  <1>2. Given = {} /\ Made = {}
    BY MaxDevicesType DEF Init, Given, Made
  <1>3. CountInv
    BY <1>2, FS_EmptySet DEF CountInv, Init
  <1> QED
    BY <1>1, <1>3 DEF Init, IndInv, OwnedInv, NoOrphanMachine, FirstInv, UnderWay

(* The inductive invariant holds for any tabs, runs and faults. *)
THEOREM IndInvHolds == Spec => []IndInv
  <1>1. IndInv /\ [Next]_vars => IndInv'
    BY TypeStep, OwnedStep, FirstStep DEF IndInv
  <1> QED
    BY InitHolds, <1>1, PTL DEF Spec

(* Every reachable state is well-typed; in particular no more devices are made than *)
(* there were runs of the effect.                                                 *)
THEOREM TypesHold == Spec => []TypeOK
  <1>1. IndInv => TypeOK
    BY DEF IndInv
  <1> QED
    BY IndInvHolds, <1>1, PTL

(* No machine is left on the store without a hook that will stop it, whenever runs *)
(* are cancelled or fail.                                                         *)
THEOREM NoOrphanMachineHolds == Spec => []NoOrphanMachine
  <1>1. IndInv => NoOrphanMachine
    BY DEF IndInv, OwnedInv
  <1> QED
    BY IndInvHolds, <1>1, PTL

(* The browser stays one device unless two first runs overlapped.  Storing is the  *)
(* only step that writes the id, and what is stored is what had been sent.         *)
THEOREM DeviceKeptHolds == Spec => DeviceKept
  <1>1. ASSUME IndInv, [Next]_vars, stored # 0, ~raced'
        PROVE  stored' = stored
    <2>1. CASE UNCHANGED stored
      BY <2>1
    <2>2. ASSUME NEW e \in Runs, Store(e)
          PROVE  stored' = stored
      BY <1>1, <2>2 DEF Store, IndInv, FirstInv
    <2> QED
      BY <1>1, <2>1, <2>2
         DEF Next, Step, vars, Info, InfoUnavailable, Mint, Import, InitRustCrypto, Started, Fails,
             Mount, Unmount
  <1>2. IndInv /\ [Next]_vars => [stored # 0 /\ ~raced' => stored' = stored]_vars
    BY <1>1
  <1> QED
    BY IndInvHolds, <1>2, PTL DEF Spec, DeviceKept
================================================================================

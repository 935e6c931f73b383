----------------------------- MODULE BootProofs -----------------------------
(***************************************************************************)
(* Theorems about Boot, for any number of deliveries and starts.           *)
(*                                                                         *)
(* That a handoff is single-use is not inductive: it holds because a       *)
(* delivery that stood behind a payload has left no file behind, which in  *)
(* turn holds because PID 1 gets past the unlinking only without the files *)
(* or without a payload to come.  BootInv says that of every stage.        *)
(***************************************************************************)
EXTENDS Boot, TLAPS

Late == {"shredding", "serving", "payload"}

UsedLeftNothing ==
  \A d \in Delivery : used[d] > 0 => d <= minted /\ \A f \in File : file[f].of # d

BootInv ==
  /\ BootTypeOK
  /\ \A f \in File : file[f].of <= minted
  /\ UsedLeftNothing
  /\ todo # {} => init \in Down /\ minted \in Delivery /\ used[minted] = 0
  /\ init = "verifying" => \A f \in File : held[f] = file[f].of /\ file[f] # Absent
  /\ init \in Late => held["leaf.token"] \in sound /\ \A f \in File : held[f] = held["leaf.token"]
  /\ init = "shredding" => \A f \in File : file[f] = Absent \/ file[f].of = held[f]
  /\ sound \subseteq 1..minted
  /\ init \in {"shredding", "serving"} => used[held["leaf.token"]] = 0
  /\ init = "serving" => ~Unlinkable \/ \A f \in File : file[f] = Absent
  /\ init = "payload" => \A f \in File : file[f] = Absent
  /\ SingleUse

LEMMA BootInitially == Init => BootInv
<1> SUFFICES ASSUME Init PROVE BootInv
  OBVIOUS
<1>1. Absent \in [of : 0..MaxDeliveries, whole : BOOLEAN]
  BY BootAssumption DEF Absent
<1>2. BootTypeOK
  <2>1. file \in [File -> [of : 0..MaxDeliveries, whole : BOOLEAN]]
    BY <1>1 DEF Init
  <2>2. held \in [File -> 0..MaxDeliveries] /\ used \in [Delivery -> Nat]
    BY BootAssumption DEF Init, Nothing
  <2>3. owned \in BOOLEAN
    BY ZenonT(10) DEF Init
  <2> QED
    BY <2>1, <2>2, <2>3, BootAssumption DEF Init, BootTypeOK, Down
<1>3. UsedLeftNothing /\ SingleUse
  BY DEF Init, UsedLeftNothing, SingleUse
<1> QED
  BY <1>2, <1>3 DEF Init, BootInv, Absent, Down, Late

LEMMA BootStep ==
  ASSUME "files" \notin Mounts, BootInv, [Next]_vars
  PROVE  BootInv'
<1> USE BootAssumption DEF BootInv, BootTypeOK, Unlinkable
<1>1. CASE Mint
  BY <1>1 DEF Mint, Delivery, Down, Late, SingleUse, UsedLeftNothing
<1>2. ASSUME NEW f \in File, HelperWrites(f)
      PROVE  BootInv'
  BY <1>2 DEF HelperWrites, NextFile, Steps, Delivery, Down, Late, SingleUse, UsedLeftNothing, Absent
<1>2a. CASE HelperHandsOver
  BY <1>2a DEF HelperHandsOver, NextFile, Delivery, Down, Late, SingleUse, UsedLeftNothing
<1>3. ASSUME NEW f \in Steps, HelperDies(f)
      PROVE  BootInv'
  <2>1. /\ init \in Down /\ todo # {} /\ minted \in Delivery
        /\ used[minted] = 0
        /\ todo' = {}
        /\ UNCHANGED <<mount, minted, sound, owned, init, held, starts, used>>
    BY <1>3 DEF HelperDies, NextFile
  <2>2. /\ file' \in [File -> [of : 0..MaxDeliveries, whole : BOOLEAN]]
        /\ \A g \in File : file'[g].of \in {minted, file[g].of}
    <3>1. CASE UNCHANGED file
      BY <3>1
    <3>2. CASE file' = [file EXCEPT ![f] = [of |-> minted, whole |-> FALSE]]
      <4>1. [of |-> minted, whole |-> FALSE] \in [of : 0..MaxDeliveries, whole : BOOLEAN]
        BY <2>1 DEF Delivery
      <4>2. QED
        BY <3>2, <4>1
    <3>3. QED
      BY <1>3, <3>1, <3>2 DEF HelperDies
  <2>3. BootTypeOK'
    BY <2>1, <2>2
  <2>4. UsedLeftNothing'
    BY <2>1, <2>2 DEF Delivery, UsedLeftNothing
  <2>5. QED
    BY <2>1, <2>2, <2>3, <2>4 DEF Down, Late, SingleUse, UsedLeftNothing
<1>4. CASE Start
  BY <1>4 DEF Start, volume, Nothing, Down, Late, SingleUse, UsedLeftNothing
<1>5. CASE ReadHandoff
  BY <1>5 DEF ReadHandoff, volume, Down, Late, SingleUse, UsedLeftNothing
<1>6. CASE VerifyBoot
  BY <1>6 DEF VerifyBoot, Verifies, volume, Down, Late, File, Delivery, SingleUse, UsedLeftNothing
<1>7. ASSUME NEW f \in File, Unlinks(f)
      PROVE  BootInv'
  <2>1. /\ init = "shredding"
        /\ UNCHANGED <<mount, minted, sound, owned, todo, init, held, starts, used>>
        /\ file' = [file EXCEPT ![f] = Absent]
    BY <1>7 DEF Unlinks
  <2>2. /\ file' \in [File -> [of : 0..MaxDeliveries, whole : BOOLEAN]]
        /\ \A g \in File : file'[g] \in {Absent, file[g]}
    BY <2>1 DEF Absent
  <2>3. BootTypeOK'
    BY <2>1, <2>2
  <2>4. \A g \in File : file'[g].of <= minted'
    BY <2>1, <2>2 DEF Absent
  <2>5. UsedLeftNothing'
    BY <2>1, <2>2 DEF UsedLeftNothing, Absent, Delivery
  <2>6. QED
    BY <2>1, <2>2, <2>3, <2>4, <2>5 DEF Down, Late, SingleUse, UsedLeftNothing
<1>8. CASE Connects
  BY <1>8 DEF Connects, Unlinkable, volume, Down, Late, SingleUse, UsedLeftNothing
<1>9. CASE Serves
  <2>1. CASE ~Bindable
    BY <1>9, <2>1 DEF Serves, volume, Down, Late, SingleUse, UsedLeftNothing
  <2>2. CASE Bindable
    <3> DEFINE d == held["leaf.token"]
    <3>1. /\ init = "serving" /\ init' = "payload"
          /\ used' = [used EXCEPT ![d] = @ + 1]
          /\ UNCHANGED <<mount, file, minted, sound, owned, todo, held, starts>>
          /\ \A f \in File : file[f] = Absent
      BY <1>9, <2>2 DEF Serves, volume, Bindable
    <3>2. d \in Delivery /\ d \in sound /\ used[d] = 0 /\ d <= minted
      <4>1. d \in sound /\ used[d] = 0
        BY <3>1 DEF Late
      <4>2. d \in Delivery /\ d \in 1..minted /\ minted \in Nat
        <5>1. sound \subseteq Delivery /\ sound \subseteq 1..minted
          OBVIOUS
        <5>2. minted \in Nat
          OBVIOUS
        <5>3. QED
          BY <4>1, <5>1, <5>2
      <4>3. QED
        BY <4>1, <4>2
    <3>3. /\ used' \in [Delivery -> Nat]
          /\ used'[d] = 1
          /\ \A b \in Delivery \ {d} : used'[b] = used[b]
      BY <3>1, <3>2
    <3>4. UsedLeftNothing'
      BY <3>1, <3>2, <3>3 DEF UsedLeftNothing, Absent, Delivery
    <3>5. SingleUse'
      BY <3>2, <3>3 DEF SingleUse
    <3>6. BootTypeOK'
      BY <3>1, <3>3
    <3>7. QED
      BY <3>1, <3>2, <3>3, <3>4, <3>5, <3>6 DEF Down, Late
  <2>3. QED
    BY <2>1, <2>2
<1>10. CASE PayloadEnds \/ Crash
  BY <1>10 DEF PayloadEnds, Crash, volume, Down, Late, SingleUse, UsedLeftNothing
<1>11. CASE UNCHANGED vars
  BY <1>11 DEF vars, Down, Late, SingleUse, UsedLeftNothing
<1>12. QED
  BY <1>1, <1>2, <1>2a, <1>3, <1>4, <1>5, <1>6, <1>7, <1>8, <1>9, <1>10, <1>11 DEF Next, Done

(* BootInv holds of every behaviour, unless each file is a mount of its    *)
(* own, which no unlink can remove.                                        *)
LEMMA BootInductive ==
  ASSUME "files" \notin Mounts
  PROVE  Spec => []BootInv
<1>1. Init => BootInv
  BY BootInitially
<1>2. BootInv /\ [Next]_vars => BootInv'
  BY BootStep
<1>3. QED
  BY <1>1, <1>2, PTL DEF Spec

(* Type correctness of the boot and the volume.                            *)
THEOREM BootTyped ==
  ASSUME "files" \notin Mounts
  PROVE  Spec => []BootTypeOK
<1>1. BootInv => BootTypeOK
  BY DEF BootInv
<1>2. QED
  BY <1>1, BootInductive, PTL

(* However deliveries break off on the volume and however often it is      *)
(* booted, a payload runs behind one verified identity.                    *)
THEOREM OneIdentity ==
  ASSUME "files" \notin Mounts
  PROVE  Spec => []PayloadBehindOneIdentity
<1>1. BootInv => PayloadBehindOneIdentity
  BY DEF BootInv, PayloadBehindOneIdentity, Late
<1>2. QED
  BY <1>1, BootInductive, PTL

(* No file of the handoff is beside a running payload.                     *)
THEOREM KeysGone ==
  ASSUME "files" \notin Mounts
  PROVE  Spec => []NoKeysBesidePayload
<1>1. BootInv => NoKeysBesidePayload
  BY DEF BootInv, NoKeysBesidePayload
<1>2. QED
  BY <1>1, BootInductive, PTL

(* No delivery stands behind two payloads, across crashes and restarts.    *)
THEOREM HandoffSingleUse ==
  ASSUME "files" \notin Mounts
  PROVE  Spec => []SingleUse
<1>1. BootInv => SingleUse
  BY DEF BootInv
<1>2. QED
  BY <1>1, BootInductive, PTL

(* A file goes only in a start that holds its delivery and found it sound  *)
(* (ShredOnlyWhatIsHeld).                                                  *)
THEOREM NoIdentityIsLost ==
  ASSUME "files" \notin Mounts
  PROVE  Spec => ShredOnlyWhatIsHeld
<1>1. ASSUME BootInv, [Next]_vars, NEW f \in File, file[f] # Absent, file'[f] = Absent
      PROVE  /\ held[f] = file[f].of
             /\ \A g \in File : held[g] = held[f]
             /\ held[f] \in sound
  <2>0. file \in [File -> [of : 0..MaxDeliveries, whole : BOOLEAN]]
    BY <1>1 DEF BootInv, BootTypeOK
  <2>1. \A g \in File : ~HelperWrites(g)
    <3> SUFFICES ASSUME NEW g \in File, HelperWrites(g) PROVE FALSE
      OBVIOUS
    <3>1. file' = [file EXCEPT ![g] = [of |-> minted, whole |-> TRUE]] /\ todo # {}
      BY DEF HelperWrites, NextFile
    <3>2. minted \in Nat \ {0}
      BY <1>1, <3>1, BootAssumption DEF BootInv, Delivery
    <3> QED
      BY <1>1, <2>0, <3>1, <3>2 DEF Absent
  <2>2. \A g \in Steps : ~HelperDies(g)
    <3> SUFFICES ASSUME NEW g \in Steps, HelperDies(g) PROVE FALSE
      OBVIOUS
    <3>1. file' = [file EXCEPT ![g] = [of |-> minted, whole |-> FALSE]]
      BY <1>1 DEF HelperDies
    <3> QED
      BY <1>1, <2>0, <3>1 DEF Absent
  <2>3. init = "shredding"
    <3>1. file' # file
      BY <1>1
    <3> QED
      BY <1>1, <2>1, <2>2, <3>1
      DEF Next, Mint, HelperHandsOver, Start, ReadHandoff, VerifyBoot, Unlinks, Connects, Serves, PayloadEnds,
          Crash, Done, vars, volume
  <2> QED
    BY <1>1, <2>3 DEF BootInv, Late
<1>2. BootInv /\ [Next]_vars =>
        [\A f \in File :
           file[f] # Absent /\ file'[f] = Absent =>
             /\ held[f] = file[f].of
             /\ \A g \in File : held[g] = held[f]
             /\ held[f] \in sound]_vars
  BY <1>1
<1>3. QED
  BY <1>2, BootInductive, PTL DEF Spec, ShredOnlyWhatIsHeld
=============================================================================

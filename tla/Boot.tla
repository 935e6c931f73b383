-------------------------------- MODULE Boot --------------------------------
(***************************************************************************)
(* A citizen from the delivery of its handoff to the start of its payload  *)
(* (platform/base/l0/init.py main() up to the descriptor, read_handoff,    *)
(* shred_handoff; platform/harness/spawn.py _deliver_handoff).             *)
(*                                                                         *)
(* The spawner's helper writes three files into a volume, one by one, and  *)
(* last hands the directory over, without which the citizen may read and   *)
(* not unlink; the container then checks, reads, verifies and unlinks them, connects to    *)
(* the bus, binds its socket in the same directory and goes on to the      *)
(* payload.  The helper may die between two bytes and the container at any *)
(* moment; the volume survives both, is delivered to again and booted from *)
(* again.  A delivery is identified by its number: files of two deliveries *)
(* carry different keys.                                                   *)
(***************************************************************************)
EXTENDS Naturals, FiniteSets

CONSTANTS
  MaxDeliveries,  \* bound: handoffs minted for the volume
  MaxStarts,      \* bound: starts of the container
  Mounts          \* \subseteq {"volume", "readonly", "files"}

ASSUME BootAssumption ==
  /\ MaxDeliveries \in Nat
  /\ MaxStarts \in Nat
  /\ Mounts \subseteq {"volume", "readonly", "files"}

File == {"leaf.cred", "leaf.token", "chain.pub"}
Steps == File \cup {"chown"}
Delivery == 1..MaxDeliveries

VARIABLES
  mount,     \* how the three files are mounted at /run/l0
  file,      \* what each of them holds: the delivery it is of, and whether whole
  minted,    \* handoffs minted so far
  sound,     \* the deliveries whose chain and lease verify
  owned,     \* whether the volume's directory is the citizen's
  todo,      \* what the helper has still to do
  init,      \* where PID 1 stands
  held,      \* the delivery of each file it has in memory
  starts,    \* starts of the container so far
  used       \* how many payloads each delivery has stood behind

vars == <<mount, file, minted, sound, owned, todo, init, held, starts, used>>
volume == <<mount, file, minted, sound, owned, todo>>

Absent == [of |-> 0, whole |-> TRUE]
Nothing == [f \in File |-> 0]
Down == {"none", "refused78", "refused77", "refused76", "crashed", "returned"}

Init ==
  /\ mount \in Mounts
  /\ file = [f \in File |-> Absent]
  /\ minted = 0
  /\ sound = {}
  /\ owned = FALSE
  /\ todo = {}
  /\ init = "none"
  /\ held = Nothing
  /\ starts = 0
  /\ used = [d \in Delivery |-> 0]

-----------------------------------------------------------------------------
(* The spawner delivers while no container runs on the volume; a minted    *)
(* chain may be broken or its lease past its time.                         *)
Mint ==
  /\ init \in Down
  /\ minted < MaxDeliveries
  /\ minted' = minted + 1
  /\ \E ok \in BOOLEAN : sound' = IF ok THEN sound \cup {minted + 1} ELSE sound
  /\ todo' = Steps
  /\ UNCHANGED <<mount, file, owned, init, held, starts, used>>

Order(f) == CASE f = "leaf.cred" -> 1 [] f = "leaf.token" -> 2 [] f = "chain.pub" -> 3
              [] f = "chown" -> 4

NextFile(f) == f \in todo /\ \A g \in todo : Order(f) <= Order(g)

HelperWrites(f) ==
  /\ init \in Down
  /\ NextFile(f)
  /\ file' = [file EXCEPT ![f] = [of |-> minted, whole |-> TRUE]]
  /\ todo' = todo \ {f}
  /\ UNCHANGED <<mount, minted, sound, owned, init, held, starts, used>>

(* os.chown(d, ...) *)
HelperHandsOver ==
  /\ init \in Down
  /\ NextFile("chown")
  /\ owned' = TRUE
  /\ todo' = {}
  /\ UNCHANGED <<mount, file, minted, sound, init, held, starts, used>>

(* The helper dies, before or in the middle of a file, or with the files   *)
(* written.                                                                *)
HelperDies(f) ==
  /\ init \in Down
  /\ NextFile(f)
  /\ \/ f \in File /\ file' = [file EXCEPT ![f] = [of |-> minted, whole |-> FALSE]]
     \/ UNCHANGED file
  /\ todo' = {}
  /\ UNCHANGED <<mount, minted, sound, owned, init, held, starts, used>>

-----------------------------------------------------------------------------
(* The container starts on whatever the volume holds. *)
Start ==
  /\ init \in Down
  /\ todo = {}
  /\ starts < MaxStarts
  /\ starts' = starts + 1
  /\ init' = "reading"
  /\ held' = Nothing
  /\ UNCHANGED <<volume, used>>

(* read_handoff: all three must be there and parse, else exit 78. *)
ReadHandoff ==
  /\ init = "reading"
  /\ IF \E f \in File : file[f] = Absent \/ ~file[f].whole
     THEN init' = "refused78" /\ UNCHANGED held
     ELSE init' = "verifying" /\ held' = [f \in File |-> file[f].of]
  /\ UNCHANGED <<volume, starts, used>>

(* Defect form: the token is not compared with the presenting leaf.        *)
VerifiesAnyLeaf ==
  /\ held["leaf.token"] = held["chain.pub"]
  /\ held["leaf.token"] \in sound

(* verify_boot on what is held: the token's signature is checked with a    *)
(* key of the chain, its leaf with the key of the credential.              *)
Verifies ==
  /\ held["leaf.token"] = held["chain.pub"]
  /\ held["leaf.token"] = held["leaf.cred"]
  /\ held["leaf.token"] \in sound

(* Defect form: the verdict comes after the files are gone.                *)
VerifyBootShredding ==
  /\ init = "verifying"
  /\ init' = "shredding"
  /\ UNCHANGED <<volume, held, starts, used>>

VerifyBoot ==
  /\ init = "verifying"
  /\ init' = IF Verifies THEN "shredding" ELSE "refused77"
  /\ UNCHANGED <<volume, held, starts, used>>

Unlinkable == mount = "volume" /\ owned

(* shred_handoff unlinks one file after the other.  What unlink raises is  *)
(* logged and nothing else.                                                *)
Unlinks(f) ==
  /\ init = "shredding"
  /\ Unlinkable
  /\ file[f] # Absent
  /\ \A g \in File : Order(g) < Order(f) => file[g] = Absent
  /\ file' = [file EXCEPT ![f] = Absent]
  /\ UNCHANGED <<mount, minted, sound, owned, todo, init, held, starts, used>>

(* Defect form: the files are unlinked after the connection stands, so the *)
(* loop is still to come when the payload starts.                          *)
ConnectsUnshredded ==
  /\ init = "shredding"
  /\ \E r \in {"serving", "refused76"} : init' = r
  /\ UNCHANGED <<volume, held, starts, used>>

(* The loop is over; the bus is reached or not (exit 76). *)
Connects ==
  /\ init = "shredding"
  /\ Unlinkable => \A f \in File : file[f] = Absent
  /\ \E r \in {"serving", "refused76"} : init' = r
  /\ UNCHANGED <<volume, held, starts, used>>

(* Defect form: the socket is bound under /tmp instead.                    *)
ServesElsewhere ==
  /\ init = "serving"
  /\ init' = "payload"
  /\ used' = [used EXCEPT ![held["leaf.token"]] = @ + 1]
  /\ UNCHANGED <<volume, held, starts>>

Bindable == mount = "files" \/ Unlinkable

(* agent.serve() binds agent.sock in the handoff's own directory, which    *)
(* raises where nothing can be created; then the payload may start.        *)
Serves ==
  /\ init = "serving"
  /\ IF ~Bindable
     THEN init' = "crashed" /\ UNCHANGED used
     ELSE /\ init' = "payload"
          /\ used' = [used EXCEPT ![held["leaf.token"]] = @ + 1]
  /\ UNCHANGED <<volume, held, starts>>

PayloadEnds ==
  /\ init = "payload"
  /\ init' = "returned"
  /\ UNCHANGED <<volume, held, starts, used>>

(* The container is killed, or an exception nobody catches ends it. *)
Crash ==
  /\ init \notin Down
  /\ init' = "crashed"
  /\ UNCHANGED <<volume, held, starts, used>>

(* Nothing is left to mint, to write or to start. *)
Done ==
  /\ init \in Down
  /\ minted = MaxDeliveries
  /\ todo = {}
  /\ starts = MaxStarts
  /\ UNCHANGED vars

Next ==
  \/ Mint
  \/ \E f \in File : HelperWrites(f)
  \/ HelperHandsOver
  \/ \E f \in Steps : HelperDies(f)
  \/ Start \/ ReadHandoff \/ VerifyBoot
  \/ \E f \in File : Unlinks(f)
  \/ Connects \/ Serves \/ PayloadEnds \/ Crash
  \/ Done

Spec == Init /\ [][Next]_vars

-----------------------------------------------------------------------------
BootTypeOK ==
  /\ mount \in Mounts
  /\ file \in [File -> [of : 0..MaxDeliveries, whole : BOOLEAN]]
  /\ minted \in 0..MaxDeliveries
  /\ sound \subseteq Delivery
  /\ owned \in BOOLEAN
  /\ todo \subseteq Steps
  /\ init \in Down \cup {"reading", "verifying", "shredding", "serving", "payload"}
  /\ held \in [File -> 0..MaxDeliveries]
  /\ starts \in Nat
  /\ used \in [Delivery -> Nat]

(* A payload runs only behind three files of one and the same delivery     *)
(* whose chain verified, whatever deliveries broke off on the volume and   *)
(* however often it was booted before (L0-010, L0-012, BASE-AC-2).         *)
PayloadBehindOneIdentity ==
  init = "payload" =>
    \E d \in sound : \A f \in File : held[f] = d

(* No file of the handoff is there while a payload runs (L0-011,           *)
(* BASE-AC-3): where nothing can be unlinked the socket cannot be bound.   *)
NoKeysBesidePayload ==
  init = "payload" => \A f \in File : file[f] = Absent

(* "A handoff is single-use" (suite/citizenship/run.py): no delivery       *)
(* stands behind two payloads, across crashes and restarts.                *)
SingleUse == \A d \in Delivery : used[d] <= 1

(* An identity that is lost was used, refused or broken off in this boot:  *)
(* a file disappears only under a start that held its whole delivery and   *)
(* had found it sound.                                                     *)
ShredOnlyWhatIsHeld ==
  [][\A f \in File :
       file[f] # Absent /\ file'[f] = Absent =>
         /\ held[f] = file[f].of
         /\ \A g \in File : held[g] = held[f]
         /\ held[f] \in sound]_vars
=============================================================================

-------------------------- MODULE ProxyResolution --------------------------
(***************************************************************************)
(* resolve() (app/proxy.py): one walk from an address to the contract that *)
(* holds its logic.  Every read of the chain is a separate RPC, so between *)
(* two reads an admin may replace an implementation, and any read may      *)
(* fail.  A failed storage read raises and degrades the result; a failed   *)
(* code query or beacon call is answered "no" and the walk goes on.        *)
(***************************************************************************)
EXTENDS Naturals, ProxyShapes

CONSTANTS
    Accounts,    \* the accounts of the chain
    MayFail,     \* BOOLEAN: RPC reads may fail
    MaxUpgrades  \* bound: implementations replaced during the walk

ASSUME AccountsAssumption == Address \in Accounts /\ None \notin Accounts
ASSUME SettingAssumption == MayFail \in BOOLEAN /\ MaxUpgrades \in Nat

\* What an account is: the pattern it delegates by, if any.
Proxies == {"eip1967", "zeppelinos", "beacon_proxy"}
Kinds == Proxies \cup {"beacon", "plain", "eoa"}

VARIABLES
    kind,      \* kind[a]
    target,    \* target[a]: what its implementation or beacon slot holds
    pc,        \* the next read
    level,     \* _single_hop on 1: the address, 2: its implementation, 3: the next
    hop,       \* the account that _single_hop is, or will be, looking at
    beacon,    \* the local variable beacon of _single_hop
    impl,      \* the local variable impl of resolve
    info       \* the ProxyInfo under construction

chain == <<kind, target>>
locals == <<level, hop, beacon, impl>>

\* Not in the code: what happened during the walk, for the properties.
VARIABLES
    seen,      \* pairs <<a, t>>: target[a] was t at some time of the walk
    failed,    \* BOOLEAN: some read failed
    upgrades

vars == <<chain, pc, locals, info, seen, failed, upgrades>>

\* The contents of one slot of an account.
Slot(a, pattern) == IF kind[a] = pattern THEN target[a] ELSE None

HasCode(a) == kind[a] # "eoa"

\* What beacon.implementation() answers; any other callee reverts.
BeaconAnswer(b) == IF kind[b] = "beacon" THEN target[b] ELSE None

Pointers == {<<a, target[a]>> : a \in Accounts}

Infos == [is_proxy : BOOLEAN, implementation_address : Accounts \cup {None},
          scanned_address : Accounts, note : BOOLEAN, state_read_ok : BOOLEAN]

Init ==
    /\ kind \in [Accounts -> Kinds]
    /\ target \in [Accounts -> Accounts]
    /\ \A a \in Accounts : kind[a] \in {"plain", "eoa"} => target[a] = a
    /\ pc = "impl_slot" /\ level = 1 /\ hop = Address
    /\ beacon = None /\ impl = None
    /\ info = [is_proxy |-> FALSE, implementation_address |-> None,
               scanned_address |-> Address, note |-> FALSE, state_read_ok |-> TRUE]
    /\ seen = Pointers
    /\ failed = FALSE
    /\ upgrades = 0

----------------------------------------------------------------------------
\* resolve() returns.
Return(result) ==
    /\ pc' = "done"
    /\ info' = result
    /\ UNCHANGED locals

Noted == [info EXCEPT !.note = TRUE]
NotedAt(a) == [info EXCEPT !.note = TRUE, !.implementation_address = a]

GoOn(where) == pc' = where /\ UNCHANGED <<locals, info>>

\* The last check, `not impl or not _has_code(impl)`, of a new value of impl.
CheckFinal(new) ==
    /\ impl' = new
    /\ pc' = "final_code"
    /\ info' = [info EXCEPT !.implementation_address = new]
    /\ UNCHANGED <<level, hop, beacon>>

(***************************************************************************)
(* Level 1 found a pattern with implementation i: after the admin reads    *)
(* come the self-reference check and the extra hop.                        *)
(***************************************************************************)
Proxy(i) == [info EXCEPT !.is_proxy = TRUE, !.implementation_address = i]

Follow(i, record) ==
    /\ impl' = i
    /\ IF i \in {None, Address}
       THEN pc' = "done" /\ info' = [record EXCEPT !.note = TRUE]
       ELSE pc' = "impl_code" /\ info' = record
    /\ UNCHANGED <<level, hop, beacon>>

\* Faulty variant: a third proxy in a row passes for the implementation.
ThirdProxyAccepted == CheckFinal(hop)

\* The implementation's implementation is a proxy too.
ThirdProxy == Return(NotedAt(hop))

\* _single_hop found a pattern with an admin slot.
FoundSlot(i) ==
    \/ /\ level = 1
       /\ pc' = "admin_slot" /\ impl' = i /\ info' = Proxy(i)
       /\ UNCHANGED <<level, hop, beacon>>
    \/ /\ level = 2
       /\ pc' = "next_code" /\ hop' = i
       /\ UNCHANGED <<level, beacon, impl, info>>
    \/ level = 3 /\ ThirdProxy

\* Faulty variant: a beacon that does not answer is followed all the same.
FoundBeaconUnchecked(i) ==
    \/ level = 1 /\ Follow(i, Proxy(i))
    \/ /\ level = 2
       /\ pc' = "next_code" /\ hop' = i
       /\ UNCHANGED <<level, beacon, impl, info>>
    \/ level = 3 /\ ThirdProxy

\* _single_hop found a beacon; i is None if the beacon did not answer.
FoundBeacon(i) ==
    \/ level = 1 /\ Follow(i, Proxy(i))
    \/ /\ level = 2
       /\ IF i = None
          THEN Return(NotedAt(impl))
          ELSE /\ pc' = "next_code" /\ hop' = i
               /\ UNCHANGED <<level, beacon, impl, info>>
    \/ level = 3 /\ ThirdProxy

\* _single_hop found no pattern.
FoundNothing ==
    \/ level = 1 /\ Return(info)
    \/ level = 2 /\ CheckFinal(impl)
    \/ level = 3 /\ CheckFinal(hop)

(***************************************************************************)
(* Outcomes of a read.  Storage reads go through _read_addr_slot, which    *)
(* lets the failure out to resolve's handler; _has_code and _beacon_impl   *)
(* turn theirs into "no".                                                  *)
(***************************************************************************)
At(where) == pc = where /\ UNCHANGED <<chain, seen, upgrades>>

Succeeds == UNCHANGED failed

StorageFails(where) ==
    /\ At(where)
    /\ MayFail
    /\ failed' = TRUE
    /\ Return([Noted EXCEPT !.state_read_ok = FALSE])

Answers(truth, answer) ==
    \/ answer = truth /\ UNCHANGED failed
    \/ answer = FALSE /\ MayFail /\ failed' = TRUE

----------------------------------------------------------------------------
\* rpc.w3 knows no endpoint for the chain.
NoEndpoint ==
    /\ level = 1
    /\ StorageFails("impl_slot")

ImplSlot ==
    /\ At("impl_slot") /\ Succeeds
    /\ LET i == Slot(hop, "eip1967") IN
       IF i # None THEN FoundSlot(i) ELSE GoOn("beacon_slot")

BeaconSlot ==
    /\ At("beacon_slot") /\ Succeeds
    /\ LET b == Slot(hop, "beacon_proxy") IN
       /\ pc' = IF b # None THEN "beacon_code" ELSE "zos_slot"
       /\ beacon' = b
    /\ UNCHANGED <<level, hop, impl, info>>

\* Faulty variant: a code query that fails is made again.
BeaconCodeRetried ==
    /\ At("beacon_code")
    /\ \/ Succeeds /\ GoOn(IF HasCode(beacon) THEN "beacon_call" ELSE "zos_slot")
       \/ MayFail /\ failed' = TRUE /\ GoOn("beacon_code")

BeaconCode ==
    /\ At("beacon_code")
    /\ \E yes \in BOOLEAN :
        /\ Answers(HasCode(beacon), yes)
        /\ GoOn(IF yes THEN "beacon_call" ELSE "zos_slot")

BeaconCall ==
    /\ At("beacon_call")
    /\ \/ Succeeds /\ FoundBeacon(BeaconAnswer(beacon))
       \/ MayFail /\ failed' = TRUE /\ FoundBeacon(None)

\* Faulty variant: only the EIP-1967 slots are read.
ZosSlotSkipped ==
    /\ At("zos_slot") /\ Succeeds
    /\ FoundNothing

ZosSlot ==
    /\ At("zos_slot") /\ Succeeds
    /\ LET i == Slot(hop, "zeppelinos") IN
       IF i # None THEN FoundSlot(i) ELSE FoundNothing

\* The admin's own code query only fills admin_is_contract.
AdminSlot ==
    /\ At("admin_slot") /\ Succeeds
    /\ Follow(impl, info)

ImplCode ==
    /\ At("impl_code")
    /\ \E yes \in BOOLEAN :
        /\ Answers(HasCode(impl), yes)
        /\ IF yes
           THEN /\ pc' = "impl_slot" /\ level' = 2 /\ hop' = impl
                /\ UNCHANGED <<beacon, impl, info>>
           ELSE CheckFinal(impl)

\* Faulty variant: proxies are followed for as long as there is another one.
NextCodeUnbounded ==
    /\ At("next_code")
    /\ \E yes \in BOOLEAN :
        /\ Answers(HasCode(hop), yes)
        /\ IF yes
           THEN /\ pc' = "impl_slot" /\ level' = 2 /\ impl' = hop
                /\ UNCHANGED <<hop, beacon, info>>
           ELSE Return(NotedAt(hop))

NextCode ==
    /\ At("next_code")
    /\ \E yes \in BOOLEAN :
        /\ Answers(HasCode(hop), yes)
        /\ IF yes
           THEN /\ pc' = "impl_slot" /\ level' = 3
                /\ UNCHANGED <<hop, beacon, impl, info>>
           ELSE Return(NotedAt(hop))

\* Faulty variant: the address to scan is set before the last check.
FinalCodeLate ==
    /\ At("final_code")
    /\ \E yes \in BOOLEAN :
        /\ Answers(HasCode(impl), yes)
        /\ Return([info EXCEPT !.scanned_address = impl, !.note = ~yes])

FinalCode ==
    /\ At("final_code")
    /\ \E yes \in BOOLEAN :
        /\ Answers(HasCode(impl), yes)
        /\ Return(IF yes THEN [info EXCEPT !.scanned_address = impl] ELSE Noted)

StorageRead ==
    \E where \in {"impl_slot", "beacon_slot", "zos_slot", "admin_slot"} : StorageFails(where)

Walk ==
    \/ NoEndpoint \/ StorageRead
    \/ ImplSlot \/ BeaconSlot \/ BeaconCode \/ BeaconCall \/ ZosSlot
    \/ AdminSlot \/ ImplCode \/ NextCode \/ FinalCode

\* A proxy's or a beacon's admin replaces what it points at.
Upgrade(a) ==
    /\ pc # "done"
    /\ upgrades < MaxUpgrades
    /\ kind[a] \in Proxies \cup {"beacon"}
    /\ \E t \in Accounts \ {target[a]} :
        /\ target' = [target EXCEPT ![a] = t]
        /\ seen' = seen \cup {<<a, t>>}
    /\ upgrades' = upgrades + 1
    /\ UNCHANGED <<kind, pc, locals, info, failed>>

Next == Walk \/ \E a \in Accounts : Upgrade(a)

Spec == Init /\ [][Next]_vars

\* Every RPC has a timeout, so every read ends.
FairSpec == Spec /\ WF_vars(Walk)

----------------------------------------------------------------------------
Reads == {"impl_slot", "beacon_slot", "beacon_code", "beacon_call", "zos_slot",
          "admin_slot", "impl_code", "next_code", "final_code"}

TypeOK ==
    /\ kind \in [Accounts -> Kinds]
    /\ target \in [Accounts -> Accounts]
    /\ pc \in Reads \cup {"done"}
    /\ level \in 1..3
    /\ hop \in Accounts
    /\ beacon \in Accounts \cup {None} /\ impl \in Accounts \cup {None}
    /\ info \in Infos
    /\ seen \subseteq Accounts \X Accounts
    /\ failed \in BOOLEAN
    /\ upgrades \in 0..MaxUpgrades

(***************************************************************************)
(* What _scan_address_core concludes from the ProxyInfo                    *)
(***************************************************************************)
SaysPlain == pc = "done" /\ info.state_read_ok /\ ~info.is_proxy

SaysClean ==
    /\ pc = "done" /\ info.state_read_ok /\ info.is_proxy /\ ~info.note
    /\ info.scanned_address = info.implementation_address

(***************************************************************************)
(* Reference: which contract's code runs when a is called.                 *)
(***************************************************************************)
IsProxy(a) ==
    \/ kind[a] \in {"eip1967", "zeppelinos"}
    \/ kind[a] = "beacon_proxy" /\ HasCode(target[a])

DelegatesTo(a, t) ==
    /\ IsProxy(a)
    /\ t = IF kind[a] = "beacon_proxy" THEN BeaconAnswer(target[a]) ELSE target[a]

Runs(t) == HasCode(t) /\ ~IsProxy(t)

LogicWithinTwoHops(a, t) ==
    /\ Runs(t)
    /\ \/ DelegatesTo(a, t)
       \/ \E m \in Accounts : DelegatesTo(a, m) /\ DelegatesTo(m, t)

(***************************************************************************)
(* On a chain that stands still and answers, resolve() is exact: it says   *)
(* "not a proxy" of exactly the addresses that do not delegate, and names  *)
(* exactly the contract whose code runs, when that is within two hops.     *)
(* Everything else is reported as unresolved, never as clean.              *)
(***************************************************************************)
ExactWhenQuiet ==
    pc = "done" /\ ~failed /\ upgrades = 0 =>
        /\ SaysPlain <=> ~IsProxy(Address)
        /\ SaysClean <=> \E t \in Accounts : LogicWithinTwoHops(Address, t)
        /\ SaysClean => LogicWithinTwoHops(Address, info.scanned_address)

(***************************************************************************)
(* Whatever fails and whatever is upgraded during the walk: a proxy that   *)
(* keeps its implementation in a slot is never reported as a plain         *)
(* contract (the false negative proxy.py exists to remove, lines 5-16),    *)
(* and a contract named as the implementation is one that the address led  *)
(* to, through pointers that were there at some time of the walk.          *)
(***************************************************************************)
LeadsTo(S) == {t \in Accounts : \E a \in S : <<a, t>> \in seen}

NeverMisled ==
    /\ SaysPlain => kind[Address] \notin {"eip1967", "zeppelinos"}
    /\ SaysClean =>
          LET one == LeadsTo({Address})
              two == LeadsTo(one)
              three == LeadsTo(two)
          IN  info.scanned_address \in one \cup two \cup three \cup LeadsTo(three)

(***************************************************************************)
(* Whatever fails and whatever is upgraded, the ProxyInfo has one of the   *)
(* three shapes that _scan_address_core tells apart (app/main.py:459-476), *)
(* and an implementation named without a doubt has code: the last check    *)
(* errs towards doubt, as _has_code's docstring has it (proxy.py:66-68).   *)
(* That says nothing of the queries before it.  One that failed may have   *)
(* hidden that the contract named is itself a proxy (ShellNeverScanned).   *)
(***************************************************************************)
ReturnsAsPromised ==
    pc = "done" =>
        /\ Returned(info)
        /\ ResolvedInfo(info) => HasCode(info.scanned_address)

(***************************************************************************)
(* Every read takes the walk forward, whatever it answers, whatever fails  *)
(* and however the pointers go round: "one extra hop ... (rare, bounded)"  *)
(* (app/proxy.py:162).  So resolve() makes at most nineteen reads.         *)
(***************************************************************************)
Place(read) ==
    CASE read = "impl_slot" -> 0
      [] read = "beacon_slot" -> 1
      [] read = "beacon_code" -> 2
      [] read = "beacon_call" -> 3
      [] read = "zos_slot" -> 4
      [] read = "admin_slot" -> 5
      [] read \in {"impl_code", "next_code"} -> 6
      [] read = "final_code" -> 20
      [] read = "done" -> 21

Position == 7 * (level - 1) + Place(pc)

WalkAdvances == [][upgrades' = upgrades => Position' > Position]_vars

(***************************************************************************)
(* The walk ends: resolve() returns whatever the chain answers.            *)
(***************************************************************************)
WalkEnds == <>(pc = "done")

(***************************************************************************)
(* What the source says, and the code does not do: if "the on-chain read   *)
(* fails, the result is COULD NOT ANALYZE" (README.md:73), "never scan the *)
(* shell and call it clean" (app/main.py:471-472).  The contract that is   *)
(* analyzed is never a proxy.                                              *)
(***************************************************************************)
ShellNeverScanned ==
    /\ SaysPlain => ~IsProxy(Address)
    /\ SaysClean => ~IsProxy(info.scanned_address)
=============================================================================

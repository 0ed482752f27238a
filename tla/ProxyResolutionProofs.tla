----------------------- MODULE ProxyResolutionProofs -----------------------
(***************************************************************************)
(* Proofs about the walk of resolve(), for any number of accounts, any     *)
(* pointers between them and any number of upgrades during the walk.       *)
(***************************************************************************)
EXTENDS ProxyResolution, TLAPS

\* The reads of one _single_hop.
HopReads == {"impl_slot", "beacon_slot", "beacon_code", "beacon_call", "zos_slot"}

\* resolve() has found a proxy and is following it.
Following == (pc \in HopReads /\ level > 1) \/ pc \in {"admin_slot", "impl_code", "next_code", "final_code"}

\* The types of what the walk itself changes.
WalkTypeOK ==
    /\ pc \in Reads \cup {"done"} /\ level \in 1..3 /\ hop \in Accounts
    /\ beacon \in Accounts \cup {None} /\ impl \in Accounts \cup {None}
    /\ info \in Infos

\* Where the walk is, and what it has in hand there.
StageInv ==
    /\ pc \in {"admin_slot", "impl_code"} => level = 1
    /\ pc = "next_code" => level = 2
    /\ pc \in HopReads /\ level = 1 => hop = Address /\ ~info.is_proxy
    /\ pc \in HopReads /\ level = 2 => hop = impl
    /\ pc \in HopReads \ {"impl_slot"} => kind[hop] # "eip1967"
    /\ pc \in {"beacon_code", "beacon_call"} => beacon \in Accounts
    /\ Following => impl \in Accounts /\ info.is_proxy
    /\ pc = "final_code" => info.implementation_address = impl
    /\ pc # "done" => info.state_read_ok /\ ~info.note
    /\ SaysPlain => kind[Address] \notin {"eip1967", "zeppelinos"}

(***************************************************************************)
(* What the walk does                                                      *)
(***************************************************************************)

\* The records that the steps build.
LEMMA InfoTypes ==
    ASSUME info \in Infos, NEW a \in Accounts \cup {None}
    PROVE  /\ Noted \in Infos /\ NotedAt(a) \in Infos /\ Proxy(a) \in Infos
           /\ [info EXCEPT !.implementation_address = a] \in Infos
           /\ \A r \in Infos :
                 /\ [r EXCEPT !.note = TRUE] \in Infos
                 /\ [r EXCEPT !.note = TRUE].is_proxy = r.is_proxy
           /\ Noted.is_proxy = info.is_proxy /\ NotedAt(a).is_proxy = info.is_proxy
           /\ Proxy(a).is_proxy = TRUE /\ Proxy(a).note = info.note
           /\ Proxy(a).state_read_ok = info.state_read_ok
BY DEF Infos, Noted, NotedAt, Proxy

\* resolve() may return what does not call a slot proxy plain.
LEMMA ReturnStage ==
    ASSUME WalkTypeOK, UNCHANGED kind, NEW r \in Infos, pc' = "done", info' = r,
           level' \in 1..3, hop' \in Accounts, beacon' \in Accounts \cup {None},
           impl' \in Accounts \cup {None},
           r.is_proxy = FALSE /\ r.state_read_ok = TRUE
              => kind[Address] \notin {"eip1967", "zeppelinos"}
    PROVE  WalkTypeOK' /\ StageInv'
<1>1. WalkTypeOK'
  BY DEF WalkTypeOK
<1>2. r.is_proxy \in BOOLEAN /\ r.state_read_ok \in BOOLEAN
  BY DEF Infos
<1>3. SaysPlain' => kind'[Address] \notin {"eip1967", "zeppelinos"}
  BY <1>2 DEF SaysPlain
<1> QED
  BY <1>1, <1>3 DEF StageInv, Following, HopReads

\* It moves on to the last check with an account in hand.
LEMMA CheckStage ==
    ASSUME WalkTypeOK, info.state_read_ok /\ ~info.note, info.is_proxy,
           NEW a \in Accounts, CheckFinal(a)
    PROVE  WalkTypeOK' /\ StageInv'
<1>1. info' = [info EXCEPT !.implementation_address = a] /\ UNCHANGED <<level, hop, beacon>>
      /\ pc' = "final_code" /\ impl' = a
  BY DEF CheckFinal
<1>2. /\ info' \in Infos /\ info'.implementation_address = a /\ info'.is_proxy = info.is_proxy
      /\ info'.note = info.note /\ info'.state_read_ok = info.state_read_ok
  BY <1>1 DEF Infos, WalkTypeOK
<1>3. WalkTypeOK'
  BY <1>1, <1>2 DEF WalkTypeOK, Reads
<1> QED
  BY <1>1, <1>2, <1>3 DEF StageInv, Following, HopReads, SaysPlain

\* What FoundSlot, FoundBeacon and FoundNothing do to types and stages.
LEMMA FoundStage ==
    ASSUME TypeOK, StageInv, UNCHANGED kind, pc \in HopReads,
           \/ \E i \in Accounts : FoundSlot(i)
           \/ \E i \in Accounts \cup {None} : FoundBeacon(i)
           \/ FoundNothing /\ (level = 1 => kind[Address] # "zeppelinos") /\ pc = "zos_slot"
    PROVE  WalkTypeOK' /\ StageInv'
<1> USE AccountsAssumption
<1>1. WalkTypeOK /\ pc \in HopReads
  BY DEF TypeOK, WalkTypeOK
<1>2. ASSUME NEW i \in Accounts, FoundSlot(i)
      PROVE  WalkTypeOK' /\ StageInv'
  <2>0. info \in Infos /\ (level # 1 => info.is_proxy = TRUE)
    <3>1. info \in Infos /\ (level # 1 => info.is_proxy)
      BY <1>1 DEF StageInv, Following, WalkTypeOK
    <3> QED
      BY <3>1 DEF Infos
  <2>1. CASE level = 1 /\ pc' = "admin_slot" /\ impl' = i /\ info' = Proxy(i)
             /\ UNCHANGED <<level, hop, beacon>>
    <3> DEFINE r == Proxy(i)
    <3>1. r \in Infos /\ r.is_proxy = TRUE /\ r.note = info.note
          /\ r.state_read_ok = info.state_read_ok /\ info' = r
      BY <2>0, <2>1, InfoTypes
    <3> HIDE DEF r
    <3> QED
      BY <1>1, <2>1, <3>1 DEF StageInv, Following, HopReads, Reads, SaysPlain, WalkTypeOK
  <2>2. CASE level = 2 /\ pc' = "next_code" /\ hop' = i /\ UNCHANGED <<level, beacon, impl, info>>
    BY <1>1, <2>2 DEF StageInv, Following, HopReads, Reads, SaysPlain, WalkTypeOK
  <2>3. CASE level = 3 /\ ThirdProxy
    <3>1. WalkTypeOK /\ info.is_proxy = TRUE
      BY <1>1, <2>0, <2>3
    <3>2. NotedAt(hop) \in Infos /\ NotedAt(hop).is_proxy = TRUE
      BY <3>1, InfoTypes DEF WalkTypeOK
    <3> QED
      BY <2>3, <3>1, <3>2, ReturnStage DEF ThirdProxy, Return, locals, WalkTypeOK
  <2> QED
    BY <1>2, <2>1, <2>2, <2>3 DEF FoundSlot
<1>3. ASSUME NEW i \in Accounts \cup {None}, FoundBeacon(i)
      PROVE  WalkTypeOK' /\ StageInv'
  <2>0. info \in Infos /\ (level # 1 => info.is_proxy = TRUE /\ impl \in Accounts)
    <3>1. info \in Infos /\ (level # 1 => info.is_proxy /\ impl \in Accounts)
      BY <1>1 DEF StageInv, Following, WalkTypeOK
    <3> QED
      BY <3>1 DEF Infos
  <2>1. CASE level = 1 /\ Follow(i, Proxy(i))
    <3>1. CASE i \in {None, Address}
      <4> DEFINE r == [Proxy(i) EXCEPT !.note = TRUE]
      <4>1. r \in Infos /\ r.is_proxy = TRUE
        BY <2>0, InfoTypes
      <4>2. pc' = "done" /\ info' = r /\ impl' = i /\ UNCHANGED <<level, hop, beacon>>
        BY <2>1, <3>1 DEF Follow
      <4> HIDE DEF r
      <4> QED
        BY <1>1, <4>1, <4>2, ReturnStage DEF WalkTypeOK
    <3>2. CASE i \notin {None, Address}
      <4> DEFINE r == Proxy(i)
      <4>1. r \in Infos /\ r.is_proxy = TRUE /\ r.note = info.note
            /\ r.state_read_ok = info.state_read_ok
        BY <2>0, InfoTypes
      <4>2. pc' = "impl_code" /\ info' = r /\ impl' = i /\ UNCHANGED <<level, hop, beacon>>
        BY <2>1, <3>2 DEF Follow
      <4> HIDE DEF r
      <4> QED
        BY <1>1, <2>1, <3>2, <4>1, <4>2 DEF StageInv, Following, HopReads, Reads, SaysPlain, WalkTypeOK
    <3> QED
      BY <3>1, <3>2
  <2>2. CASE level = 2 /\ i = None /\ Return(NotedAt(impl))
    <3>1. WalkTypeOK /\ info.is_proxy = TRUE
      BY <1>1, <2>0, <2>2
    <3>2. NotedAt(impl) \in Infos /\ NotedAt(impl).is_proxy = TRUE
      BY <3>1, InfoTypes DEF WalkTypeOK
    <3> QED
      BY <2>2, <3>1, <3>2, ReturnStage DEF Return, locals, WalkTypeOK
  <2>3. CASE /\ level = 2 /\ i # None /\ pc' = "next_code" /\ hop' = i
             /\ UNCHANGED <<level, beacon, impl, info>>
    BY <1>1, <2>3 DEF StageInv, Following, HopReads, Reads, SaysPlain, WalkTypeOK
  <2>4. CASE level = 3 /\ ThirdProxy
    <3>1. WalkTypeOK /\ info.is_proxy = TRUE
      BY <1>1, <2>0, <2>4
    <3>2. NotedAt(hop) \in Infos /\ NotedAt(hop).is_proxy = TRUE
      BY <3>1, InfoTypes DEF WalkTypeOK
    <3> QED
      BY <2>4, <3>1, <3>2, ReturnStage DEF ThirdProxy, Return, locals, WalkTypeOK
  <2> QED
    BY <1>3, <2>1, <2>2, <2>3, <2>4 DEF FoundBeacon
<1>4. ASSUME FoundNothing, level = 1 => kind[Address] # "zeppelinos", pc = "zos_slot"
      PROVE  WalkTypeOK' /\ StageInv'
  <2>1. CASE level = 1 /\ Return(info)
    <3>1. kind[Address] \notin {"eip1967", "zeppelinos"}
      BY <1>4, <2>1 DEF StageInv, HopReads
    <3> QED
      BY <1>1, <2>1, <3>1, ReturnStage DEF Return, locals, WalkTypeOK
  <2>2. level # 1 => impl \in Accounts /\ info.is_proxy
    BY <1>1 DEF StageInv, Following, WalkTypeOK
  <2>3. CASE level # 1
    BY <1>1, <1>4, <2>2, <2>3, CheckStage DEF FoundNothing, StageInv, HopReads, WalkTypeOK
  <2> QED
    BY <1>1, <1>4, <2>1, <2>3 DEF FoundNothing
<1> QED
  BY <1>2, <1>3, <1>4

\* The walk starts at the address, with nothing found.
LEMMA InitStage == Init => TypeOK /\ StageInv
<1> SUFFICES ASSUME Init PROVE TypeOK /\ StageInv
  OBVIOUS
<1>1. seen \subseteq Accounts \X Accounts
  BY DEF Init, Pointers
<1>2. info \in Infos /\ info.is_proxy = FALSE /\ info.note = FALSE /\ info.state_read_ok = TRUE
  BY AccountsAssumption DEF Init, Infos
<1>3. TypeOK
  <2>1. kind \in [Accounts -> Kinds] /\ target \in [Accounts -> Accounts]
    BY DEF Init
  <2>2. level \in 1..3 /\ upgrades \in 0..MaxUpgrades
    BY SettingAssumption DEF Init
  <2>3. pc \in Reads /\ hop \in Accounts /\ beacon = None /\ impl = None /\ failed \in BOOLEAN
    BY AccountsAssumption DEF Init, Reads
  <2> QED
    BY <1>1, <1>2, <2>1, <2>2, <2>3 DEF TypeOK
<1>4. StageInv
  BY <1>2, AccountsAssumption DEF Init, StageInv, Following, HopReads, SaysPlain
<1> QED
  BY <1>3, <1>4

\* Every read leaves the walk at a stage it can be at.
LEMMA WalkStage ==
    ASSUME TypeOK, StageInv, Walk
    PROVE  TypeOK' /\ StageInv'
<1> USE AccountsAssumption, SettingAssumption
<1>1. ASSUME NEW where \in {"impl_slot", "beacon_slot", "zos_slot", "admin_slot"}, StorageFails(where)
      PROVE  TypeOK' /\ StageInv'
  BY <1>1 DEF StorageFails, At, Return, Noted, locals, chain, TypeOK, StageInv, Following, HopReads,
              Reads, Infos, SaysPlain
<1>2. CASE ImplSlot
  <2>1. pc = "impl_slot" /\ UNCHANGED <<chain, seen, upgrades, failed>>
    BY <1>2 DEF ImplSlot, At, Succeeds
  <2>2. CASE kind[hop] = "eip1967"
    <3>1. target[hop] \in Accounts /\ FoundSlot(target[hop])
      BY <1>2, <2>2 DEF ImplSlot, Slot, TypeOK
    <3> QED
      BY <2>1, <3>1, FoundStage DEF TypeOK, WalkTypeOK, chain, HopReads
  <2>3. CASE kind[hop] # "eip1967"
    BY <1>2, <2>1, <2>3
    DEF ImplSlot, Slot, GoOn, locals, chain, TypeOK, StageInv, Following, HopReads, Reads, SaysPlain
  <2> QED
    BY <2>2, <2>3
<1>3. CASE BeaconSlot
  BY <1>3 DEF BeaconSlot, At, Succeeds, Slot, chain, TypeOK, StageInv, Following, HopReads, Reads,
              SaysPlain
<1>4. CASE BeaconCode
  BY <1>4 DEF BeaconCode, At, Answers, GoOn, locals, chain, TypeOK, StageInv, Following, HopReads,
              Reads, SaysPlain
<1>5. CASE BeaconCall
  <2>1. pc = "beacon_call" /\ UNCHANGED <<chain, seen, upgrades>> /\ failed' \in BOOLEAN
    BY <1>5 DEF BeaconCall, At, Succeeds, TypeOK
  <2>2. \E i \in Accounts \cup {None} : FoundBeacon(i)
    BY <1>5, <2>1 DEF BeaconCall, BeaconAnswer, TypeOK, StageInv
  <2> QED
    BY <2>1, <2>2, FoundStage DEF TypeOK, WalkTypeOK, chain, HopReads
<1>6. CASE ZosSlot
  <2>1. pc = "zos_slot" /\ UNCHANGED <<chain, seen, upgrades, failed>>
    BY <1>6 DEF ZosSlot, At, Succeeds
  <2>2. CASE kind[hop] = "zeppelinos"
    <3>1. target[hop] \in Accounts /\ FoundSlot(target[hop])
      BY <1>6, <2>2 DEF ZosSlot, Slot, TypeOK
    <3> QED
      BY <2>1, <3>1, FoundStage DEF TypeOK, WalkTypeOK, chain, HopReads
  <2>3. CASE kind[hop] # "zeppelinos"
    <3>1. FoundNothing /\ (level = 1 => kind[Address] # "zeppelinos")
      BY <1>6, <2>1, <2>3 DEF ZosSlot, Slot, StageInv, HopReads
    <3> QED
      BY <2>1, <3>1, FoundStage DEF TypeOK, WalkTypeOK, chain, HopReads
  <2> QED
    BY <2>2, <2>3
<1>7. CASE AdminSlot
  BY <1>7 DEF AdminSlot, At, Succeeds, Follow, chain, TypeOK, StageInv, Following, HopReads, Reads,
              Infos, SaysPlain
<1>8. CASE ImplCode
  <2>1. /\ pc = "impl_code" /\ UNCHANGED <<chain, seen, upgrades>> /\ failed' \in BOOLEAN
        /\ WalkTypeOK /\ impl \in Accounts /\ info.is_proxy /\ info.state_read_ok /\ ~info.note
    BY <1>8 DEF ImplCode, At, Answers, TypeOK, WalkTypeOK, StageInv, Following
  <2>2. CASE pc' = "impl_slot" /\ level' = 2 /\ hop' = impl /\ UNCHANGED <<beacon, impl, info>>
    BY <2>1, <2>2 DEF chain, TypeOK, StageInv, Following, HopReads, Reads, SaysPlain
  <2>3. CASE CheckFinal(impl)
    BY <2>1, <2>3, CheckStage DEF TypeOK, WalkTypeOK, chain
  <2> QED
    BY <1>8, <2>2, <2>3 DEF ImplCode
<1>9. CASE NextCode
  <2>1. /\ pc = "next_code" /\ UNCHANGED <<chain, seen, upgrades>> /\ failed' \in BOOLEAN
    BY <1>9 DEF NextCode, At, Answers, TypeOK
  <2>2. CASE pc' = "impl_slot" /\ level' = 3 /\ UNCHANGED <<hop, beacon, impl, info>>
    BY <2>1, <2>2 DEF chain, TypeOK, StageInv, Following, HopReads, Reads, SaysPlain
  <2>3. CASE Return(NotedAt(hop))
    <3>1. WalkTypeOK /\ info.is_proxy = TRUE
      BY <2>1 DEF TypeOK, WalkTypeOK, StageInv, Following, Infos
    <3>2. NotedAt(hop) \in Infos /\ NotedAt(hop).is_proxy = TRUE
      BY <3>1, InfoTypes DEF WalkTypeOK
    <3> QED
      BY <2>1, <2>3, <3>1, <3>2, ReturnStage DEF Return, locals, chain, TypeOK, WalkTypeOK
  <2> QED
    BY <1>9, <2>2, <2>3 DEF NextCode
<1>10. CASE FinalCode
  <2>1. /\ pc = "final_code" /\ UNCHANGED <<chain, seen, upgrades>> /\ failed' \in BOOLEAN
        /\ impl \in Accounts /\ info \in Infos /\ info.is_proxy
    BY <1>10 DEF FinalCode, At, Answers, TypeOK, StageInv, Following
  <2>2. Return([info EXCEPT !.scanned_address = impl]) \/ Return(Noted)
    BY <1>10 DEF FinalCode
  <2>3. info' \in Infos /\ info'.is_proxy
    BY <2>1, <2>2 DEF Return, Noted, Infos
  <2> QED
    BY <2>1, <2>2, <2>3
    DEF Return, locals, chain, TypeOK, StageInv, Following, HopReads, Reads, SaysPlain
<1> QED
  BY <1>1, <1>2, <1>3, <1>4, <1>5, <1>6, <1>7, <1>8, <1>9, <1>10 DEF Walk, NoEndpoint, StorageRead

\* Every step does; an upgrade moves nothing of the walk.
LEMMA NextStage == TypeOK /\ StageInv /\ [Next]_vars => TypeOK' /\ StageInv'
<1> SUFFICES ASSUME TypeOK, StageInv, [Next]_vars PROVE TypeOK' /\ StageInv'
  OBVIOUS
<1>1. ASSUME NEW a \in Accounts, Upgrade(a) PROVE TypeOK' /\ StageInv'
  BY <1>1, SettingAssumption
  DEF Upgrade, locals, TypeOK, StageInv, Following, HopReads, SaysPlain
<1>2. CASE UNCHANGED vars
  BY <1>2 DEF vars, chain, locals, TypeOK, StageInv, Following, HopReads, SaysPlain
<1> QED
  BY <1>1, <1>2, WalkStage DEF Next

\* Every variable of the walk keeps its type.
THEOREM ResolutionTypeCorrect == Spec => []TypeOK
BY InitStage, NextStage, PTL DEF Spec

(***************************************************************************)
(* Where pointers lead                                                     *)
(***************************************************************************)

\* What the address led to, in two steps and in four.
WithinTwo == LeadsTo({Address}) \cup LeadsTo(LeadsTo({Address}))
WithinFour == WithinTwo \cup LeadsTo(WithinTwo) \cup LeadsTo(LeadsTo(WithinTwo))

ReachInv ==
    /\ Pointers \subseteq seen
    /\ pc \in {"beacon_code", "beacon_call"} => <<hop, beacon>> \in seen
    /\ pc \in {"admin_slot", "impl_code"} => impl \in WithinTwo
    /\ pc \in HopReads /\ level = 2 => impl \in WithinTwo
    /\ (pc \in HopReads /\ level = 3) \/ pc = "next_code" => hop \in WithinFour
    /\ pc = "final_code" => impl \in WithinFour
    /\ SaysClean => info.scanned_address \in WithinFour

\* What was seen stays seen.
LEMMA ReachGrows ==
    ASSUME seen \subseteq seen'
    PROVE  WithinTwo \subseteq WithinTwo' /\ WithinFour \subseteq WithinFour'
<1>1. \A S : LeadsTo(S) \subseteq {t \in Accounts : \E a \in S : <<a, t>> \in seen'}
  BY DEF LeadsTo
<1>2. WithinTwo \subseteq WithinTwo'
  BY DEF WithinTwo, LeadsTo
<1> QED
  BY <1>2 DEF WithinFour, LeadsTo

\* One pointer, or two by way of a beacon, from where the walk is.
LEMMA ReachSteps ==
    ASSUME NEW a, NEW b \in Accounts, NEW c \in Accounts
    PROVE  /\ a = Address /\ <<a, b>> \in seen => b \in WithinTwo /\ b \in WithinFour
           /\ a = Address /\ <<a, b>> \in seen /\ <<b, c>> \in seen
                => c \in WithinTwo /\ c \in WithinFour
           /\ a \in WithinTwo /\ <<a, b>> \in seen => b \in WithinFour
           /\ a \in WithinTwo /\ <<a, b>> \in seen /\ <<b, c>> \in seen => c \in WithinFour
<1>1. b \in LeadsTo({a}) <=> <<a, b>> \in seen
  BY DEF LeadsTo
<1>2. \A S : b \in S /\ <<b, c>> \in seen => c \in LeadsTo(S)
  BY DEF LeadsTo
<1>3. \A S : a \in S /\ <<a, b>> \in seen => b \in LeadsTo(S)
  BY DEF LeadsTo
<1> QED
  BY <1>1, <1>2, <1>3 DEF WithinTwo, WithinFour

\* What the walk found is where pointers lead from where it was.
LEMMA FoundReach ==
    ASSUME TypeOK, StageInv, ReachInv, UNCHANGED <<chain, seen>>, pc \in HopReads,
           \/ \E i \in Accounts : FoundSlot(i) /\ <<hop, i>> \in seen
           \/ \E i \in Accounts \cup {None} :
                 /\ FoundBeacon(i) /\ beacon \in Accounts
                 /\ i # None => <<hop, beacon>> \in seen /\ <<beacon, i>> \in seen
           \/ FoundNothing
    PROVE  ReachInv'
<1>0. /\ WithinTwo' = WithinTwo /\ WithinFour' = WithinFour /\ WithinTwo \subseteq WithinFour
      /\ (Pointers \subseteq seen)' /\ seen' = seen
  BY DEF WithinTwo, WithinFour, LeadsTo, ReachInv, Pointers, chain
<1>1. /\ hop \in Accounts /\ level \in 1..3 /\ info \in Infos
      /\ level = 1 => hop = Address
      /\ level = 2 => hop = impl /\ impl \in WithinTwo
      /\ level = 3 => hop \in WithinFour
  BY DEF TypeOK, StageInv, ReachInv
\* It stops: nothing is called clean.
<1>2. ASSUME pc' = "done", info'.note \/ ~info'.is_proxy PROVE ReachInv'
  BY <1>0, <1>2 DEF ReachInv, HopReads, SaysClean
<1>3. ASSUME NEW a \in Accounts \cup {None}, Return(NotedAt(a)) PROVE ReachInv'
  <2>1. info'.note
    BY <1>1, <1>3 DEF Return, NotedAt, Infos
  <2> QED
    BY <1>2, <1>3, <2>1 DEF Return
<1>4. ASSUME NEW i \in Accounts, FoundSlot(i), <<hop, i>> \in seen PROVE ReachInv'
  <2>1. CASE level = 1 /\ pc' = "admin_slot" /\ impl' = i
    <3>1. i \in WithinTwo
      BY <1>1, <1>4, <2>1, ReachSteps
    <3> QED
      BY <1>0, <2>1, <3>1 DEF ReachInv, HopReads, SaysClean
  <2>2. CASE level = 2 /\ pc' = "next_code" /\ hop' = i
    <3>1. i \in WithinFour
      BY <1>1, <1>4, <2>2, ReachSteps
    <3> QED
      BY <1>0, <2>2, <3>1 DEF ReachInv, HopReads, SaysClean
  <2>3. CASE level = 3 /\ ThirdProxy
    BY <1>1, <1>3, <2>3 DEF ThirdProxy
  <2> QED
    BY <1>4, <2>1, <2>2, <2>3 DEF FoundSlot
<1>5. ASSUME NEW i \in Accounts \cup {None}, FoundBeacon(i), beacon \in Accounts,
             i # None => <<hop, beacon>> \in seen /\ <<beacon, i>> \in seen
      PROVE  ReachInv'
  <2>1. CASE level = 1 /\ Follow(i, Proxy(i)) /\ i \in {None, Address}
    <3>1. info' = [Proxy(i) EXCEPT !.note = TRUE] /\ pc' = "done"
      BY <2>1 DEF Follow
    <3>2. info'.note
      BY <1>1, <3>1 DEF Proxy, Infos
    <3> QED
      BY <1>2, <3>1, <3>2
  <2>2. CASE level = 1 /\ Follow(i, Proxy(i)) /\ i \notin {None, Address}
    <3>1. i \in WithinTwo /\ pc' = "impl_code" /\ impl' = i
      BY <1>1, <1>5, <2>2, ReachSteps DEF Follow
    <3> QED
      BY <1>0, <3>1 DEF ReachInv, HopReads, SaysClean
  <2>3. CASE level = 2 /\ i = None /\ Return(NotedAt(impl))
    BY <1>3, <2>3 DEF TypeOK
  <2>4. CASE level = 2 /\ i # None /\ pc' = "next_code" /\ hop' = i
    <3>1. i \in WithinFour
      BY <1>1, <1>5, <2>4, ReachSteps
    <3> QED
      BY <1>0, <2>4, <3>1 DEF ReachInv, HopReads, SaysClean
  <2>5. CASE level = 3 /\ ThirdProxy
    BY <1>1, <1>3, <2>5 DEF ThirdProxy
  <2> QED
    BY <1>5, <2>1, <2>2, <2>3, <2>4, <2>5 DEF FoundBeacon
<1>6. CASE FoundNothing
  <2>1. CASE level = 1 /\ Return(info)
    BY <1>2, <2>1 DEF Return, StageInv
  <2>2. ASSUME NEW a \in WithinFour, CheckFinal(a) PROVE ReachInv'
    BY <1>0, <2>2 DEF CheckFinal, ReachInv, HopReads, SaysClean
  <2> QED
    BY <1>0, <1>1, <1>6, <2>1, <2>2 DEF FoundNothing
<1> QED
  BY <1>4, <1>5, <1>6

\* The walk reads the chain as it is, hence pointers that have been there.
LEMMA WalkReach ==
    ASSUME TypeOK, StageInv, ReachInv, Walk
    PROVE  ReachInv'
<1>0. UNCHANGED <<chain, seen>>
  BY DEF Walk, NoEndpoint, StorageRead, StorageFails, ImplSlot, BeaconSlot, BeaconCode, BeaconCall,
         ZosSlot, AdminSlot, ImplCode, NextCode, FinalCode, At
<1>1. /\ WithinTwo' = WithinTwo /\ WithinFour' = WithinFour /\ WithinTwo \subseteq WithinFour
      /\ (Pointers \subseteq seen)' /\ seen' = seen
  BY <1>0 DEF WithinTwo, WithinFour, LeadsTo, ReachInv, Pointers, chain
<1>2. \A a \in Accounts : target[a] \in Accounts /\ <<a, target[a]>> \in seen
  BY DEF TypeOK, ReachInv, Pointers
<1>3. ASSUME pc' = "done", info'.note \/ ~info'.state_read_ok PROVE ReachInv'
  BY <1>1, <1>3 DEF ReachInv, HopReads, SaysClean
<1>4. ASSUME NEW where, StorageFails(where) PROVE ReachInv'
  <2>1. ~info'.state_read_ok /\ pc' = "done"
    BY <1>4 DEF StorageFails, Return, Noted, TypeOK, Infos
  <2> QED
    BY <1>3, <2>1
<1>5. CASE ImplSlot
  <2>1. CASE kind[hop] = "eip1967"
    <3>1. FoundSlot(target[hop]) /\ pc \in HopReads
      BY <1>5, <2>1, <1>2, AccountsAssumption DEF ImplSlot, At, Slot, TypeOK, HopReads
    <3> QED
      BY <1>0, <1>2, <3>1, FoundReach DEF TypeOK
  <2>2. CASE kind[hop] # "eip1967"
    BY <1>1, <1>5, <2>2 DEF ImplSlot, At, Slot, GoOn, locals, ReachInv, HopReads, SaysClean
  <2> QED
    BY <2>1, <2>2
<1>6. CASE BeaconSlot
  <2>1. pc' = "beacon_code" => beacon' = target[hop]
    BY <1>6, AccountsAssumption DEF BeaconSlot, Slot
  <2> QED
    BY <1>1, <1>2, <1>6, <2>1 DEF BeaconSlot, At, ReachInv, HopReads, SaysClean, TypeOK
<1>7. CASE BeaconCode
  BY <1>1, <1>7 DEF BeaconCode, At, GoOn, locals, ReachInv, HopReads, SaysClean
<1>8. CASE BeaconCall
  <2>1. pc \in HopReads /\ beacon \in Accounts /\ <<hop, beacon>> \in seen
    BY <1>8 DEF BeaconCall, At, HopReads, StageInv, ReachInv
  <2>2. CASE FoundBeacon(BeaconAnswer(beacon))
    <3>1. BeaconAnswer(beacon) \in {None, target[beacon]}
      BY DEF BeaconAnswer
    <3>2. BeaconAnswer(beacon) # None => <<beacon, BeaconAnswer(beacon)>> \in seen
      BY <1>2, <2>1, <3>1
    <3> QED
      BY <1>0, <1>2, <2>1, <2>2, <3>1, <3>2, FoundReach
  <2>3. CASE FoundBeacon(None)
    BY <1>0, <2>1, <2>3, FoundReach
  <2> QED
    BY <1>8, <2>2, <2>3 DEF BeaconCall
<1>9. CASE ZosSlot
  <2>1. CASE kind[hop] = "zeppelinos"
    <3>1. FoundSlot(target[hop]) /\ pc \in HopReads
      BY <1>9, <2>1, <1>2, AccountsAssumption DEF ZosSlot, At, Slot, TypeOK, HopReads
    <3> QED
      BY <1>0, <1>2, <3>1, FoundReach DEF TypeOK
  <2>2. CASE kind[hop] # "zeppelinos"
    <3>1. FoundNothing /\ pc \in HopReads
      BY <1>9, <2>2 DEF ZosSlot, At, Slot, HopReads
    <3> QED
      BY <1>0, <3>1, FoundReach
  <2> QED
    BY <2>1, <2>2
<1>10. CASE AdminSlot
  <2>1. CASE impl = Address
    <3>1. info'.note /\ pc' = "done"
      BY <1>10, <2>1 DEF AdminSlot, Follow, TypeOK, Infos
    <3> QED
      BY <1>3, <3>1
  <2>2. CASE impl # Address
    <3>1. impl' = impl /\ impl \in WithinTwo /\ pc' = "impl_code"
      BY <1>10, <2>2, AccountsAssumption DEF AdminSlot, At, Follow, StageInv, Following, ReachInv
    <3> QED
      BY <1>1, <3>1 DEF ReachInv, HopReads, SaysClean
  <2> QED
    BY <2>1, <2>2
<1>11. CASE ImplCode
  BY <1>1, <1>11 DEF ImplCode, At, CheckFinal, ReachInv, HopReads, SaysClean
<1>12. CASE NextCode
  <2>1. CASE Return(NotedAt(hop))
    <3>1. info'.note /\ pc' = "done"
      BY <2>1 DEF Return, NotedAt, TypeOK, Infos
    <3> QED
      BY <1>3, <3>1
  <2>2. CASE pc' = "impl_slot" /\ level' = 3 /\ hop' = hop
    BY <1>1, <1>12, <2>2 DEF NextCode, At, ReachInv, HopReads, SaysClean
  <2> QED
    BY <1>12, <2>1, <2>2 DEF NextCode
<1>13. CASE FinalCode
  <2>1. CASE Return(Noted)
    <3>1. info'.note /\ pc' = "done"
      BY <2>1 DEF Return, Noted, TypeOK, Infos
    <3> QED
      BY <1>3, <3>1
  <2>2. CASE Return([info EXCEPT !.scanned_address = impl])
    <3>1. info'.scanned_address = impl /\ pc' = "done" /\ impl \in WithinFour
      BY <1>13, <2>2 DEF Return, FinalCode, At, TypeOK, Infos, ReachInv
    <3> QED
      BY <1>1, <3>1 DEF ReachInv, HopReads, SaysClean
  <2> QED
    BY <1>13, <2>1, <2>2 DEF FinalCode
<1> QED
  BY <1>4, <1>5, <1>6, <1>7, <1>8, <1>9, <1>10, <1>11, <1>12, <1>13
  DEF Walk, NoEndpoint, StorageRead

(***************************************************************************)
(* Whatever fails and whatever is upgraded during the walk, a proxy with   *)
(* its implementation in a slot is never called plain, and the contract    *)
(* named as the implementation is one the address led to.                  *)
(***************************************************************************)
THEOREM NeverMisledHolds == Spec => []NeverMisled
<1>1. Init => ReachInv
  BY DEF Init, ReachInv, HopReads, SaysClean
<1>2. TypeOK /\ StageInv /\ ReachInv /\ [Next]_vars => ReachInv'
  <2> SUFFICES ASSUME TypeOK, StageInv, ReachInv, [Next]_vars PROVE ReachInv'
    OBVIOUS
  <2>1. ASSUME NEW a \in Accounts, Upgrade(a) PROVE ReachInv'
    <3>1. /\ seen \subseteq seen' /\ pc' = pc /\ pc # "done" /\ UNCHANGED <<level, hop, beacon, impl>>
      BY <2>1 DEF Upgrade, locals
    <3>2. (Pointers \subseteq seen)'
      BY <2>1 DEF Upgrade, Pointers, ReachInv, TypeOK
    <3> QED
      BY <3>1, <3>2, ReachGrows DEF ReachInv, SaysClean
  <2>2. CASE UNCHANGED vars
    <3>1. WithinTwo' = WithinTwo /\ WithinFour' = WithinFour /\ UNCHANGED <<seen, pc, locals, info>>
      BY <2>2 DEF vars, WithinTwo, WithinFour, LeadsTo
    <3>2. Pointers' = Pointers
      BY <2>2 DEF vars, chain, Pointers
    <3> QED
      BY <3>1, <3>2 DEF locals, ReachInv, SaysClean
  <2> QED
    BY <2>1, <2>2, WalkReach DEF Next
<1>3. StageInv /\ ReachInv => NeverMisled
  <2>1. WithinFour \subseteq LeadsTo({Address}) \cup LeadsTo(LeadsTo({Address}))
          \cup LeadsTo(LeadsTo(LeadsTo({Address})))
          \cup LeadsTo(LeadsTo(LeadsTo(LeadsTo({Address}))))
    BY DEF WithinFour, WithinTwo, LeadsTo
  <2>2. StageInv => (SaysPlain => kind[Address] \notin {"eip1967", "zeppelinos"})
    BY DEF StageInv
  <2>3. ReachInv => (SaysClean => info.scanned_address \in WithinFour)
    BY DEF ReachInv
  <2> QED
    BY <2>1, <2>2, <2>3, Zenon DEF NeverMisled
<1> QED
  BY InitStage, NextStage, <1>1, <1>2, <1>3, PTL DEF Spec

(***************************************************************************)
(* A quiet chain                                                           *)
(***************************************************************************)

Quiet == ~failed /\ upgrades = 0

\* The address runs the code of a, directly or through one proxy.
Delegated(a) ==
    \/ DelegatesTo(Address, a)
    \/ \E m \in Accounts : DelegatesTo(Address, m) /\ DelegatesTo(m, a)

\* What the reads so far have established, if all of them were answered.
QuietInv ==
    Quiet =>
        /\ pc \in HopReads /\ level # 1 => HasCode(hop)
        /\ pc \in {"beacon_code", "beacon_call"} => kind[hop] = "beacon_proxy" /\ beacon = target[hop]
        /\ pc = "beacon_call" => HasCode(beacon)
        /\ pc = "zos_slot" => kind[hop] = "zeppelinos" \/ ~IsProxy(hop)
        /\ Following /\ pc # "final_code" => DelegatesTo(Address, impl)
        /\ (pc \in HopReads /\ level = 3) \/ pc = "next_code" => DelegatesTo(impl, hop)
        /\ pc = "final_code" => Delegated(impl) /\ ~IsProxy(impl)

\* An address delegates to one place, so these leave nothing to be found.
LEMMA DeadEnds ==
    ASSUME NEW a, NEW b, DelegatesTo(Address, a),
           \/ a \notin Accounts
           \/ a \in Accounts /\ ~IsProxy(a) /\ ~HasCode(a)
           \/ a \in Accounts /\ DelegatesTo(a, b) /\ (b \notin Accounts \/ ~Runs(b))
    PROVE  IsProxy(Address) /\ \A t \in Accounts : ~LogicWithinTwoHops(Address, t)
BY DEF DelegatesTo, LogicWithinTwoHops, Runs

\* There resolve() reports a proxy whose logic it did not establish.
LEMMA ExactDeadEnd ==
    ASSUME UNCHANGED chain, IsProxy(Address), \A t \in Accounts : ~LogicWithinTwoHops(Address, t),
           pc' = "done", info'.is_proxy, info'.note
    PROVE  ExactWhenQuiet' /\ QuietInv'
<1>1. IsProxy(Address)' /\ (\A t \in Accounts : ~LogicWithinTwoHops(Address, t))'
  BY DEF IsProxy, LogicWithinTwoHops, DelegatesTo, Runs, HasCode, BeaconAnswer, chain
<1>2. ~SaysPlain' /\ ~SaysClean'
  BY DEF SaysPlain, SaysClean
<1>3. ExactWhenQuiet'
  BY <1>1, <1>2 DEF ExactWhenQuiet
<1> QED
  BY <1>3 DEF QuietInv, HopReads, Following

\* While the walk goes on there is nothing to be exact about.
LEMMA ExactUnderWay ==
    ASSUME pc' # "done"
    PROVE  ExactWhenQuiet'
BY DEF ExactWhenQuiet

\* The records that go with a dead end.
LEMMA DeadEndInfo ==
    ASSUME info \in Infos, NEW a,
           \/ info' \in {Noted, NotedAt(a)} /\ info.is_proxy
           \/ info' = [info EXCEPT !.is_proxy = TRUE, !.note = TRUE, !.implementation_address = a]
           \/ info' = [Proxy(a) EXCEPT !.note = TRUE]
    PROVE  info'.is_proxy /\ info'.note
BY DEF Noted, NotedAt, Proxy, Infos

\* The last check on a contract that delegates no further.
LEMMA CheckQuiet ==
    ASSUME UNCHANGED chain, NEW a, CheckFinal(a), Delegated(a), ~IsProxy(a)
    PROVE  ExactWhenQuiet' /\ QuietInv'
<1>1. pc' = "final_code" /\ impl' = a
  BY DEF CheckFinal
<1>2. Delegated(impl)' /\ ~IsProxy(impl)'
  BY <1>1 DEF Delegated, DelegatesTo, IsProxy, HasCode, BeaconAnswer, chain
<1> QED
  BY <1>1, <1>2, ExactUnderWay DEF QuietInv, HopReads, Following

\* What one call of _single_hop found is where its account delegates.
LEMMA FoundQuiet ==
    ASSUME TypeOK, StageInv, QuietInv, Quiet, UNCHANGED chain, pc \in HopReads,
           \/ \E i \in Accounts : FoundSlot(i) /\ DelegatesTo(hop, i)
           \/ \E i \in Accounts \cup {None} : FoundBeacon(i) /\ DelegatesTo(hop, i)
           \/ FoundNothing /\ ~IsProxy(hop)
    PROVE  ExactWhenQuiet' /\ QuietInv'
<1>1. /\ info \in Infos /\ level \in 1..3
      /\ level = 1 => hop = Address
      /\ level = 2 => hop = impl
      /\ level # 1 => info.is_proxy /\ impl \in Accounts /\ DelegatesTo(Address, impl) /\ HasCode(hop)
      /\ level = 3 => DelegatesTo(impl, hop)
  <2>1. info \in Infos /\ level \in 1..3 /\ (level # 1 => level > 1)
    BY DEF TypeOK
  <2>2. /\ level = 1 => hop = Address
        /\ level = 2 => hop = impl
        /\ level # 1 => info.is_proxy /\ impl \in Accounts
    BY <2>1 DEF StageInv, Following
  <2>3. pc # "final_code"
    BY DEF HopReads
  <2>4. /\ level # 1 => DelegatesTo(Address, impl) /\ HasCode(hop)
        /\ level = 3 => DelegatesTo(impl, hop)
    BY <2>1, <2>3, Zenon DEF QuietInv, Following
  <2> QED
    BY <2>1, <2>2, <2>4
<1>2. kind' = kind /\ target' = target
  BY DEF chain
\* The three ways to go on.
<1>3. ASSUME pc' \in {"admin_slot", "impl_code"}, DelegatesTo(Address, impl') PROVE QuietInv'
  BY <1>2, <1>3
  DEF QuietInv, HopReads, Following, DelegatesTo, IsProxy, HasCode, BeaconAnswer
<1>4. ASSUME pc' = "next_code", impl' = impl, DelegatesTo(Address, impl), DelegatesTo(impl, hop')
      PROVE  QuietInv'
  BY <1>2, <1>4
  DEF QuietInv, HopReads, Following, DelegatesTo, IsProxy, HasCode, BeaconAnswer
<1>5. ASSUME level = 3, ThirdProxy, IsProxy(hop) PROVE ExactWhenQuiet' /\ QuietInv'
  <2>1. IsProxy(Address) /\ \A t \in Accounts : ~LogicWithinTwoHops(Address, t)
    BY <1>1, <1>5, DeadEnds DEF Runs
  <2>2. pc' = "done" /\ info' = NotedAt(hop)
    BY <1>5 DEF ThirdProxy, Return
  <2>3. info'.is_proxy /\ info'.note
    <3>1. info \in Infos /\ info.is_proxy /\ info' \in {Noted, NotedAt(hop)}
      BY <1>1, <1>5, <2>2
    <3> QED
      BY <3>1, DeadEndInfo, Zenon
  <2> QED
    BY <2>1, <2>2, <2>3, ExactDeadEnd
<1>6. IsProxy(hop) => ~Runs(hop)
  BY DEF Runs
<1>7. ASSUME NEW i \in Accounts, FoundSlot(i), DelegatesTo(hop, i)
      PROVE  ExactWhenQuiet' /\ QuietInv'
  <2>1. CASE level = 1 /\ pc' = "admin_slot" /\ impl' = i
    BY <1>1, <1>3, <1>7, <2>1, ExactUnderWay
  <2>2. CASE level = 2 /\ pc' = "next_code" /\ hop' = i /\ impl' = impl
    BY <1>1, <1>4, <1>7, <2>2, ExactUnderWay
  <2>3. CASE level = 3 /\ ThirdProxy
    BY <1>5, <1>7, <2>3 DEF DelegatesTo
  <2> QED
    BY <1>7, <2>1, <2>2, <2>3 DEF FoundSlot
<1>8. ASSUME NEW i \in Accounts \cup {None}, FoundBeacon(i), DelegatesTo(hop, i)
      PROVE  ExactWhenQuiet' /\ QuietInv'
  <2>1. CASE level = 1 /\ Follow(i, Proxy(i)) /\ i \in {None, Address}
    <3>1. IsProxy(Address) /\ \A t \in Accounts : ~LogicWithinTwoHops(Address, t)
      BY <1>1, <1>8, <2>1, AccountsAssumption, DeadEnds DEF Runs, DelegatesTo
    <3>2. pc' = "done" /\ info' = [Proxy(i) EXCEPT !.note = TRUE]
      BY <2>1 DEF Follow
    <3> QED
      BY <1>1, <3>1, <3>2, DeadEndInfo, ExactDeadEnd
  <2>2. CASE level = 1 /\ Follow(i, Proxy(i)) /\ i \notin {None, Address}
    BY <1>1, <1>3, <1>8, <2>2, ExactUnderWay DEF Follow
  <2>3. CASE level = 2 /\ i = None /\ Return(NotedAt(impl))
    <3>1. IsProxy(Address) /\ \A t \in Accounts : ~LogicWithinTwoHops(Address, t)
      BY <1>1, <1>8, <2>3, AccountsAssumption, DeadEnds
    <3>2. pc' = "done" /\ info' = NotedAt(impl)
      BY <2>3 DEF Return
    <3>3. info'.is_proxy /\ info'.note
      <4>1. info \in Infos /\ info.is_proxy /\ info' \in {Noted, NotedAt(impl)}
        BY <1>1, <2>3, <3>2
      <4> QED
        BY <4>1, DeadEndInfo, Zenon
    <3> QED
      BY <3>1, <3>2, <3>3, ExactDeadEnd
  <2>4. CASE level = 2 /\ pc' = "next_code" /\ hop' = i /\ impl' = impl
    BY <1>1, <1>4, <1>8, <2>4, ExactUnderWay
  <2>5. CASE level = 3 /\ ThirdProxy
    BY <1>5, <1>8, <2>5 DEF DelegatesTo
  <2> QED
    BY <1>8, <2>1, <2>2, <2>3, <2>4, <2>5 DEF FoundBeacon
<1>9. CASE FoundNothing /\ ~IsProxy(hop)
  <2>1. CASE level = 1 /\ Return(info)
    <3>1. pc' = "done" /\ info' = info /\ ~IsProxy(Address)
      BY <1>1, <1>9, <2>1 DEF Return
    <3>2. info.state_read_ok /\ ~info.is_proxy
      BY <2>1 DEF StageInv, HopReads
    <3>3. ~IsProxy(Address)' /\ SaysPlain' /\ ~SaysClean'
          /\ (\A t \in Accounts : ~LogicWithinTwoHops(Address, t))'
      BY <1>2, <3>1, <3>2
      DEF SaysPlain, SaysClean, LogicWithinTwoHops, DelegatesTo, IsProxy, HasCode
    <3> QED
      BY <3>1, <3>3 DEF ExactWhenQuiet, QuietInv, HopReads, Following
  <2>2. CASE level = 2 /\ CheckFinal(impl)
    BY <1>1, <1>9, <2>2, CheckQuiet DEF Delegated
  <2>3. CASE level = 3 /\ CheckFinal(hop)
    BY <1>1, <1>9, <2>3, CheckQuiet DEF Delegated
  <2> QED
    BY <1>9, <2>1, <2>2, <2>3 DEF FoundNothing
<1> QED
  BY <1>7, <1>8, <1>9

\* Every read that is answered keeps what is established.
LEMMA WalkQuiet ==
    ASSUME TypeOK, StageInv, QuietInv, Walk
    PROVE  ExactWhenQuiet' /\ QuietInv'
<1>0. UNCHANGED chain /\ upgrades' = upgrades /\ kind' = kind /\ target' = target
  BY DEF Walk, NoEndpoint, StorageRead, StorageFails, ImplSlot, BeaconSlot, BeaconCode, BeaconCall,
         ZosSlot, AdminSlot, ImplCode, NextCode, FinalCode, At, chain
<1>1. CASE failed'
  BY <1>1 DEF ExactWhenQuiet, QuietInv, Quiet
<1>2. CASE ~failed' /\ ~Quiet
  <2>1. failed => failed'
    BY DEF Walk, NoEndpoint, StorageRead, StorageFails, ImplSlot, BeaconSlot, BeaconCode,
           BeaconCall, ZosSlot, AdminSlot, ImplCode, NextCode, FinalCode, Succeeds, Answers
  <2> QED
    BY <1>0, <1>2, <2>1 DEF ExactWhenQuiet, QuietInv, Quiet
<1>3. CASE ~failed' /\ Quiet
  <2>0. \A where : ~StorageFails(where)
    BY <1>3 DEF StorageFails
  <2>1. CASE ImplSlot
    <3>1. pc = "impl_slot" /\ hop \in Accounts /\ target[hop] \in Accounts
      BY <2>1 DEF ImplSlot, At, TypeOK
    <3>2. CASE kind[hop] = "eip1967"
      <4>1. FoundSlot(target[hop]) /\ DelegatesTo(hop, target[hop])
        BY <2>1, <3>1, <3>2, AccountsAssumption DEF ImplSlot, Slot, DelegatesTo, IsProxy
      <4> QED
        BY <1>0, <1>3, <3>1, <4>1, FoundQuiet DEF HopReads
    <3>3. CASE kind[hop] # "eip1967"
      <4>1. pc' = "beacon_slot" /\ UNCHANGED <<level, hop, impl>>
        BY <2>1, <3>3 DEF ImplSlot, Slot, GoOn, locals
      <4> QED
        BY <1>0, <1>3, <3>1, <4>1, ExactUnderWay
        DEF QuietInv, HopReads, Following, DelegatesTo, IsProxy, HasCode, BeaconAnswer
    <3> QED
      BY <3>2, <3>3
  <2>2. CASE BeaconSlot
    <3>1. /\ pc = "beacon_slot" /\ UNCHANGED <<level, hop, impl>>
          /\ hop \in Accounts /\ target[hop] \in Accounts /\ kind[hop] # "eip1967"
      BY <2>2 DEF BeaconSlot, At, TypeOK, StageInv, HopReads
    <3>2. \/ pc' = "beacon_code" /\ beacon' = target[hop] /\ kind[hop] = "beacon_proxy"
          \/ pc' = "zos_slot" /\ kind[hop] # "beacon_proxy"
      BY <2>2, <3>1, AccountsAssumption DEF BeaconSlot, Slot
    <3> QED
      BY <1>0, <1>3, <3>1, <3>2, ExactUnderWay
      DEF QuietInv, HopReads, Following, DelegatesTo, IsProxy, HasCode, BeaconAnswer
  <2>3. CASE BeaconCode
    <3>1. /\ pc = "beacon_code" /\ UNCHANGED <<level, hop, impl, beacon>>
          /\ kind[hop] = "beacon_proxy" /\ beacon = target[hop]
      BY <1>3, <2>3 DEF BeaconCode, At, GoOn, locals, QuietInv
    <3>2. \/ pc' = "beacon_call" /\ HasCode(beacon)
          \/ pc' = "zos_slot" /\ ~HasCode(beacon)
      BY <1>3, <2>3 DEF BeaconCode, Answers, GoOn
    <3> QED
      BY <1>0, <1>3, <3>1, <3>2, ExactUnderWay
      DEF QuietInv, HopReads, Following, DelegatesTo, IsProxy, HasCode, BeaconAnswer
  <2>4. CASE BeaconCall
    <3>1. /\ pc = "beacon_call" /\ FoundBeacon(BeaconAnswer(beacon)) /\ beacon \in Accounts
          /\ kind[hop] = "beacon_proxy" /\ beacon = target[hop] /\ HasCode(beacon)
      BY <1>3, <2>4 DEF BeaconCall, At, QuietInv, StageInv
    <3>2. BeaconAnswer(beacon) \in Accounts \cup {None} /\ DelegatesTo(hop, BeaconAnswer(beacon))
      BY <3>1 DEF BeaconAnswer, DelegatesTo, IsProxy, TypeOK
    <3> QED
      BY <1>0, <1>3, <3>1, <3>2, FoundQuiet DEF HopReads
  <2>5. CASE ZosSlot
    <3>1. /\ pc = "zos_slot" /\ hop \in Accounts /\ target[hop] \in Accounts
          /\ kind[hop] = "zeppelinos" \/ ~IsProxy(hop)
      BY <1>3, <2>5 DEF ZosSlot, At, TypeOK, QuietInv
    <3>2. CASE kind[hop] = "zeppelinos"
      <4>1. FoundSlot(target[hop]) /\ DelegatesTo(hop, target[hop])
        BY <2>5, <3>1, <3>2, AccountsAssumption DEF ZosSlot, Slot, DelegatesTo, IsProxy
      <4> QED
        BY <1>0, <1>3, <3>1, <4>1, FoundQuiet DEF HopReads
    <3>3. CASE kind[hop] # "zeppelinos"
      BY <1>0, <1>3, <2>5, <3>1, <3>3, FoundQuiet DEF ZosSlot, Slot, HopReads
    <3> QED
      BY <3>2, <3>3
  <2>6. CASE AdminSlot
    <3>1. pc = "admin_slot" /\ Follow(impl, info) /\ info \in Infos /\ impl \in Accounts
          /\ info.is_proxy
      BY <2>6 DEF AdminSlot, At, TypeOK, StageInv, Following
    <3>2. DelegatesTo(Address, impl)
      BY <1>3, <3>1 DEF QuietInv, Following
    <3>3. CASE impl = Address
      <4>1. IsProxy(Address) /\ \A t \in Accounts : ~LogicWithinTwoHops(Address, t)
        BY <3>1, <3>2, <3>3, DeadEnds DEF Runs, DelegatesTo
      <4>2. pc' = "done" /\ info' = Noted
        BY <3>1, <3>3 DEF Follow, Noted
      <4>3. info'.is_proxy /\ info'.note
        BY <3>1, <4>2, DeadEndInfo, Zenon
      <4> QED
        BY <1>0, <4>1, <4>2, <4>3, ExactDeadEnd
    <3>4. CASE impl # Address
      <4>1. pc' = "impl_code" /\ impl' = impl
        BY <3>1, <3>4, AccountsAssumption DEF Follow
      <4> QED
        BY <1>0, <3>2, <4>1, ExactUnderWay
        DEF QuietInv, HopReads, Following, DelegatesTo, IsProxy, HasCode, BeaconAnswer
    <3> QED
      BY <3>3, <3>4
  <2>7. CASE ImplCode
    <3>1. pc = "impl_code" /\ DelegatesTo(Address, impl) /\ impl \in Accounts
      BY <1>3, <2>7 DEF ImplCode, At, QuietInv, StageInv, Following
    <3>2. CASE HasCode(impl) /\ pc' = "impl_slot" /\ level' = 2 /\ hop' = impl /\ impl' = impl
      BY <1>0, <3>1, <3>2, ExactUnderWay
      DEF QuietInv, HopReads, Following, DelegatesTo, IsProxy, HasCode, BeaconAnswer
    <3>3. CASE ~HasCode(impl) /\ CheckFinal(impl)
      <4>1. ~IsProxy(impl)
        BY <3>3 DEF HasCode, IsProxy
      <4> QED
        BY <1>0, <3>1, <3>3, <4>1, CheckQuiet DEF Delegated
    <3> QED
      BY <1>3, <2>7, <3>2, <3>3 DEF ImplCode, Answers
  <2>8. CASE NextCode
    <3>1. /\ pc = "next_code" /\ info \in Infos /\ info.is_proxy /\ hop \in Accounts
          /\ DelegatesTo(Address, impl) /\ DelegatesTo(impl, hop) /\ impl \in Accounts
      BY <1>3, <2>8 DEF NextCode, At, TypeOK, StageInv, Following, QuietInv
    <3>2. CASE HasCode(hop) /\ pc' = "impl_slot" /\ level' = 3 /\ UNCHANGED <<hop, impl>>
      BY <1>0, <3>1, <3>2, ExactUnderWay
      DEF QuietInv, HopReads, Following, DelegatesTo, IsProxy, HasCode, BeaconAnswer
    <3>3. CASE ~HasCode(hop) /\ Return(NotedAt(hop))
      <4>1. IsProxy(Address) /\ \A t \in Accounts : ~LogicWithinTwoHops(Address, t)
        BY <3>1, <3>3, DeadEnds DEF Runs
      <4>2. pc' = "done" /\ info' = NotedAt(hop)
        BY <3>3 DEF Return
      <4>3. info'.is_proxy /\ info'.note
        BY <3>1, <4>2, DeadEndInfo, Zenon
      <4> QED
        BY <1>0, <4>1, <4>2, <4>3, ExactDeadEnd
    <3> QED
      BY <1>3, <2>8, <3>2, <3>3 DEF NextCode, Answers
  <2>9. CASE FinalCode
    <3>1. /\ pc = "final_code" /\ info \in Infos /\ info.is_proxy /\ info.state_read_ok /\ ~info.note
          /\ info.implementation_address = impl /\ impl \in Accounts
          /\ Delegated(impl) /\ ~IsProxy(impl)
      BY <1>3, <2>9 DEF FinalCode, At, TypeOK, StageInv, Following, QuietInv
    <3>2. CASE HasCode(impl) /\ Return([info EXCEPT !.scanned_address = impl])
      <4>1. /\ pc' = "done" /\ info'.is_proxy /\ info'.state_read_ok /\ ~info'.note
            /\ info'.implementation_address = impl /\ info'.scanned_address = impl
        BY <3>1, <3>2 DEF Return, Infos
      <4>2. LogicWithinTwoHops(Address, impl) /\ IsProxy(Address)
        BY <3>1, <3>2 DEF Delegated, LogicWithinTwoHops, Runs, DelegatesTo
      <4>3. LogicWithinTwoHops(Address, impl)' /\ IsProxy(Address)' /\ impl' = impl
        BY <1>0, <3>2, <4>2
        DEF LogicWithinTwoHops, Runs, DelegatesTo, IsProxy, HasCode, BeaconAnswer, Return, locals
      <4>4. SaysClean' /\ ~SaysPlain'
        BY <4>1 DEF SaysClean, SaysPlain
      <4>5. LogicWithinTwoHops(Address, info.scanned_address)'
        BY <4>1, <4>3 DEF LogicWithinTwoHops, Runs, DelegatesTo
      <4>6. ExactWhenQuiet'
        BY <3>1, <4>1, <4>3, <4>4, <4>5 DEF ExactWhenQuiet
      <4> QED
        BY <4>1, <4>6 DEF QuietInv, HopReads, Following
    <3>3. CASE ~HasCode(impl) /\ Return(Noted)
      <4>1. IsProxy(Address) /\ \A t \in Accounts : ~LogicWithinTwoHops(Address, t)
        BY <3>1, <3>3, DeadEnds DEF Delegated, Runs
      <4>2. pc' = "done" /\ info' = Noted
        BY <3>3 DEF Return
      <4>3. info'.is_proxy /\ info'.note
        BY <3>1, <4>2, DeadEndInfo, Zenon
      <4> QED
        BY <1>0, <4>1, <4>2, <4>3, ExactDeadEnd
    <3> QED
      BY <1>3, <2>9, <3>2, <3>3 DEF FinalCode, Answers
  <2> QED
    BY <2>0, <2>1, <2>2, <2>3, <2>4, <2>5, <2>6, <2>7, <2>8, <2>9 DEF Walk, NoEndpoint, StorageRead
<1> QED
  BY <1>1, <1>2, <1>3

(***************************************************************************)
(* On a chain of any size and shape that stands still and answers,         *)
(* resolve() is exact up to two hops and says so when it stops.            *)
(***************************************************************************)
THEOREM ExactWhenQuietHolds == Spec => []ExactWhenQuiet
<1>1. Init => ExactWhenQuiet /\ QuietInv
  BY DEF Init, ExactWhenQuiet, QuietInv, HopReads, Following
<1>2. TypeOK /\ StageInv /\ ExactWhenQuiet /\ QuietInv /\ [Next]_vars => ExactWhenQuiet' /\ QuietInv'
  <2> SUFFICES ASSUME TypeOK, StageInv, ExactWhenQuiet, QuietInv, [Next]_vars
               PROVE  ExactWhenQuiet' /\ QuietInv'
    OBVIOUS
  <2>1. ASSUME NEW a \in Accounts, Upgrade(a) PROVE ExactWhenQuiet' /\ QuietInv'
    <3>1. upgrades' # 0
      BY <2>1 DEF Upgrade, TypeOK
    <3> QED
      BY <3>1 DEF ExactWhenQuiet, QuietInv, Quiet
  <2>2. CASE UNCHANGED vars
    BY <2>2
    DEF vars, chain, locals, ExactWhenQuiet, QuietInv, Quiet, Following, Delegated, SaysPlain,
        SaysClean, LogicWithinTwoHops, Runs, DelegatesTo, IsProxy, HasCode, BeaconAnswer
  <2> QED
    BY <2>1, <2>2, WalkQuiet DEF Next
<1> QED
  BY InitStage, NextStage, <1>1, <1>2, PTL DEF Spec

(***************************************************************************)
(* The walk goes forward                                                   *)
(***************************************************************************)

LEMMA Places ==
    /\ Place("impl_slot") = 0 /\ Place("beacon_slot") = 1 /\ Place("beacon_code") = 2
    /\ Place("beacon_call") = 3 /\ Place("zos_slot") = 4 /\ Place("admin_slot") = 5
    /\ Place("impl_code") = 6 /\ Place("next_code") = 6
    /\ Place("final_code") = 20 /\ Place("done") = 21
BY DEF Place

\* The next read is a later one of the same hop, or the first of the next hop.
Forward ==
    \/ level' = level /\ Place(pc') > Place(pc)
    \/ level' = level + 1 /\ pc \in {"impl_code", "next_code"} /\ pc' = "impl_slot"

LEMMA ForwardAdvances ==
    ASSUME TypeOK, TypeOK', Forward
    PROVE  Position' > Position
<1> DEFINE l == level
           m == level'
           p == Place(pc)
           q == Place(pc')
<1>1. l \in 1..3 /\ m \in 1..3 /\ p \in Nat /\ q \in Nat
  BY Places DEF TypeOK, Reads
<1>2. \/ m = l /\ q > p
      \/ m = l + 1 /\ p = 6 /\ q = 0
  BY Places DEF Forward
<1>3. Position = 7 * (l - 1) + p /\ Position' = 7 * (m - 1) + q
  BY DEF Position
<1> HIDE DEF l, m, p, q
<1> QED
  BY <1>1, <1>2, <1>3

LEMMA WalkForward ==
    ASSUME TypeOK, StageInv, Walk
    PROVE  Forward
<1> USE Places DEF Forward
<1>1. ASSUME pc' = "done", UNCHANGED level, pc \in Reads PROVE Forward
  BY <1>1 DEF Reads
<1>2. ASSUME NEW r, Return(r), pc \in Reads PROVE Forward
  BY <1>1, <1>2 DEF Return, locals
<1>3. ASSUME NEW where \in {"impl_slot", "beacon_slot", "zos_slot", "admin_slot"},
             StorageFails(where)
      PROVE  Forward
  BY <1>2, <1>3 DEF StorageFails, At, Reads
<1>4. ASSUME pc \in HopReads,
             \/ \E i : FoundSlot(i) \/ FoundBeacon(i)
             \/ FoundNothing
      PROVE  Forward
  <2>1. ASSUME pc' \in {"admin_slot", "impl_code", "next_code", "final_code", "done"},
               UNCHANGED level
        PROVE  Forward
    BY <1>4, <2>1 DEF HopReads
  <2>2. ASSUME NEW r, Return(r) PROVE Forward
    BY <1>2, <1>4, <2>2 DEF HopReads, Reads
  <2>3. ASSUME NEW i, FoundSlot(i) PROVE Forward
    BY <2>1, <2>2, <2>3 DEF FoundSlot, ThirdProxy
  <2>4. ASSUME NEW i, FoundBeacon(i) PROVE Forward
    BY <2>1, <2>2, <2>4 DEF FoundBeacon, ThirdProxy, Follow
  <2>5. ASSUME FoundNothing PROVE Forward
    BY <2>1, <2>2, <2>5 DEF FoundNothing, CheckFinal
  <2> QED
    BY <1>4, <2>3, <2>4, <2>5
<1>5. CASE ImplSlot
  BY <1>4, <1>5 DEF ImplSlot, At, GoOn, locals, HopReads
<1>6. CASE BeaconSlot
  BY <1>6 DEF BeaconSlot, At
<1>7. CASE BeaconCode
  BY <1>7 DEF BeaconCode, At, GoOn, locals
<1>8. CASE BeaconCall
  BY <1>4, <1>8 DEF BeaconCall, At, HopReads
<1>9. CASE ZosSlot
  BY <1>4, <1>9 DEF ZosSlot, At, HopReads
<1>10. CASE AdminSlot
  BY <1>10 DEF AdminSlot, At, Follow
<1>11. CASE ImplCode
  BY <1>11 DEF ImplCode, At, CheckFinal, StageInv
<1>12. CASE NextCode
  <2>1. pc = "next_code" /\ level = 2
    BY <1>12 DEF NextCode, At, StageInv
  <2> QED
    BY <1>2, <1>12, <2>1 DEF NextCode, Reads
<1>13. CASE FinalCode
  BY <1>2, <1>13 DEF FinalCode, At, Reads
<1> QED
  BY <1>3, <1>5, <1>6, <1>7, <1>8, <1>9, <1>10, <1>11, <1>12, <1>13
  DEF Walk, NoEndpoint, StorageRead

\* No answer, failure or ring of pointers makes resolve() go round: every read
\* brings it nearer to its end, so their number is bounded whatever the chain
\* holds.
THEOREM WalkAdvancesHolds == Spec => WalkAdvances
<1>1. TypeOK /\ StageInv /\ [Next]_vars => [upgrades' = upgrades => Position' > Position]_vars
  <2> SUFFICES ASSUME TypeOK, StageInv, Next, upgrades' = upgrades PROVE Position' > Position
    OBVIOUS
  <2>1. Walk
    <3>1. ASSUME NEW a \in Accounts, Upgrade(a) PROVE FALSE
      BY <3>1 DEF Upgrade, TypeOK
    <3> QED
      BY <3>1 DEF Next
  <2> QED
    BY <2>1, NextStage, WalkForward, ForwardAdvances
<1> QED
  BY <1>1, InitStage, NextStage, PTL DEF Spec, WalkAdvances

(***************************************************************************)
(* What resolve() returns                                                  *)
(***************************************************************************)

\* Until it returns, the address to scan is the one asked about.
ShapeInv ==
    /\ pc # "done" => info.scanned_address = Address
    /\ pc \in HopReads /\ level = 1 => info.implementation_address = None
    /\ ReturnsAsPromised

\* The records that a return under way makes of the one in hand.
LEMMA NotedShape ==
    ASSUME info \in Infos, info.scanned_address = Address, info.is_proxy,
           NEW a \in Accounts \cup {None}
    PROVE  UnresolvedInfo(Noted) /\ UnresolvedInfo(NotedAt(a))
BY DEF Infos, Noted, NotedAt, UnresolvedInfo

\* The shapes exclude each other, by the note and by is_proxy.
LEMMA ShapesApart ==
    ASSUME NEW i, UnresolvedInfo(i) \/ PlainInfo(i)
    PROVE  ~ResolvedInfo(i)
BY DEF UnresolvedInfo, PlainInfo, ResolvedInfo

LEMMA FoundShape ==
    ASSUME TypeOK, StageInv, ShapeInv, pc \in HopReads,
           \/ \E i \in Accounts : FoundSlot(i)
           \/ \E i \in Accounts \cup {None} : FoundBeacon(i)
           \/ FoundNothing
    PROVE  ShapeInv'
<1>1. /\ info \in Infos /\ level \in 1..3 /\ hop \in Accounts /\ pc # "done"
      /\ info.scanned_address = Address /\ info.state_read_ok /\ ~info.note
      /\ level = 1 => info.implementation_address = None /\ ~info.is_proxy
      /\ level # 1 => info.is_proxy /\ impl \in Accounts
  BY DEF TypeOK, StageInv, ShapeInv, Following, HopReads
<1>2. ASSUME NEW a \in Accounts \cup {None}, level # 1, Return(NotedAt(a)) PROVE ShapeInv'
  <2>1. pc' = "done" /\ info' = NotedAt(a) /\ UnresolvedInfo(info')
    BY <1>1, <1>2, NotedShape DEF Return
  <2> QED
    BY <2>1, ShapesApart DEF ShapeInv, HopReads, ReturnsAsPromised, Returned
<1>3. ASSUME pc' \notin HopReads \cup {"done"}, info'.scanned_address = Address PROVE ShapeInv'
  BY <1>3 DEF ShapeInv, ReturnsAsPromised
<1>4. ASSUME NEW a, CheckFinal(a) PROVE ShapeInv'
  BY <1>1, <1>3, <1>4 DEF CheckFinal, Infos, HopReads
<1>5. ASSUME NEW i \in Accounts \cup {None}
      PROVE  /\ Proxy(i).scanned_address = Address /\ UnresolvedInfo([Proxy(i) EXCEPT !.note = TRUE])
  BY <1>1 DEF Proxy, Infos, UnresolvedInfo
<1>6. ASSUME NEW i \in Accounts, FoundSlot(i) PROVE ShapeInv'
  <2>1. CASE level = 1 /\ pc' = "admin_slot" /\ info' = Proxy(i)
    BY <1>3, <1>5, <2>1 DEF HopReads
  <2>2. CASE level = 2 /\ pc' = "next_code" /\ info' = info
    BY <1>1, <1>3, <2>2 DEF HopReads
  <2>3. CASE level = 3 /\ ThirdProxy
    BY <1>1, <1>2, <2>3 DEF ThirdProxy
  <2> QED
    BY <1>6, <2>1, <2>2, <2>3 DEF FoundSlot
<1>7. ASSUME NEW i \in Accounts \cup {None}, FoundBeacon(i) PROVE ShapeInv'
  <2>1. CASE level = 1 /\ Follow(i, Proxy(i)) /\ i \in {None, Address}
    <3>1. pc' = "done" /\ info' = [Proxy(i) EXCEPT !.note = TRUE] /\ UnresolvedInfo(info')
      BY <1>5, <2>1 DEF Follow
    <3> QED
      BY <3>1, ShapesApart DEF ShapeInv, HopReads, ReturnsAsPromised, Returned
  <2>2. CASE level = 1 /\ Follow(i, Proxy(i)) /\ i \notin {None, Address}
    <3>1. pc' = "impl_code" /\ info' = Proxy(i)
      BY <2>2 DEF Follow
    <3> QED
      BY <1>3, <1>5, <3>1 DEF HopReads
  <2>3. CASE level = 2 /\ Return(NotedAt(impl))
    BY <1>1, <1>2, <2>3
  <2>4. CASE level = 2 /\ pc' = "next_code" /\ info' = info
    BY <1>1, <1>3, <2>4 DEF HopReads
  <2>5. CASE level = 3 /\ ThirdProxy
    BY <1>1, <1>2, <2>5 DEF ThirdProxy
  <2> QED
    BY <1>7, <2>1, <2>2, <2>3, <2>4, <2>5 DEF FoundBeacon
<1>8. CASE FoundNothing
  <2>1. CASE level = 1 /\ Return(info)
    <3>1. pc' = "done" /\ info' = info /\ PlainInfo(info)
      BY <1>1, <2>1 DEF Return, PlainInfo
    <3> QED
      BY <3>1, ShapesApart DEF ShapeInv, HopReads, ReturnsAsPromised, Returned
  <2> QED
    BY <1>4, <1>8, <2>1 DEF FoundNothing
<1> QED
  BY <1>6, <1>7, <1>8

LEMMA WalkShape ==
    ASSUME TypeOK, StageInv, ShapeInv, Walk
    PROVE  ShapeInv'
<1>0. ASSUME pc # "done"
      PROVE  /\ info \in Infos /\ info.scanned_address = Address
             /\ info.state_read_ok /\ ~info.note
             /\ Following => info.is_proxy /\ impl \in Accounts
  BY <1>0 DEF TypeOK, StageInv, ShapeInv
<1>1. ASSUME NEW where, where # "done", StorageFails(where) PROVE ShapeInv'
  <2>1. pc' = "done" /\ info' = [Noted EXCEPT !.state_read_ok = FALSE] /\ pc # "done"
    BY <1>1 DEF StorageFails, Return, At
  <2>2. UnresolvedInfo(info')
    BY <1>0, <2>1 DEF Noted, Infos, UnresolvedInfo
  <2> QED
    BY <2>1, <2>2, ShapesApart DEF ShapeInv, HopReads, ReturnsAsPromised, Returned
<1>2. ASSUME pc \in HopReads, pc' \in HopReads, UNCHANGED <<level, info>> PROVE ShapeInv'
  BY <1>2 DEF ShapeInv, HopReads, ReturnsAsPromised
<1>3. ASSUME pc \in {"impl_code", "next_code"}, pc' = "impl_slot", level' \in {2, 3}, UNCHANGED info
      PROVE  ShapeInv'
  BY <1>3 DEF ShapeInv, HopReads, ReturnsAsPromised
<1>4. CASE ImplSlot
  <2>1. CASE kind[hop] = "eip1967"
    <3>1. target[hop] \in Accounts /\ FoundSlot(target[hop]) /\ pc \in HopReads
      BY <1>4, <2>1, AccountsAssumption DEF ImplSlot, At, Slot, TypeOK, HopReads
    <3> QED
      BY <3>1, FoundShape
  <2>2. CASE kind[hop] # "eip1967"
    BY <1>2, <1>4, <2>2 DEF ImplSlot, At, Slot, GoOn, locals, HopReads
  <2> QED
    BY <2>1, <2>2
<1>5. CASE BeaconSlot
  BY <1>2, <1>5 DEF BeaconSlot, At, HopReads
<1>6. CASE BeaconCode
  BY <1>2, <1>6 DEF BeaconCode, At, GoOn, locals, HopReads
<1>7. CASE BeaconCall
  <2>1. pc \in HopReads
    BY <1>7 DEF BeaconCall, At, HopReads
  <2>2. \E i \in Accounts \cup {None} : FoundBeacon(i)
    BY <1>7 DEF BeaconCall, At, BeaconAnswer, TypeOK, StageInv
  <2> QED
    BY <2>1, <2>2, FoundShape
<1>8. CASE ZosSlot
  <2>1. pc \in HopReads /\ (FoundSlot(target[hop]) \/ FoundNothing) /\ target[hop] \in Accounts
    BY <1>8, AccountsAssumption DEF ZosSlot, At, Slot, TypeOK, HopReads
  <2> QED
    BY <2>1, FoundShape
<1>9. CASE AdminSlot
  <2>1. pc = "admin_slot" /\ Follow(impl, info) /\ Following
    BY <1>9 DEF AdminSlot, At, Following
  <2>2. CASE pc' = "done" /\ info' = Noted
    <3>1. UnresolvedInfo(info')
      BY <1>0, <2>1, <2>2, NotedShape
    <3> QED
      BY <2>2, <3>1, ShapesApart DEF ShapeInv, HopReads, ReturnsAsPromised, Returned
  <2>3. CASE pc' = "impl_code" /\ info' = info
    BY <1>0, <2>1, <2>3 DEF ShapeInv, HopReads, ReturnsAsPromised
  <2> QED
    BY <2>1, <2>2, <2>3 DEF Follow, Noted
<1>10. CASE ImplCode
  <2>1. pc = "impl_code"
    BY <1>10 DEF ImplCode, At
  <2>2. CASE CheckFinal(impl)
    BY <1>0, <2>1, <2>2 DEF CheckFinal, Infos, ShapeInv, HopReads, ReturnsAsPromised
  <2> QED
    BY <1>3, <1>10, <2>1, <2>2 DEF ImplCode
<1>11. CASE NextCode
  <2>1. pc = "next_code" /\ Following /\ hop \in Accounts
    BY <1>11 DEF NextCode, At, Following, TypeOK
  <2>2. CASE Return(NotedAt(hop))
    <3>1. pc' = "done" /\ UnresolvedInfo(info')
      BY <1>0, <2>1, <2>2, NotedShape DEF Return
    <3> QED
      BY <3>1, ShapesApart DEF ShapeInv, HopReads, ReturnsAsPromised, Returned
  <2> QED
    BY <1>3, <1>11, <2>1, <2>2 DEF NextCode
<1>12. CASE FinalCode
  <2>1. pc = "final_code" /\ Following /\ info.implementation_address = impl
    BY <1>12 DEF FinalCode, At, Following, StageInv
  <2>2. /\ pc' = "done" /\ kind' = kind
        /\ \/ info' = [info EXCEPT !.scanned_address = impl] /\ HasCode(impl)
           \/ info' = Noted
    BY <1>12 DEF FinalCode, Return, At, Answers, chain
  <2>3. /\ ResolvedInfo([info EXCEPT !.scanned_address = impl])
        /\ [info EXCEPT !.scanned_address = impl].scanned_address = impl
        /\ UnresolvedInfo(Noted)
    BY <1>0, <2>1, NotedShape, AccountsAssumption DEF ResolvedInfo, Infos
  <2> QED
    BY <2>2, <2>3, ShapesApart DEF HasCode, ShapeInv, HopReads, ReturnsAsPromised, Returned
<1> QED
  BY <1>1, <1>4, <1>5, <1>6, <1>7, <1>8, <1>9, <1>10, <1>11, <1>12
  DEF Walk, NoEndpoint, StorageRead

\* resolve() returns one of the three shapes that its caller tells apart, and no
\* other: the assumption under which ScanCore is checked and proved.  A contract
\* that it names as an implementation without a doubt has code.
THEOREM ReturnsAsPromisedHolds == Spec => []ReturnsAsPromised
<1>1. Init => ShapeInv
  BY DEF Init, ShapeInv, ReturnsAsPromised
<1>2. TypeOK /\ StageInv /\ ShapeInv /\ [Next]_vars => ShapeInv'
  <2> SUFFICES ASSUME TypeOK, StageInv, ShapeInv, [Next]_vars PROVE ShapeInv'
    OBVIOUS
  <2>1. ASSUME UNCHANGED <<kind, pc, level, info>> PROVE ShapeInv'
    BY <2>1 DEF ShapeInv, ReturnsAsPromised, HasCode
  <2>2. ASSUME NEW a \in Accounts, Upgrade(a) PROVE ShapeInv'
    BY <2>1, <2>2 DEF Upgrade, locals
  <2>3. CASE UNCHANGED vars
    BY <2>1, <2>3 DEF vars, chain, locals
  <2> QED
    BY <2>2, <2>3, WalkShape DEF Next
<1>3. ShapeInv => ReturnsAsPromised
  BY DEF ShapeInv
<1> QED
  BY <1>1, <1>2, <1>3, InitStage, NextStage, PTL DEF Spec
=============================================================================

---------------------------- MODULE AccessProofs ----------------------------
(***************************************************************************)
(* Proofs about who may be served: Access, for any people, numbers, chats, *)
(* messages and policies, and then Admission, for any messages, commands,  *)
(* workers, sizes and bounds.                                              *)
(***************************************************************************)
EXTENDS Access, Admission, FiniteSetTheorems, TLAPS

-----------------------------------------------------------------------------
(* The inductive invariant.                                                *)

\* A number in the row of a person is one a message of that person showed.
PhoneWasShown == \A l \in Lids : phone[l] \in AddressesOf(l) \cup {None, "unknown"}

\* Who was granted the owner's commands has them under the policy in force.
GrantIsConfigured ==
  \A e \in Events : granted[e] =>
    policy.owner \in AddressesOf(Info[e].lid) /\ ~Info[e].fromMe

IInv == StandingIsConfigured /\ PhoneWasShown /\ GrantIsConfigured

-----------------------------------------------------------------------------
(* Lemmas about addresses.                                                 *)

LEMMA InfoType ==
  ASSUME NEW e \in Events
  PROVE  /\ Info[e].lid \in Lids /\ Info[e].alias \in Phones \cup {None}
         /\ Info[e].phoneFirst \in BOOLEAN /\ (Info[e].phoneFirst => Info[e].alias \in Phones)
         /\ Info[e].chat \in Groups \cup {StatusChat, None} /\ Info[e].fromMe \in BOOLEAN
         /\ Info[e].mentions \in Lids \cup {None}
  BY AccessAssumption DEF EventInfo

LEMMA PolicyType ==
  ASSUME NEW p \in Policies PROVE p.owner \in Lids \cup Phones /\ p.owner # None
  BY AccessAssumption DEF Chats

\* The addresses of a message are addresses of its sender.
LEMMA SenderAddresses ==
  ASSUME NEW e \in Events
  PROVE  /\ {Sender(e), SenderAlt(e), SenderPhone(e)} \subseteq AddressesOf(Info[e].lid)
         /\ SenderPhone(e) \in Lids \cup Phones
<1>1. Sender(e) \in {Info[e].lid, Info[e].alias} /\ SenderAlt(e) \in {Info[e].lid, Info[e].alias}
  BY DEF Sender, SenderAlt
<1>2. {Info[e].lid, Info[e].alias} \subseteq AddressesOf(Info[e].lid) BY DEF AddressesOf
<1>3. SenderPhone(e) \in {Sender(e), SenderAlt(e)} BY DEF SenderPhone, PhoneAddress
<1>4. SenderPhone(e) \in Lids \cup Phones
  BY InfoType DEF SenderPhone, PhoneAddress, Sender, SenderAlt
<1>5. QED BY <1>1, <1>2, <1>3, <1>4

LEMMA ChatType == ASSUME NEW e \in Events PROVE ChatOf(e) \in Chats
  BY InfoType, SenderAddresses DEF ChatOf, Chats

LEMMA AllowlistedIsInside ==
  ASSUME NEW p, NEW e \in Events, ChatAllowlisted(p, e) PROVE Inside(p, ChatOf(e))
  BY DEF ChatAllowlisted, Inside

-----------------------------------------------------------------------------
(* A message is claimed.                                                   *)

\* The references a message adds name nobody else.
LEMMA NewRefsAreNew ==
  ASSUME NEW c \in Chats, NEW need \in SUBSET Lids, NEW old \in [Lids -> Refs \cup {None}],
         \A l \in need : old[l] = None,
         \A l, k \in Lids : old[l] # None /\ old[l] = old[k] => l = k,
         NEW new \in [need -> {r \in Refs : \A l \in Lids : old[l] # r}],
         \A l, k \in need : new[l] = new[k] => l = k
  PROVE  LET all == [l \in Lids |-> IF l \in need THEN new[l] ELSE old[l]]
         IN  /\ all \in [Lids -> Refs \cup {None}]
             /\ \A l, k \in Lids : all[l] # None /\ all[l] = all[k] => l = k
<1> DEFINE all == [l \in Lids |-> IF l \in need THEN new[l] ELSE old[l]]
<1>1. all \in [Lids -> Refs \cup {None}] OBVIOUS
<1>2. ASSUME NEW l \in Lids, NEW k \in Lids, all[l] # None, all[l] = all[k] PROVE l = k
  <2>1. CASE l \in need /\ k \in need BY <1>2, <2>1
  <2>2. CASE l \in need /\ k \notin need BY <1>2, <2>2
  <2>3. CASE l \notin need /\ k \in need BY <1>2, <2>3
  <2>4. CASE l \notin need /\ k \notin need BY <1>2, <2>4
  <2>5. QED BY <2>1, <2>2, <2>3, <2>4
<1>3. QED BY <1>1, <1>2

LEMMA ClaimStep == ASSUME IInv, NEW e \in Events, Claim(e) PROVE IInv'
<1>1. PICK c \in Chats, l \in Lids : c = ChatOf(e) /\ l = Info[e].lid BY ChatType, InfoType
<1>2. /\ deliveries[e] < MaxDeliveries /\ deliveries' = [deliveries EXCEPT ![e] = @ + 1]
      /\ allowed' = [allowed EXCEPT ![c] = IF ChatAllowlisted(policy, e) THEN "yes" ELSE "no"]
      /\ owner' = [owner EXCEPT ![l] = IsOwner(policy, e)]
      /\ phone' = [k \in Lids |->
           IF k = l THEN SenderPhone(e)
           ELSE IF k = Info[e].mentions /\ ~Known(k) THEN None ELSE phone[k]]
      /\ row' = [row EXCEPT ![e] = IF @ = "absent" THEN "open" ELSE @]
      /\ at' = [at EXCEPT ![e] = IF row[e] \in {"absent", "open"} THEN "route" ELSE @]
      /\ marked' = [marked EXCEPT ![e] = ChatAllowlisted(policy, e)]
      /\ UNCHANGED <<policy, granted, todo, reply, ran, restarts>>
  BY <1>1 DEF Claim
<1>3. TypeOK /\ OwnerIsConfigured /\ AllowedIsConfigured /\ RefsNameOnePerson
  BY DEF IInv, StandingIsConfigured
<1>4. ref' \in [Chats -> [Lids -> Refs \cup {None}]] /\ RefsNameOnePerson'
  <2>1. PICK need, old : need = NeedRef(e) /\ old = ref[c] OBVIOUS
  <2>2. need \in SUBSET Lids /\ \A k \in need : old[k] = None
    BY <1>1, <2>1, InfoType DEF NeedRef
  <2>3. old \in [Lids -> Refs \cup {None}] /\ \A k, j \in Lids : old[k] # None /\ old[k] = old[j] => k = j
    BY <1>3, <2>1 DEF TypeOK, RefsNameOnePerson
  <2>4. PICK new \in NewRefs(e) : ref' = [ref EXCEPT ![ChatOf(e)] =
                 [k \in Lids |-> IF k \in NeedRef(e) THEN new[k] ELSE @[k]]]
    BY DEF Claim
  <2>5. new \in [need -> {r \in Refs : \A k \in Lids : old[k] # r}]
        /\ \A k, j \in need : new[k] = new[j] => k = j
    BY <1>1, <2>1, <2>4 DEF NewRefs, Fresh
  <2>6. PICK all : all = [k \in Lids |-> IF k \in need THEN new[k] ELSE old[k]] OBVIOUS
  <2>7. all \in [Lids -> Refs \cup {None}] /\ \A k, j \in Lids : all[k] # None /\ all[k] = all[j] => k = j
    BY <2>2, <2>3, <2>5, <2>6, NewRefsAreNew
  <2>8. ref' = [ref EXCEPT ![c] = all] BY <1>1, <2>1, <2>4, <2>6
  <2>9. ref \in [Chats -> [Lids -> Refs \cup {None}]] BY <1>3 DEF TypeOK
  <2>10. ref'[c] = all /\ \A d \in Chats \ {c} : ref'[d] = ref[d] BY <2>8, <2>9
  <2>11. RefsNameOnePerson' BY <1>3, <2>7, <2>10 DEF RefsNameOnePerson
  <2>12. QED BY <2>7, <2>8, <2>9, <2>11
<1>5. TypeOK'
  <2>1. SenderPhone(e) \in Lids \cup Phones BY SenderAddresses
  <2>2. phone' \in [Lids -> Lids \cup Phones \cup {None, "unknown"}] BY <1>2, <1>3, <2>1 DEF TypeOK
  <2>3. owner' \in [Lids -> BOOLEAN]
    <3>1. IsOwner(policy, e) \in BOOLEAN BY DEF IsOwner
    <3>2. QED BY <1>2, <1>3, <3>1 DEF TypeOK
  <2>4. marked' \in [Events -> BOOLEAN]
    <3>1. ChatAllowlisted(policy, e) \in BOOLEAN BY DEF ChatAllowlisted, ListsChat
    <3>2. QED BY <1>2, <1>3, <3>1 DEF TypeOK
  <2>5. deliveries' \in [Events -> 0..MaxDeliveries] BY <1>2, <1>3, AccessAssumption DEF TypeOK
  <2>6. allowed' \in [Chats -> {"none", "yes", "no"}] BY <1>2, <1>3 DEF TypeOK
  <2>7. row' \in [Events -> {"absent", "open", "ignored", "closed", "answered"}]
        /\ at' \in [Events -> {"idle", "route", "turn", "access", "dispatch"}]
    BY <1>2, <1>3 DEF TypeOK
  <2>8. QED BY <1>2, <1>3, <1>4, <2>2, <2>3, <2>4, <2>5, <2>6, <2>7 DEF TypeOK
<1>6. OwnerIsConfigured'
  <2>1. IsOwner(policy, e) => policy.owner \in AddressesOf(l) BY <1>1, SenderAddresses DEF IsOwner
  <2>2. ASSUME NEW k \in Lids, owner'[k] PROVE policy.owner \in AddressesOf(k)
    <3>1. CASE k = l BY <1>2, <1>3, <2>1, <2>2, <3>1 DEF TypeOK
    <3>2. CASE k # l BY <1>2, <1>3, <2>2, <3>2 DEF TypeOK, OwnerIsConfigured
    <3>3. QED BY <3>1, <3>2
  <2>3. QED BY <1>2, <2>2 DEF OwnerIsConfigured, AddressesOf
<1>7. AllowedIsConfigured'
  <2>1. ASSUME NEW d \in Chats, allowed'[d] = "yes" PROVE Inside(policy, d)
    <3>1. CASE d = c
      <4>1. ChatAllowlisted(policy, e) BY <1>2, <1>3, <2>1, <3>1 DEF TypeOK
      <4>2. QED BY <1>1, <3>1, <4>1, AllowlistedIsInside
    <3>2. CASE d # c BY <1>2, <1>3, <2>1, <3>2 DEF TypeOK, AllowedIsConfigured
    <3>3. QED BY <3>1, <3>2
  <2>2. QED BY <1>2, <2>1 DEF AllowedIsConfigured
<1>8. PhoneWasShown'
  <2>1. ASSUME NEW k \in Lids PROVE phone'[k] \in AddressesOf(k) \cup {None, "unknown"}
    BY <1>1, <1>2, SenderAddresses DEF IInv, PhoneWasShown
  <2>2. QED BY <2>1 DEF PhoneWasShown, AddressesOf
<1>9. GrantIsConfigured' BY <1>2 DEF IInv, GrantIsConfigured, AddressesOf
<1>10. QED BY <1>4, <1>5, <1>6, <1>7, <1>8, <1>9 DEF IInv, StandingIsConfigured

-----------------------------------------------------------------------------
(* The bot goes on with a message.                                         *)

\* The policy, the flags and the references stay, and so does what was granted.
LEMMA StandingStays ==
  ASSUME IInv, UNCHANGED <<policy, allowed, people>>, TypeOK', GrantIsConfigured'
  PROVE  IInv'
<1>1. UNCHANGED <<owner, phone, ref>> BY DEF people
<1>2. OwnerIsConfigured' BY <1>1 DEF IInv, StandingIsConfigured, OwnerIsConfigured, AddressesOf
<1>3. AllowedIsConfigured' BY DEF IInv, StandingIsConfigured, AllowedIsConfigured
<1>4. RefsNameOnePerson' BY <1>1 DEF IInv, StandingIsConfigured, RefsNameOnePerson
<1>5. PhoneWasShown' BY <1>1 DEF IInv, PhoneWasShown, AddressesOf
<1>6. QED BY <1>2, <1>3, <1>4, <1>5 DEF IInv, StandingIsConfigured

\* A step that grants nothing.
LEMMA GrantsStay ==
  ASSUME IInv, UNCHANGED <<policy, granted>> PROVE GrantIsConfigured'
  BY DEF IInv, GrantIsConfigured, AddressesOf

\* A message goes to another step, with its row and its reply.
LEMMA WorkType ==
  ASSUME TypeOK, NEW e \in Events, UNCHANGED <<policy, allowed, people, marked, todo, counters>>,
         NEW step \in {"idle", "turn", "access", "dispatch"}, To(e, step),
         \/ row' = row \/ \E state \in {"ignored", "closed", "answered"} : Settled(e, state),
         reply' = reply \/ reply' = [reply EXCEPT ![e] = "planned"],
         granted' \in [Events -> BOOLEAN], ran' \subseteq Events
  PROVE  TypeOK'
<1>1. at' \in [Events -> {"idle", "route", "turn", "access", "dispatch"}] BY DEF TypeOK, To
<1>2. row' \in [Events -> {"absent", "open", "ignored", "closed", "answered"}] BY DEF TypeOK, Settled
<1>3. reply' \in [Events -> {"none", "planned", "sent", "denied"}] BY DEF TypeOK
<1>4. QED BY <1>1, <1>2, <1>3 DEF TypeOK, people, counters

LEMMA RouteStep == ASSUME IInv, NEW e \in Events, Route(e) PROVE IInv'
<1>1. UNCHANGED <<policy, allowed, people, marked, granted, todo, reply, ran, counters>> BY DEF Route
<1>2. TypeOK BY DEF IInv, StandingIsConfigured
<1>3. \/ Ignored(e)
      \/ To(e, "access") /\ UNCHANGED row
      \/ To(e, "turn") /\ UNCHANGED row
  <2>1. CASE IgnoredAtOnce(e) BY <2>1 DEF Route
  <2>2. CASE ~IgnoredAtOnce(e) /\ IsCommand(e) BY <2>2 DEF Route
  <2>3. CASE ~IgnoredAtOnce(e) /\ ~IsCommand(e) BY <2>3 DEF Route
  <2>4. QED BY <2>1, <2>2, <2>3
<1>4. TypeOK'
  <2>1. granted' \in [Events -> BOOLEAN] /\ ran' \subseteq Events BY <1>1, <1>2 DEF TypeOK
  <2>2. QED BY <1>1, <1>2, <1>3, <2>1, WorkType DEF Ignored
<1>5. QED BY <1>1, <1>4, GrantsStay, StandingStays

LEMMA TurnStep == ASSUME IInv, NEW e \in Events, Turn(e) PROVE IInv'
<1>1. UNCHANGED <<policy, allowed, people, marked, granted, todo, ran, counters>> BY DEF Turn
<1>2. TypeOK BY DEF IInv, StandingIsConfigured
<1>3. Answered(e) \/ (To(e, "idle") /\ UNCHANGED <<row, reply>>) BY DEF Turn
<1>4. TypeOK'
  <2>1. granted' \in [Events -> BOOLEAN] /\ ran' \subseteq Events BY <1>1, <1>2 DEF TypeOK
  <2>2. QED BY <1>1, <1>2, <1>3, <2>1, WorkType DEF Answered
<1>5. QED BY <1>1, <1>4, GrantsStay, StandingStays

\* Who is granted the owner's commands has the flag.
LEMMA ReadAccessStep == ASSUME IInv, NEW e \in Events, ReadAccess(e) PROVE IInv'
<1>1. UNCHANGED <<policy, allowed, people, marked, todo, ran, counters>> BY DEF ReadAccess
<1>2. TypeOK BY DEF IInv, StandingIsConfigured
<1>3. CASE Authorized(e)
  <2>1. /\ granted' = [granted EXCEPT ![e] = ~Info[e].fromMe /\ owner[Info[e].lid]]
        /\ To(e, "dispatch") /\ UNCHANGED <<row, reply>>
    BY <1>3 DEF ReadAccess
  <2>2. PICK grant \in BOOLEAN : grant <=> ~Info[e].fromMe /\ owner[Info[e].lid] OBVIOUS
  <2>3. granted' = [granted EXCEPT ![e] = grant]
    <3>1. (~Info[e].fromMe /\ owner[Info[e].lid]) \in BOOLEAN OBVIOUS
    <3>2. grant = (~Info[e].fromMe /\ owner[Info[e].lid]) BY <2>2, <3>1
    <3>3. QED BY <2>1, <3>2
  <2>4. granted' \in [Events -> BOOLEAN] /\ ran' \subseteq Events BY <1>1, <1>2, <2>3 DEF TypeOK
  <2>5. TypeOK' BY <1>1, <1>2, <2>1, <2>4, WorkType
  <2>6. grant => policy.owner \in AddressesOf(Info[e].lid) /\ ~Info[e].fromMe
    BY <2>2, InfoType DEF IInv, StandingIsConfigured, OwnerIsConfigured
  <2>7. ASSUME NEW d \in Events, granted'[d]
        PROVE  policy.owner \in AddressesOf(Info[d].lid) /\ ~Info[d].fromMe
    <3>1. CASE d = e BY <1>2, <2>3, <2>6, <2>7, <3>1 DEF TypeOK
    <3>2. CASE d # e BY <1>2, <2>3, <2>7, <3>2 DEF TypeOK, IInv, GrantIsConfigured
    <3>3. QED BY <3>1, <3>2
  <2>8. GrantIsConfigured' BY <1>1, <2>7 DEF GrantIsConfigured, AddressesOf
  <2>9. QED BY <1>1, <2>5, <2>8, StandingStays
<1>4. CASE ~Authorized(e)
  <2>1. Answered(e) /\ UNCHANGED granted BY <1>4 DEF ReadAccess
  <2>2. granted' \in [Events -> BOOLEAN] /\ ran' \subseteq Events BY <1>1, <1>2, <2>1 DEF TypeOK
  <2>3. TypeOK' BY <1>1, <1>2, <2>1, <2>2, WorkType DEF Answered
  <2>4. QED BY <1>1, <2>1, <2>3, GrantsStay, StandingStays
<1>5. QED BY <1>3, <1>4

LEMMA DispatchStep == ASSUME IInv, NEW e \in Events, Dispatch(e) PROVE IInv'
<1>1. UNCHANGED <<policy, allowed, people, marked, granted, todo, counters>> BY DEF Dispatch
<1>2. TypeOK BY DEF IInv, StandingIsConfigured
<1>3. \/ To(e, "idle") /\ Settled(e, "closed") /\ ran' = ran \cup {e} /\ UNCHANGED reply
      \/ Answered(e) /\ UNCHANGED ran
  BY DEF Dispatch
<1>4. TypeOK'
  <2>1. granted' \in [Events -> BOOLEAN] /\ ran' \subseteq Events BY <1>1, <1>2, <1>3 DEF TypeOK
  <2>2. QED BY <1>1, <1>2, <1>3, <2>1, WorkType DEF Answered
<1>5. QED BY <1>1, <1>4, GrantsStay, StandingStays

LEMMA ClaimConflictsStep == ASSUME IInv, NEW e \in Events, ClaimConflicts(e) PROVE IInv'
<1>1. /\ UNCHANGED <<policy, allowed, people, work, outcome, restarts>>
      /\ deliveries[e] < MaxDeliveries /\ deliveries' = [deliveries EXCEPT ![e] = @ + 1]
  BY DEF ClaimConflicts
<1>2. deliveries' \in [Events -> 0..MaxDeliveries]
  BY <1>1, AccessAssumption DEF IInv, StandingIsConfigured, TypeOK
<1>3. TypeOK' BY <1>1, <1>2 DEF IInv, StandingIsConfigured, TypeOK, people, work, outcome
<1>4. granted' = granted BY <1>1 DEF work
<1>5. QED BY <1>1, <1>3, <1>4, GrantsStay, StandingStays

LEMMA SendStep == ASSUME IInv, NEW e \in Events, Send(e) PROVE IInv'
<1>1. /\ UNCHANGED <<policy, allowed, people, work, row, ran, counters>>
      /\ reply' = [reply EXCEPT ![e] = IF Flag(ChatOf(e)) THEN "sent" ELSE "denied"]
  BY DEF Send
<1>2. TypeOK' BY <1>1 DEF IInv, StandingIsConfigured, TypeOK, people, work, counters
<1>3. granted' = granted BY <1>1 DEF work
<1>4. QED BY <1>1, <1>2, <1>3, GrantsStay, StandingStays

LEMMA RecoverStep == ASSUME IInv, NEW e \in Events, Recover(e) PROVE IInv'
<1>1. /\ UNCHANGED <<policy, allowed, people, granted, outcome, counters>> /\ todo' = todo \ {e}
      /\ marked' = [marked EXCEPT ![e] = Flag(ChatOf(e))]
  BY DEF Recover
<1>2. at' = [at EXCEPT ![e] = "route"] \/ at' = [at EXCEPT ![e] = "idle"] BY DEF Recover, To
<1>3. at' \in [Events -> {"idle", "route", "turn", "access", "dispatch"}]
  BY <1>2 DEF IInv, StandingIsConfigured, TypeOK
<1>4. marked' \in [Events -> BOOLEAN]
  <2>1. Flag(ChatOf(e)) \in BOOLEAN BY DEF Flag
  <2>2. QED BY <1>1, <2>1 DEF IInv, StandingIsConfigured, TypeOK
<1>5. TypeOK' BY <1>1, <1>3, <1>4 DEF IInv, StandingIsConfigured, TypeOK, people, outcome, counters
<1>6. QED BY <1>1, <1>5, GrantsStay, StandingStays

-----------------------------------------------------------------------------
(* A restart writes the policy over the rows.                              *)

LEMMA RestartStep == ASSUME IInv, NEW p \in Policies, Restart(p) PROVE IInv'
<1>1. /\ restarts < MaxRestarts /\ restarts' = restarts + 1 /\ policy' = p
      /\ allowed' = [c \in Chats |->
           IF allowed[c] = "none" THEN "none" ELSE IF Relisted(p, c) THEN "yes" ELSE "no"]
      /\ owner' = [l \in Lids |-> Reowned(p, l)]
      /\ at' = [e \in Events |-> "idle"] /\ marked' = [e \in Events |-> FALSE]
      /\ granted' = [e \in Events |-> FALSE] /\ todo' = {e \in Events : Open(e)}
      /\ UNCHANGED <<phone, ref, outcome, deliveries>>
  BY DEF Restart
<1>2. TypeOK /\ RefsNameOnePerson BY DEF IInv, StandingIsConfigured
<1>3. TypeOK'
  <2>1. \A l \in Lids : Reowned(p, l) \in BOOLEAN BY DEF Reowned
  <2>2. owner' \in [Lids -> BOOLEAN] BY <1>1, <2>1
  <2>3. restarts' \in 0..MaxRestarts BY <1>1, <1>2, AccessAssumption DEF TypeOK
  <2>4. QED BY <1>1, <1>2, <2>2, <2>3 DEF TypeOK, outcome
<1>4. OwnerIsConfigured'
  <2>1. ASSUME NEW l \in Lids, Reowned(p, l) PROVE p.owner \in AddressesOf(l)
    <3>1. phone[l] # "unknown" /\ p.owner \in {l, phone[l]} BY <2>1 DEF Reowned, Known
    <3>2. l \in AddressesOf(l) BY DEF AddressesOf
    <3>3. QED BY <3>1, <3>2, PolicyType DEF IInv, PhoneWasShown
  <2>2. QED BY <1>1, <2>1 DEF OwnerIsConfigured, AddressesOf
<1>5. AllowedIsConfigured' BY <1>1 DEF AllowedIsConfigured, Relisted, Inside
<1>6. RefsNameOnePerson' BY <1>1, <1>2 DEF RefsNameOnePerson
<1>7. PhoneWasShown' BY <1>1 DEF IInv, PhoneWasShown, AddressesOf
<1>8. GrantIsConfigured' BY <1>1 DEF GrantIsConfigured
<1>9. QED BY <1>3, <1>4, <1>5, <1>6, <1>7, <1>8 DEF IInv, StandingIsConfigured

-----------------------------------------------------------------------------
(* The invariant holds.                                                    *)

LEMMA InitOK == ASSUME Init PROVE IInv
<1>1. TypeOK BY AccessAssumption DEF Init, TypeOK
<1>2. OwnerIsConfigured /\ AllowedIsConfigured /\ RefsNameOnePerson
  BY DEF Init, OwnerIsConfigured, AllowedIsConfigured, RefsNameOnePerson
<1>3. PhoneWasShown /\ GrantIsConfigured BY DEF Init, PhoneWasShown, GrantIsConfigured
<1>4. QED BY <1>1, <1>2, <1>3 DEF IInv, StandingIsConfigured

LEMMA NextKeeps == ASSUME IInv, [Next]_vars PROVE IInv'
<1>1. ASSUME NEW e \in Events,
             \/ Claim(e) \/ ClaimConflicts(e) \/ Route(e) \/ Turn(e) \/ ReadAccess(e)
             \/ Dispatch(e) \/ Send(e) \/ Recover(e)
      PROVE  IInv'
  BY <1>1, ClaimStep, ClaimConflictsStep, RouteStep, TurnStep, ReadAccessStep, DispatchStep,
     SendStep, RecoverStep
<1>2. ASSUME NEW p \in Policies, Restart(p) PROVE IInv' BY <1>2, RestartStep
<1>3. CASE UNCHANGED vars
  <2>1. UNCHANGED <<policy, allowed, people, work, outcome, counters>> BY <1>3 DEF vars
  <2>2. TypeOK' BY <2>1 DEF IInv, StandingIsConfigured, TypeOK, people, work, outcome, counters
  <2>3. granted' = granted BY <2>1 DEF work
  <2>4. QED BY <2>1, <2>2, <2>3, GrantsStay, StandingStays
<1>4. QED BY <1>1, <1>2, <1>3 DEF Next

(* The inductive invariant holds in every reachable state: what the rows    *)
(* say, the numbers they know people by and what was granted a command.     *)
THEOREM InvariantHolds == Spec => []IInv
<1>1. Init => IInv BY InitOK
<1>2. IInv /\ [Next]_vars => IInv' BY NextKeeps
<1>3. QED BY <1>1, <1>2, PTL DEF Spec

(* The owner and allowlist flags of the rows are those of the policy in     *)
(* force, whatever was claimed and however the bot was restarted, and a     *)
(* reference names one person of its chat.                                  *)
THEOREM StandingFollowsPolicy == Spec => []StandingIsConfigured
<1>1. IInv => StandingIsConfigured BY DEF IInv
<1>2. QED BY <1>1, InvariantHolds, PTL

\* What one step may do for a message.
Acts(e) ==
  /\ reply[e] # "sent" /\ reply'[e] = "sent" => Inside(policy, ChatOf(e))
  /\ e \in ran' \ ran /\ Info[e].text = "dump" =>
       policy.owner \in AddressesOf(Info[e].lid) /\ ~Info[e].fromMe

LEMMA SendActs == ASSUME IInv, NEW e \in Events, NEW d \in Events, Send(d) PROVE Acts(e)
<1>1. /\ ran' = ran
      /\ reply' = [reply EXCEPT ![d] = IF Flag(ChatOf(d)) THEN "sent" ELSE "denied"]
  BY DEF Send
<1>2. reply[e] # "sent" /\ reply'[e] = "sent" => Flag(ChatOf(e))
  BY <1>1 DEF IInv, StandingIsConfigured, TypeOK
<1>3. Flag(ChatOf(e)) => Inside(policy, ChatOf(e))
  BY ChatType DEF IInv, StandingIsConfigured, AllowedIsConfigured, Flag
<1>4. QED BY <1>1, <1>2, <1>3 DEF Acts

LEMMA DispatchActs == ASSUME IInv, NEW e \in Events, NEW d \in Events, Dispatch(d) PROVE Acts(e)
<1>1. reply' = reply \/ reply' = [reply EXCEPT ![d] = "planned"] BY DEF Dispatch, Answered
<1>2. reply'[e] = "sent" => reply[e] = "sent"
  BY <1>1 DEF IInv, StandingIsConfigured, TypeOK
<1>3. e \in ran' \ ran => e = d /\ Permits(Info[d].text, Facts(d)) BY DEF Dispatch
<1>4. Permits("dump", Facts(d)) => granted[d] BY DEF Permits, Facts
<1>5. e \in ran' \ ran /\ Info[e].text = "dump" => granted[e] BY <1>3, <1>4
<1>6. QED BY <1>2, <1>5 DEF Acts, IInv, GrantIsConfigured

LEMMA OthersDoNotAct ==
  ASSUME IInv, NEW e \in Events, NEW d \in Events, ran' = ran,
         reply' = reply \/ reply' = [reply EXCEPT ![d] = "planned"]
  PROVE  Acts(e)
<1>1. reply'[e] = "sent" => reply[e] = "sent" BY DEF IInv, StandingIsConfigured, TypeOK
<1>2. QED BY <1>1 DEF Acts

LEMMA StepActs == ASSUME IInv, [Next]_vars, NEW e \in Events PROVE Acts(e)
<1>1. ASSUME NEW d \in Events, Claim(d) \/ ClaimConflicts(d) \/ Route(d) \/ Recover(d) PROVE Acts(e)
  <2>1. UNCHANGED <<reply, ran>>
    BY <1>1 DEF Claim, ClaimConflicts, Route, Recover, outcome
  <2>2. QED BY <2>1 DEF Acts
<1>2. ASSUME NEW d \in Events, Turn(d) \/ ReadAccess(d) PROVE Acts(e)
  <2>1. /\ ran' = ran
        /\ reply' = reply \/ reply' = [reply EXCEPT ![d] = "planned"]
    BY <1>2 DEF Turn, ReadAccess, Answered
  <2>2. QED BY <2>1, OthersDoNotAct
<1>3. ASSUME NEW d \in Events, Dispatch(d) PROVE Acts(e) BY <1>3, DispatchActs
<1>4. ASSUME NEW d \in Events, Send(d) PROVE Acts(e) BY <1>4, SendActs
<1>5. ASSUME NEW p \in Policies, Restart(p) PROVE Acts(e) BY <1>5 DEF Restart, outcome, Acts
<1>6. CASE UNCHANGED vars BY <1>6 DEF vars, outcome, Acts
<1>7. QED BY <1>1, <1>2, <1>3, <1>4, <1>5, <1>6 DEF Next

(* A reply is sent, and the owner's command runs, only as the policy in     *)
(* force allows: a reply planned before the allowlist was narrowed is not   *)
(* sent, and a command of the last owner does not run for the next one.     *)
THEOREM OnlyInsideActs == Spec => ActsInside
<1>1. IInv /\ [Next]_vars =>
        [\A e \in Events :
           /\ reply[e] # "sent" /\ reply'[e] = "sent" => Inside(policy, ChatOf(e))
           /\ e \in ran' \ ran /\ Info[e].text = "dump" =>
                policy.owner \in AddressesOf(Info[e].lid) /\ ~Info[e].fromMe]_vars
  BY StepActs DEF Acts
<1>2. QED BY <1>1, InvariantHolds, PTL DEF Spec, ActsInside

-----------------------------------------------------------------------------
(* The inductive invariant of Admission.                                   *)

\* While the inbox is read back the queue is empty and no batch is out; a page
\* is held only until it joins the queue.
TurnIsApart ==
  /\ refilling # "none" => running /\ pending = <<>> /\ batch = <<>>
  /\ ~running => batch = <<>>
  /\ refilling # "read" => page = <<>>

\* Whoever is routed, held or answered has a row, and every row can be read back.
RowsFirst ==
  \A m \in Msgs :
    /\ stage[m] # "idle" \/ JudgedHere(m) \/ m \in Elems(batch) => status[m] # "absent"
    /\ status[m] # "absent" => m \in Elems(arrived)

\* The queue has m, or will read it back, or left it to the next startup.
InHands(m) ==
  \/ m \in Elems(pending) \cup Elems(batch) \cup Elems(page)
  \/ overflow \/ refilling = "reading" \/ Len(page) = MaxPending
  \/ m \in dropped

\* Once the judge has answered only the newest message of the burst is left, and
\* once that one is admitted or denied the queue has what the burst still holds.
JudgmentOver ==
  \A m \in Unfinished \cap Elems(judging) :
    /\ judgeStep \in {"admit", "deny"} => m = Last(judging)
    /\ judgeStep = "end" /\ m \notin Commands => InHands(m)

AdmissionInv == WaitersAreServed /\ TurnIsApart /\ RowsFirst /\ JudgmentOver

-----------------------------------------------------------------------------
(* Induction over the naturals, with a set for the property.               *)

\* The initial segments of the numbers in T are finite sets, and one of them has
\* no proper subset among them.
LEMMA LeastElement ==
  ASSUME NEW T, T \subseteq Nat, T # {}
  PROVE  \E x \in T : \A y \in T : x <= y
<1> DEFINE Segments == {0..n : n \in T}
<1>1. \A n \in T : 0..n \in FiniteSubsetsOf(Nat)
  <2> SUFFICES ASSUME NEW n \in T PROVE 0..n \in FiniteSubsetsOf(Nat) OBVIOUS
  <2>1. IsFiniteSet(0..n) BY FS_Interval
  <2>2. 0..n \subseteq Nat OBVIOUS
  <2>3. QED BY <2>1, <2>2 DEF FiniteSubsetsOf
<1>2. Segments \subseteq FiniteSubsetsOf(Nat) /\ Segments # {} BY <1>1
<1>3. IsWellFoundedOn(StrictSubsetOrdering(Nat), FiniteSubsetsOf(Nat))
  BY FS_StrictSubsetOrderingWellFounded
<1>4. PICK S \in Segments : \A U \in Segments : ~ (<<U, S>> \in StrictSubsetOrdering(Nat))
  BY <1>2, <1>3, WFMin
<1>5. PICK x \in T : S = 0..x OBVIOUS
<1>6. ASSUME NEW y \in T, ~(x <= y) PROVE FALSE
  <2>1. (0..y) \subseteq Nat /\ (0..x) \subseteq Nat /\ (0..y) \subseteq 0..x /\ 0..y # 0..x
    BY <1>6
  <2>2. <<0..y, S>> \in StrictSubsetOrdering(Nat)
    BY <2>1, <1>5 DEF StrictSubsetOrdering
  <2>3. QED BY <2>2, <1>4
<1>7. QED BY <1>6

LEMMA SetInduction ==
  ASSUME NEW S, 0 \in S, \A n \in Nat : n \in S => n + 1 \in S
  PROVE  Nat \subseteq S
<1> SUFFICES ASSUME Nat \ S # {} PROVE FALSE OBVIOUS
<1>1. PICK x \in Nat \ S : \A y \in Nat \ S : x <= y BY LeastElement
<1>2. x - 1 \in Nat /\ x - 1 \in S BY <1>1
<1>3. QED BY <1>1, <1>2

-----------------------------------------------------------------------------
(* What Filter returns.                                                    *)

Grow(s, T, g, i) == IF i = 0 THEN <<>>
        ELSE IF s[i] \in T THEN Append(g[i - 1], s[i]) ELSE g[i - 1]

LEMMA FilterExists ==
  ASSUME NEW s, NEW T, NEW n \in Nat
  PROVE  \E g : g = [i \in 0..n |-> Grow(s, T, g, i)]
<1> DEFINE S == {k \in Nat : \E g : g = [i \in 0..k |-> Grow(s, T, g, i)]}
<1>1. 0 \in S
  <2>1. [i \in 0..0 |-> <<>>] = [i \in 0..0 |-> Grow(s, T, [j \in 0..0 |-> <<>>], i)]
    BY DEF Grow
  <2>2. QED BY <2>1
<1>2. ASSUME NEW k \in Nat, k \in S PROVE k + 1 \in S
  <2>1. PICK g : g = [i \in 0..k |-> Grow(s, T, g, i)] BY <1>2
  <2> DEFINE h == [i \in 0..(k + 1) |-> IF i <= k THEN g[i] ELSE Grow(s, T, g, i)]
  <2>2. \A i \in 0..(k + 1) : h[i] = Grow(s, T, h, i)
    <3>1. ASSUME NEW i \in 0..(k + 1) PROVE h[i] = Grow(s, T, g, i)
      BY <2>1
    <3>2. ASSUME NEW i \in 0..(k + 1) PROVE Grow(s, T, g, i) = Grow(s, T, h, i)
      <4>1. i = 0 \/ h[i - 1] = g[i - 1] OBVIOUS
      <4>2. QED BY <4>1 DEF Grow
    <3>3. QED BY <3>1, <3>2
  <2>3. h = [i \in 0..(k + 1) |-> Grow(s, T, h, i)] BY <2>2
  <2> HIDE DEF h
  <2>4. QED BY <2>3
<1>3. QED BY <1>1, <1>2, SetInduction

LEMMA FilterIs == ASSUME NEW s, NEW T, Len(s) \in Nat
  PROVE \E g : /\ g = [i \in 0..Len(s) |-> Grow(s, T, g, i)]
               /\ Filter(s,T) = g[Len(s)]
<1>1. PICK g : g = [i \in 0..Len(s) |-> Grow(s, T, g, i)] BY FilterExists
<1>2. QED BY <1>1 DEF Filter, Grow

-----------------------------------------------------------------------------
(* The elements of a sequence, under the operations the queue uses.        *)

LEMMA ElemsIn == ASSUME NEW S, NEW s \in Seq(S) PROVE Elems(s) \subseteq S BY DEF Elems

LEMMA ElemsEmpty == Elems(<<>>) = {} BY DEF Elems

LEMMA ElemsAppend ==
  ASSUME NEW S, NEW s \in Seq(S), NEW m \in S
  PROVE  Elems(Append(s, m)) = Elems(s) \cup {m}
<1>1. Append(s, m) \in Seq(S) /\ Len(Append(s, m)) = Len(s) + 1
      /\ Append(s, m)[Len(s) + 1] = m /\ \A i \in 1..Len(s) : Append(s, m)[i] = s[i]
  OBVIOUS
<1>2. Len(s) + 1 \in DOMAIN Append(s, m) /\ DOMAIN s \subseteq DOMAIN Append(s, m)
  BY <1>1
<1>3. QED BY <1>1, <1>2 DEF Elems

LEMMA ElemsConcat ==
  ASSUME NEW S, NEW s \in Seq(S), NEW t \in Seq(S)
  PROVE  /\ s \o t \in Seq(S) /\ Len(s \o t) = Len(s) + Len(t)
         /\ Elems(s \o t) = Elems(s) \cup Elems(t)
<1>1. s \o t \in Seq(S) /\ Len(s \o t) = Len(s) + Len(t) OBVIOUS
<1>2. \A i \in 1..Len(s) : (s \o t)[i] = s[i] OBVIOUS
<1>3. \A i \in 1..Len(t) : (s \o t)[Len(s) + i] = t[i] OBVIOUS
<1>4. Elems(s) \subseteq Elems(s \o t) BY <1>1, <1>2 DEF Elems
<1>5. Elems(t) \subseteq Elems(s \o t)
  <2> SUFFICES ASSUME NEW i \in 1..Len(t) PROVE t[i] \in Elems(s \o t) BY DEF Elems
  <2>1. Len(s) + i \in DOMAIN (s \o t) BY <1>1
  <2>2. QED BY <2>1, <1>3 DEF Elems
<1>6. ASSUME NEW i \in DOMAIN (s \o t) PROVE (s \o t)[i] \in Elems(s) \cup Elems(t)
  <2>1. CASE i <= Len(s) BY <2>1, <1>1, <1>2 DEF Elems
  <2>2. CASE i > Len(s)
    <3>1. i - Len(s) \in 1..Len(t) BY <2>2, <1>1
    <3>2. (s \o t)[i] = t[i - Len(s)] BY <3>1, <1>3
    <3>3. QED BY <3>1, <3>2 DEF Elems
  <2>3. QED BY <2>1, <2>2, <1>1
<1>7. QED BY <1>1, <1>4, <1>5, <1>6 DEF Elems

\* A sequence is cut in two.
LEMMA ElemsCut ==
  ASSUME NEW S, NEW s \in Seq(S), NEW k \in 0..Len(s)
  PROVE  /\ SubSeq(s, 1, k) \in Seq(S) /\ Len(SubSeq(s, 1, k)) = k
         /\ \A i \in 1..k : SubSeq(s, 1, k)[i] = s[i]
         /\ SubSeq(s, k + 1, Len(s)) \in Seq(S)
         /\ Len(SubSeq(s, k + 1, Len(s))) = Len(s) - k
         /\ \A i \in 1..(Len(s) - k) : SubSeq(s, k + 1, Len(s))[i] = s[k + i]
         /\ Elems(s) = Elems(SubSeq(s, 1, k)) \cup Elems(SubSeq(s, k + 1, Len(s)))
<1> DEFINE a == SubSeq(s, 1, k)
           b == SubSeq(s, k + 1, Len(s))
<1>1. a \in Seq(S) /\ Len(a) = k /\ \A i \in 1..k : a[i] = s[i] OBVIOUS
<1>2. b \in Seq(S) /\ Len(b) = Len(s) - k /\ \A i \in 1..(Len(s) - k) : b[i] = s[k + i]
  OBVIOUS
<1> HIDE DEF a, b
<1>3. Elems(a) \subseteq Elems(s) /\ Elems(b) \subseteq Elems(s)
  <2>1. Elems(a) \subseteq Elems(s) BY <1>1 DEF Elems
  <2>2. ASSUME NEW i \in 1..Len(b) PROVE b[i] \in Elems(s)
    <3>1. k + i \in DOMAIN s BY <1>2
    <3>2. QED BY <3>1, <1>2 DEF Elems
  <2>3. Elems(b) \subseteq Elems(s)
    <3>1. DOMAIN b = 1..Len(b) BY <1>2
    <3>2. QED BY <2>2, <3>1 DEF Elems
  <2>4. QED BY <2>1, <2>3
<1>4. ASSUME NEW i \in 1..Len(s) PROVE s[i] \in Elems(a) \cup Elems(b)
  <2>1. CASE i <= k BY <2>1, <1>1 DEF Elems
  <2>2. CASE i > k
    <3>1. i - k \in 1..Len(b) /\ b[i - k] = s[i] BY <2>2, <1>2
    <3>2. QED BY <3>1, <1>2 DEF Elems
  <2>3. QED BY <2>1, <2>2
<1>5. Elems(s) \subseteq Elems(a) \cup Elems(b)
  <2>1. DOMAIN s = 1..Len(s) OBVIOUS
  <2>2. QED BY <2>1, <1>4 DEF Elems
<1>6. QED BY <1>1, <1>2, <1>3, <1>5 DEF a, b

LEMMA LastIn ==
  ASSUME NEW S, NEW s \in Seq(S), s # <<>>
  PROVE  Len(s) \in Nat \ {0} /\ Last(s) \in Elems(s) /\ Last(s) \in S
<1>1. Len(s) \in DOMAIN s OBVIOUS
<1>2. QED BY <1>1 DEF Last, Elems

LEMMA FilterElems ==
  ASSUME NEW S, NEW s \in Seq(S), NEW T
  PROVE  /\ Filter(s, T) \in Seq(S) /\ Len(Filter(s, T)) <= Len(s)
         /\ Elems(Filter(s, T)) = Elems(s) \cap T
<1>0. Len(s) \in Nat OBVIOUS
<1>1. PICK g : g = [i \in 0..Len(s) |-> Grow(s, T, g, i)] /\ Filter(s, T) = g[Len(s)]
  BY <1>0, FilterIs
<1> DEFINE Picked(k) == /\ g[k] \in Seq(S) /\ Len(g[k]) <= k
                        /\ Elems(g[k]) = {s[i] : i \in 1..k} \cap T
           P == {k \in Nat : k <= Len(s) => Picked(k)}
<1>2. 0 \in P
  <2>1. g[0] = <<>> BY <1>1, <1>0 DEF Grow
  <2>2. {s[i] : i \in 1..0} = {} OBVIOUS
  <2>3. Picked(0) BY <2>1, <2>2, ElemsEmpty
  <2>4. QED BY <2>3
<1>3. ASSUME NEW k \in Nat, k \in P PROVE k + 1 \in P
  <2> SUFFICES ASSUME k + 1 <= Len(s) PROVE Picked(k + 1) OBVIOUS
  <2>1. Picked(k) BY <1>3, <1>0
  <2>2. g[k + 1] = IF s[k + 1] \in T THEN Append(g[k], s[k + 1]) ELSE g[k]
    <3>1. g[k + 1] = Grow(s, T, g, k + 1) BY <1>1, <1>0
    <3>2. QED BY <3>1 DEF Grow
  <2>3. {s[i] : i \in 1..(k + 1)} = {s[i] : i \in 1..k} \cup {s[k + 1]} OBVIOUS
  <2>4. s[k + 1] \in S BY <1>0
  <2>5. CASE s[k + 1] \in T
    <3>1. PICK t : t = g[k] OBVIOUS
    <3>2. Elems(Append(t, s[k + 1])) = Elems(t) \cup {s[k + 1]}
      BY <2>1, <2>4, <3>1, ElemsAppend
    <3>3. Append(t, s[k + 1]) \in Seq(S) /\ Len(Append(t, s[k + 1])) <= k + 1
      BY <2>1, <2>4, <3>1
    <3>4. g[k + 1] = Append(t, s[k + 1]) BY <2>2, <2>5, <3>1
    <3>5. QED BY <2>1, <2>3, <2>5, <3>1, <3>2, <3>3, <3>4
  <2>6. CASE s[k + 1] \notin T BY <2>1, <2>2, <2>3, <2>6
  <2>7. QED BY <2>5, <2>6
<1>4. Len(s) \in P
  <2> HIDE DEF P
  <2>1. QED BY <1>0, <1>2, <1>3, SetInduction
<1>5. Elems(s) = {s[i] : i \in 1..Len(s)} BY DEF Elems
<1>6. QED BY <1>0, <1>1, <1>4, <1>5

-----------------------------------------------------------------------------
(* How a step keeps what the queue has.                                    *)

LEMMA InHandsKept ==
  ASSUME UNCHANGED queue, dropped \subseteq dropped', NEW m \in Msgs, InHands(m)
  PROVE  InHands(m)'
BY DEF InHands, queue

\* The steps that leave the judge and the rows of other messages alone.
LEMMA JudgmentOverKept ==
  ASSUME JudgmentOver, Unfinished' \subseteq Unfinished, UNCHANGED <<judging, judgeStep>>,
         \A m \in Unfinished' \ Commands : InHands(m) => InHands(m)'
  PROVE  JudgmentOver'
BY DEF JudgmentOver, Last, Elems

LEMMA RowsFirstKept ==
  ASSUME RowsFirst, UNCHANGED <<arrived, batch>>,
         \A n \in Msgs : status'[n] = "absent" <=> status[n] = "absent",
         \A n \in Msgs : stage'[n] # "idle" => stage[n] # "idle",
         \A n \in Msgs : JudgedHere(n)' => stage[n] # "idle" \/ JudgedHere(n)
  PROVE  RowsFirst'
BY DEF RowsFirst, Elems

\* A step of a worker that leaves the queue and the burst alone.
LEMMA NobodyForgottenKept ==
  ASSUME NobodyForgotten, Unfinished' \subseteq Unfinished,
         \A n \in Msgs : JudgedHere(n) => JudgedHere(n)',
         \A n \in Msgs : InHands(n) => InHands(n)',
         \A n \in Unfinished' \ Commands :
           stage[n] # "idle" => stage'[n] # "idle" \/ JudgedHere(n)' \/ InHands(n)'
  PROVE  NobodyForgotten'
<1>1. ASSUME NEW n \in Msgs, n \in Unfinished', n \notin Commands
      PROVE  stage'[n] # "idle" \/ JudgedHere(n)' \/ InHands(n)'
  <2>1. n \in Unfinished \ Commands BY <1>1
  <2>2. stage[n] # "idle" \/ JudgedHere(n) \/ InHands(n)
    BY <2>1 DEF NobodyForgotten, InHands
  <2>3. CASE stage[n] # "idle" BY <1>1, <2>3
  <2>4. CASE JudgedHere(n) \/ InHands(n) BY <2>4
  <2>5. QED BY <2>2, <2>3, <2>4
<1>2. QED BY <1>1 DEF NobodyForgotten, InHands, Unfinished

LEMMA JudgedHereIs ==
  ASSUME UNCHANGED <<awaiting, judging>>, NEW n PROVE JudgedHere(n)' <=> JudgedHere(n)
BY DEF JudgedHere, Elems

\* Parts of the invariant that only look at the burst or at the queue.
LEMMA BurstAndTurnKept ==
  ASSUME AdmissionInv, UNCHANGED burst, UNCHANGED <<refilling, running, pending, batch, page>>
  PROVE  HeldHasATimer' /\ TurnIsApart'
BY DEF AdmissionInv, WaitersAreServed, HeldHasATimer, TurnIsApart, burst

LEMMA EnqueueKeeps ==
  ASSUME AdmissionTypeOK, TurnIsApart, NEW m \in Msgs, Enqueue(m)
  PROVE  /\ pending' \in Seq(Msgs) /\ overflow' \in BOOLEAN /\ timer' \in BOOLEAN
         /\ UNCHANGED <<refilling, running, batch, passed, page>>
         /\ TurnIsApart'
         /\ dropped \subseteq dropped' =>
              \A n \in Msgs : InHands(n) \/ n = m => InHands(n)'
<1>1. pending \in Seq(Msgs) /\ {overflow, timer, running} \subseteq BOOLEAN BY DEF AdmissionTypeOK
<1>2. UNCHANGED <<refilling, running, batch, passed, page>> BY DEF Enqueue
<1>3. CASE m \in Elems(pending) /\ UNCHANGED <<pending, overflow, timer>>
  BY <1>1, <1>2, <1>3 DEF InHands, TurnIsApart
<1>4. CASE overflow' = TRUE /\ UNCHANGED <<pending, timer>>
  BY <1>1, <1>2, <1>4 DEF InHands, TurnIsApart
<1>5. CASE /\ refilling = "none" /\ pending' = Append(pending, m)
           /\ timer' = (timer \/ ~running) /\ UNCHANGED overflow
  <2>1. pending' \in Seq(Msgs) BY <1>1, <1>5
  <2>2. timer' \in BOOLEAN BY <1>1, <1>5
  <2>3. TurnIsApart' BY <1>2, <1>5 DEF TurnIsApart
  <2>4. Elems(pending') = Elems(pending) \cup {m} BY <1>1, <1>5, ElemsAppend
  <2>5. \A n \in Msgs : dropped \subseteq dropped' /\ (InHands(n) \/ n = m) => InHands(n)'
    BY <1>2, <1>5, <2>4 DEF InHands
  <2>6. QED BY <1>1, <1>2, <1>5, <2>1, <2>2, <2>3, <2>5
<1>6. QED BY <1>3, <1>4, <1>5 DEF Enqueue

-----------------------------------------------------------------------------
(* The workers.                                                            *)

LEMMA HandleKeeps == ASSUME AdmissionInv, NEW m \in Msgs, Handle(m) PROVE AdmissionInv'
<1>1. AdmissionTypeOK /\ HeldHasATimer /\ NobodyForgotten /\ TurnIsApart /\ RowsFirst /\ JudgmentOver
  BY DEF AdmissionInv, WaitersAreServed
<1>2. /\ status[m] = "absent" /\ status' = [status EXCEPT ![m] = "unfinished"]
      /\ arrived' = Append(arrived, m) /\ stage' = [stage EXCEPT ![m] = "mute"]
      /\ UNCHANGED <<burst, answers, queue, mute, holder, dropped, faults>>
  BY DEF Handle, Move
<1>3. AdmissionTypeOK'
  BY <1>1, <1>2 DEF AdmissionTypeOK, burst, answers, queue, Steps
<1>4. HeldHasATimer' BY <1>1, <1>2 DEF HeldHasATimer, burst
<1>5. TurnIsApart' BY <1>1, <1>2 DEF TurnIsApart, queue
<1>6. Elems(arrived') = Elems(arrived) \cup {m} BY <1>1, <1>2, ElemsAppend DEF AdmissionTypeOK
<1>7. RowsFirst'
  <2>1. Elems(arrived)' = Elems(arrived) \cup {m} BY <1>6 DEF Elems
  <2>2. \A n \in Msgs : JudgedHere(n)' <=> JudgedHere(n) BY <1>2 DEF JudgedHere, burst, Elems
  <2>3. \A n \in Msgs : n # m => status'[n] = status[n] /\ stage'[n] = stage[n] BY <1>1, <1>2
  <2>4. status'[m] = "unfinished" BY <1>1, <1>2 DEF AdmissionTypeOK
  <2>5. Elems(batch)' = Elems(batch) BY <1>2 DEF queue, Elems
  <2>6. QED BY <1>1, <2>1, <2>2, <2>3, <2>4, <2>5 DEF RowsFirst
<1>8. NobodyForgotten'
  BY <1>1, <1>2, InHandsKept
  DEF NobodyForgotten, AdmissionTypeOK, Unfinished, JudgedHere, InHands, burst, Elems, queue
<1>9. JudgmentOver'
  <2>1. ASSUME NEW n \in Msgs, n \in Unfinished', n \in Elems(judging)'
        PROVE  n \in Unfinished \cap Elems(judging)
    <3>1. n \in Elems(judging) BY <1>2, <2>1 DEF burst, Elems
    <3>2. n # m BY <1>1, <1>2, <3>1 DEF RowsFirst, JudgedHere
    <3>3. QED BY <1>1, <1>2, <2>1, <3>1, <3>2 DEF Unfinished, AdmissionTypeOK
  <2>2. \A n \in Msgs : InHands(n) => InHands(n)' BY <1>2, InHandsKept
  <2>3. Last(judging)' = Last(judging) BY <1>2 DEF Last, burst
  <2>4. QED BY <1>1, <1>2, <2>1, <2>2, <2>3 DEF JudgmentOver, burst, Unfinished
<1>10. QED BY <1>3, <1>4, <1>5, <1>7, <1>8, <1>9 DEF AdmissionInv, WaitersAreServed

\* Where a worker moves on and nothing else changes but the mute.
LEMMA MovesOn ==
  ASSUME AdmissionInv, NEW m \in Msgs, NEW step \in Steps \ {"idle"}, stage[m] # "idle",
         stage' = [stage EXCEPT ![m] = step], mute' \in {"none", "live", "expired"},
         holder' \in Msgs \cup {NoMsg},
         UNCHANGED <<inbox, burst, answers, queue, dropped, faults>>
  PROVE  AdmissionInv'
<1>1. AdmissionTypeOK /\ HeldHasATimer /\ NobodyForgotten /\ TurnIsApart /\ RowsFirst /\ JudgmentOver
  BY DEF AdmissionInv, WaitersAreServed
<1>2. AdmissionTypeOK' BY <1>1 DEF AdmissionTypeOK, inbox, burst, answers, queue
<1>3. HeldHasATimer' /\ TurnIsApart' BY BurstAndTurnKept DEF queue
<1>4. UNCHANGED <<awaiting, judging, judgeStep, arrived, status, dropped, queue>> BY DEF burst, inbox
<1>5. Unfinished' = Unfinished BY <1>4 DEF Unfinished
<1>6. \A n \in Msgs : JudgedHere(n)' <=> JudgedHere(n) BY <1>4, JudgedHereIs
<1>7. \A n \in Msgs : InHands(n) => InHands(n)' BY <1>4, InHandsKept
<1>8. \A n \in Msgs : stage'[n] # "idle" <=> stage[n] # "idle" BY <1>1 DEF AdmissionTypeOK
<1>9. RowsFirst' BY <1>1, <1>4, <1>6, <1>8, RowsFirstKept DEF queue
<1>10. NobodyForgotten' BY <1>1, <1>5, <1>6, <1>7, <1>8, NobodyForgottenKept
<1>11. JudgmentOver' BY <1>1, <1>4, <1>5, <1>7, JudgmentOverKept DEF Unfinished
<1>12. QED BY <1>2, <1>3, <1>9, <1>10, <1>11 DEF AdmissionInv, WaitersAreServed

LEMMA RoutedIs ==
  ASSUME NEW m \in Msgs, Routed(m)
  PROVE  \E step \in Steps \ {"idle"} : stage' = [stage EXCEPT ![m] = step]
<1>1. m \in Commands \/ (m \in Smart /\ NeedsJudgment(m)) \/ (m \notin Commands /\ ~NeedsJudgment(m))
  BY DEF NeedsJudgment
<1>2. QED BY <1>1 DEF Routed, Move, Steps, Smart

LEMMA MutesKeep ==
  ASSUME AdmissionInv, NEW m \in Msgs, IsChatMuted(m) \/ PurgeMute(m) \/ SetChatMute(m)
  PROVE  AdmissionInv'
<1>1. AdmissionTypeOK BY DEF AdmissionInv, WaitersAreServed
<1>2. CASE IsChatMuted(m)
  <2>1. PICK step \in Steps \ {"idle"} : stage' = [stage EXCEPT ![m] = step]
    <3>1. Routed(m) \/ Move(m, "revoke") \/ Move(m, "purge")
      <4>1. mute \in {"none", "live", "expired"} BY <1>1 DEF AdmissionTypeOK
      <4>2. QED BY <1>2, <4>1 DEF IsChatMuted
    <3>2. QED BY <3>1, RoutedIs DEF Move, Steps
  <2>2. stage[m] # "idle" /\ UNCHANGED <<inbox, burst, answers, queue, mute, holder, dropped, faults>>
    BY <1>2 DEF IsChatMuted
  <2>3. mute' \in {"none", "live", "expired"} /\ holder' \in Msgs \cup {NoMsg}
    BY <1>1, <2>2 DEF AdmissionTypeOK
  <2>4. QED BY <2>1, <2>2, <2>3, MovesOn
<1>3. CASE PurgeMute(m)
  <2>1. PICK step \in Steps \ {"idle"} : stage' = [stage EXCEPT ![m] = step]
    BY <1>3, RoutedIs DEF PurgeMute
  <2>2. stage[m] # "idle" /\ mute' = "none"
        /\ UNCHANGED <<inbox, burst, answers, queue, holder, dropped, faults>>
    BY <1>3 DEF PurgeMute
  <2>3. mute' \in {"none", "live", "expired"} /\ holder' \in Msgs \cup {NoMsg}
    BY <1>1, <2>2 DEF AdmissionTypeOK
  <2>4. QED BY <2>1, <2>2, <2>3, MovesOn
<1>4. CASE SetChatMute(m)
  <2>1. stage' = [stage EXCEPT ![m] = "close"] /\ "close" \in Steps \ {"idle"}
    BY <1>4 DEF SetChatMute, Move, Steps
  <2>2. stage[m] # "idle" /\ UNCHANGED <<inbox, burst, answers, queue, dropped, faults>>
    BY <1>4 DEF SetChatMute
  <2>3. mute' \in {"none", "live", "expired"} /\ holder' \in Msgs \cup {NoMsg}
    BY <1>4 DEF SetChatMute
  <2>4. QED BY <2>1, <2>2, <2>3, MovesOn
<1>5. QED BY <1>2, <1>3, <1>4

LEMMA SettleIs ==
  ASSUME AdmissionTypeOK, NEW m \in Msgs, NEW s \in {"ignored", "closed"}, Settle(m, s)
  PROVE  /\ status' \in [Msgs -> {"absent", "unfinished", "ignored", "closed", "answered"}]
         /\ Unfinished' = Unfinished \ {m}
         /\ \A n \in Msgs : status'[n] = "absent" <=> status[n] = "absent"
BY DEF AdmissionTypeOK, Settle, Unfinished

LEMMA IgnoreKeeps == ASSUME AdmissionInv, NEW m \in Msgs, Ignore(m) PROVE AdmissionInv'
<1>1. AdmissionTypeOK /\ HeldHasATimer /\ NobodyForgotten /\ TurnIsApart /\ RowsFirst /\ JudgmentOver
  BY DEF AdmissionInv, WaitersAreServed
<1>2. /\ Settle(m, "ignored") /\ stage' = [stage EXCEPT ![m] = "idle"]
      /\ UNCHANGED <<arrived, burst, answers, queue, mute, holder, dropped, faults>>
  BY DEF Ignore, Move
<1>3. /\ status' \in [Msgs -> {"absent", "unfinished", "ignored", "closed", "answered"}]
      /\ Unfinished' = Unfinished \ {m}
      /\ \A n \in Msgs : status'[n] = "absent" <=> status[n] = "absent"
  BY <1>1, <1>2, SettleIs
<1>4. AdmissionTypeOK' BY <1>1, <1>2, <1>3 DEF AdmissionTypeOK, burst, answers, queue, Steps
<1>5. HeldHasATimer' /\ TurnIsApart' BY <1>2, BurstAndTurnKept DEF queue
<1>6. UNCHANGED <<awaiting, judging, judgeStep, arrived, dropped, queue>> BY <1>2 DEF burst
<1>7. \A n \in Msgs : JudgedHere(n)' <=> JudgedHere(n) BY <1>6, JudgedHereIs
<1>8. \A n \in Msgs : InHands(n) => InHands(n)' BY <1>6, InHandsKept
<1>9. \A n \in Msgs : n # m => stage'[n] = stage[n] BY <1>1, <1>2 DEF AdmissionTypeOK
<1>10. stage'[m] = "idle" BY <1>1, <1>2 DEF AdmissionTypeOK
<1>11. RowsFirst' BY <1>1, <1>3, <1>6, <1>7, <1>9, <1>10, RowsFirstKept DEF queue
<1>12. NobodyForgotten' BY <1>1, <1>3, <1>7, <1>8, <1>9, NobodyForgottenKept DEF Unfinished
<1>13. JudgmentOver' BY <1>1, <1>3, <1>6, <1>8, JudgmentOverKept DEF Unfinished
<1>14. QED BY <1>4, <1>5, <1>11, <1>12, <1>13 DEF AdmissionInv, WaitersAreServed

LEMMA RevokeFailsKeeps == ASSUME AdmissionInv, NEW m \in Msgs, RevokeFails(m) PROVE AdmissionInv'
<1>1. AdmissionTypeOK /\ HeldHasATimer /\ NobodyForgotten /\ TurnIsApart /\ RowsFirst /\ JudgmentOver
  BY DEF AdmissionInv, WaitersAreServed
<1>2. /\ Fault /\ stage' = [stage EXCEPT ![m] = "idle"] /\ dropped' = dropped \cup {m}
      /\ UNCHANGED <<inbox, burst, answers, queue, mute, holder>>
  BY DEF RevokeFails, Move
<1>3. faults' \in 0..MaxFaults BY <1>1, <1>2, Bounds DEF AdmissionTypeOK, Fault
<1>4. AdmissionTypeOK' BY <1>1, <1>2, <1>3 DEF AdmissionTypeOK, inbox, burst, answers, queue, Steps
<1>5. HeldHasATimer' /\ TurnIsApart' BY <1>2, BurstAndTurnKept DEF queue
<1>6. UNCHANGED <<awaiting, judging, judgeStep, arrived, status, queue>> BY <1>2 DEF burst, inbox
<1>7. \A n \in Msgs : JudgedHere(n)' <=> JudgedHere(n) BY <1>6, JudgedHereIs
<1>8. \A n \in Msgs : InHands(n) => InHands(n)' BY <1>2, <1>6, InHandsKept
<1>9. InHands(m)' BY <1>2 DEF InHands
<1>10. \A n \in Msgs : n # m => stage'[n] = stage[n] BY <1>1, <1>2 DEF AdmissionTypeOK
<1>11. stage'[m] = "idle" BY <1>1, <1>2 DEF AdmissionTypeOK
<1>12. Unfinished' = Unfinished BY <1>6 DEF Unfinished
<1>13. RowsFirst' BY <1>1, <1>6, <1>7, <1>10, <1>11, RowsFirstKept DEF queue
<1>14. NobodyForgotten' BY <1>1, <1>7, <1>8, <1>9, <1>10, <1>12, NobodyForgottenKept DEF Unfinished
<1>15. JudgmentOver' BY <1>1, <1>6, <1>8, <1>12, JudgmentOverKept DEF Unfinished
<1>16. QED BY <1>4, <1>5, <1>13, <1>14, <1>15 DEF AdmissionInv, WaitersAreServed

LEMMA AwaitKeeps == ASSUME AdmissionInv, NEW m \in Msgs, AwaitJudgment(m) PROVE AdmissionInv'
<1>1. AdmissionTypeOK /\ HeldHasATimer /\ NobodyForgotten /\ TurnIsApart /\ RowsFirst /\ JudgmentOver
  BY DEF AdmissionInv, WaitersAreServed
<1>2. /\ stage[m] = "hold" /\ stage' = [stage EXCEPT ![m] = "idle"]
      /\ UNCHANGED <<judging, judgeStep, inbox, answers, queue, mute, holder, dropped, faults>>
  BY DEF AwaitJudgment, Move, burst
<1>3. \/ JudgedHere(m) /\ UNCHANGED <<awaiting, judgeTimer>>
      \/ awaiting' = Append(awaiting, m) /\ judgeTimer' = (judgeTimer \/ judging = <<>>)
  BY DEF AwaitJudgment, burst
<1>4. awaiting' \in Seq(Msgs) /\ judgeTimer' \in BOOLEAN
  <2>1. awaiting \in Seq(Msgs) /\ judgeTimer \in BOOLEAN BY <1>1 DEF AdmissionTypeOK
  <2>2. awaiting' \in Seq(Msgs) BY <1>3, <2>1
  <2>3. judgeTimer' \in BOOLEAN BY <1>3, <2>1, Zenon
  <2>4. QED BY <2>2, <2>3
<1>5. AdmissionTypeOK' BY <1>1, <1>2, <1>4 DEF AdmissionTypeOK, inbox, answers, queue, Steps
<1>6. HeldHasATimer' BY <1>1, <1>2, <1>3 DEF HeldHasATimer
<1>7. TurnIsApart' BY <1>1, <1>2 DEF TurnIsApart, queue
<1>8. UNCHANGED <<judging, judgeStep, arrived, status, queue, dropped>> BY <1>2 DEF inbox
<1>9. \A n \in Msgs : JudgedHere(n)' <=> JudgedHere(n) \/ n = m
  <2>1. CASE JudgedHere(m) /\ UNCHANGED awaiting BY <1>8, <2>1, JudgedHereIs
  <2>2. CASE awaiting' = Append(awaiting, m)
    <3>1. PICK waits : waits = awaiting' OBVIOUS
    <3>2. Elems(waits) = Elems(awaiting) \cup {m}
      BY <1>1, <2>2, <3>1, ElemsAppend DEF AdmissionTypeOK
    <3>3. Elems(awaiting)' = Elems(waits) BY <3>1 DEF Elems
    <3>4. Elems(judging)' = Elems(judging) BY <1>8 DEF Elems
    <3>5. QED BY <3>2, <3>3, <3>4 DEF JudgedHere
  <2>3. QED BY <1>3, <2>1, <2>2
<1>10. \A n \in Msgs : InHands(n) => InHands(n)' BY <1>8, InHandsKept
<1>11. \A n \in Msgs : n # m => stage'[n] = stage[n] BY <1>1, <1>2 DEF AdmissionTypeOK
<1>12. stage'[m] = "idle" BY <1>1, <1>2 DEF AdmissionTypeOK
<1>13. Unfinished' = Unfinished BY <1>8 DEF Unfinished
<1>14. RowsFirst' BY <1>1, <1>2, <1>8, <1>9, <1>11, <1>12, RowsFirstKept DEF queue
<1>15. NobodyForgotten' BY <1>1, <1>9, <1>10, <1>11, <1>13, NobodyForgottenKept DEF Unfinished
<1>16. JudgmentOver' BY <1>1, <1>8, <1>10, <1>13, JudgmentOverKept DEF Unfinished
<1>17. QED BY <1>5, <1>6, <1>7, <1>14, <1>15, <1>16 DEF AdmissionInv, WaitersAreServed

LEMMA AdmitKeeps == ASSUME AdmissionInv, NEW m \in Msgs, Admit(m) PROVE AdmissionInv'
<1>1. AdmissionTypeOK /\ HeldHasATimer /\ NobodyForgotten /\ TurnIsApart /\ RowsFirst /\ JudgmentOver
  BY DEF AdmissionInv, WaitersAreServed
<1>2. stage[m] = "admit" /\ UNCHANGED <<inbox, burst, answers, mute, holder, dropped, faults>>
  BY DEF Admit
<1>3. CASE Move(m, "ignore") /\ UNCHANGED queue
  <2>1. "ignore" \in Steps \ {"idle"} /\ stage' = [stage EXCEPT ![m] = "ignore"] BY <1>3 DEF Steps, Move
  <2>2. mute' \in {"none", "live", "expired"} /\ holder' \in Msgs \cup {NoMsg}
    BY <1>1, <1>2 DEF AdmissionTypeOK
  <2>3. QED BY <1>2, <1>3, <2>1, <2>2, MovesOn
<1>4. CASE Move(m, "idle") /\ Enqueue(m)
  <2>1. stage' = [stage EXCEPT ![m] = "idle"] BY <1>4 DEF Move
  <2>2. /\ pending' \in Seq(Msgs) /\ overflow' \in BOOLEAN /\ timer' \in BOOLEAN
        /\ UNCHANGED <<refilling, running, batch, passed, page>> /\ TurnIsApart'
        /\ \A n \in Msgs : InHands(n) \/ n = m => InHands(n)'
    BY <1>1, <1>2, <1>4, EnqueueKeeps
  <2>3. AdmissionTypeOK' BY <1>1, <1>2, <2>1, <2>2 DEF AdmissionTypeOK, inbox, burst, answers, Steps
  <2>4. HeldHasATimer' BY <1>1, <1>2 DEF HeldHasATimer, burst
  <2>5. UNCHANGED <<awaiting, judging, judgeStep, arrived, status>> BY <1>2 DEF inbox, burst
  <2>6. \A n \in Msgs : JudgedHere(n)' <=> JudgedHere(n) BY <2>5, JudgedHereIs
  <2>7. \A n \in Msgs : n # m => stage'[n] = stage[n] BY <1>1, <2>1 DEF AdmissionTypeOK
  <2>8. stage'[m] = "idle" BY <1>1, <2>1 DEF AdmissionTypeOK
  <2>9. Unfinished' = Unfinished BY <2>5 DEF Unfinished
  <2>10. RowsFirst' BY <1>1, <2>2, <2>5, <2>6, <2>7, <2>8, RowsFirstKept DEF queue
  <2>11. NobodyForgotten' BY <1>1, <2>2, <2>6, <2>7, <2>9, NobodyForgottenKept DEF Unfinished
  <2>12. JudgmentOver' BY <1>1, <2>2, <2>5, <2>9, JudgmentOverKept DEF Unfinished
  <2>13. QED BY <2>2, <2>3, <2>4, <2>10, <2>11, <2>12 DEF AdmissionInv, WaitersAreServed
<1>5. QED BY <1>3, <1>4 DEF Admit

LEMMA CloseKeeps == ASSUME AdmissionInv, NEW m \in Msgs, CloseCommand(m) PROVE AdmissionInv'
<1>1. AdmissionTypeOK /\ HeldHasATimer /\ NobodyForgotten /\ TurnIsApart /\ RowsFirst /\ JudgmentOver
  BY DEF AdmissionInv, WaitersAreServed
<1>2. /\ Settle(m, "closed") /\ stage' = [stage EXCEPT ![m] = "idle"] /\ holder' = NoMsg
      /\ UNCHANGED <<arrived, burst, answers, mute, dropped, faults,
                     pending, overflow, timer, batch, passed, page>>
  BY DEF CloseCommand, Move
<1>3. \/ UNCHANGED <<running, refilling>>
      \/ ~running /\ pending = <<>> /\ running' = TRUE /\ refilling' = "reading"
  BY DEF CloseCommand, StartsRefill
<1>4. /\ status' \in [Msgs -> {"absent", "unfinished", "ignored", "closed", "answered"}]
      /\ Unfinished' = Unfinished \ {m}
      /\ \A n \in Msgs : status'[n] = "absent" <=> status[n] = "absent"
  BY <1>1, <1>2, SettleIs
<1>5. running' \in BOOLEAN /\ refilling' \in {"none", "reading", "read"}
  <2>1. running \in BOOLEAN /\ refilling \in {"none", "reading", "read"} BY <1>1 DEF AdmissionTypeOK
  <2>2. QED BY <1>3, <2>1
<1>6. AdmissionTypeOK' BY <1>1, <1>2, <1>4, <1>5 DEF AdmissionTypeOK, burst, answers, Steps
<1>7. HeldHasATimer' BY <1>1, <1>2 DEF HeldHasATimer, burst
<1>8. refilling # "reading" \/ refilling' = "reading" BY <1>1, <1>3 DEF TurnIsApart
<1>9. TurnIsApart'
  <2>1. CASE UNCHANGED <<running, refilling>> BY <1>1, <1>2, <2>1 DEF TurnIsApart
  <2>2. CASE ~running /\ pending = <<>> /\ running' = TRUE /\ refilling' = "reading"
    <3>1. refilling = "none" /\ batch = <<>> /\ page = <<>>
      BY <1>1, <2>2 DEF TurnIsApart, AdmissionTypeOK
    <3>2. QED BY <1>2, <2>2, <3>1 DEF TurnIsApart
  <2>3. QED BY <1>3, <2>1, <2>2
<1>10. UNCHANGED <<awaiting, judging, judgeStep>> BY <1>2 DEF burst
<1>11. \A n \in Msgs : JudgedHere(n)' <=> JudgedHere(n) BY <1>10, JudgedHereIs
<1>12. \A n \in Msgs : InHands(n) => InHands(n)' BY <1>2, <1>8 DEF InHands, Elems
<1>13. \A n \in Msgs : n # m => stage'[n] = stage[n] BY <1>1, <1>2 DEF AdmissionTypeOK
<1>14. stage'[m] = "idle" BY <1>1, <1>2 DEF AdmissionTypeOK
<1>15. RowsFirst' BY <1>1, <1>2, <1>4, <1>11, <1>13, <1>14, RowsFirstKept DEF queue
<1>16. NobodyForgotten' BY <1>1, <1>4, <1>11, <1>12, <1>13, NobodyForgottenKept DEF Unfinished
<1>17. JudgmentOver' BY <1>1, <1>4, <1>10, <1>12, JudgmentOverKept DEF Unfinished
<1>18. QED BY <1>6, <1>7, <1>9, <1>15, <1>16, <1>17 DEF AdmissionInv, WaitersAreServed

LEMMA NothingMoves ==
  ASSUME AdmissionInv, mute' \in {"none", "live", "expired"},
         UNCHANGED <<inbox, burst, queue, worker, dropped, faults>>,
         judged' \in [Msgs -> {"none", "yes", "no"}],
         asking' \in [{"burst", "turn"} -> Msgs \cup {NoMsg}]
  PROVE  AdmissionInv'
<1>1. AdmissionTypeOK /\ HeldHasATimer /\ NobodyForgotten /\ TurnIsApart /\ RowsFirst /\ JudgmentOver
  BY DEF AdmissionInv, WaitersAreServed
<1>2. AdmissionTypeOK' BY <1>1 DEF AdmissionTypeOK, inbox, burst, queue, worker
<1>3. HeldHasATimer' /\ TurnIsApart' BY BurstAndTurnKept DEF queue
<1>4. UNCHANGED <<awaiting, judging, judgeStep, arrived, status, stage, queue, dropped>>
  BY DEF inbox, burst, worker
<1>5. \A n \in Msgs : JudgedHere(n)' <=> JudgedHere(n) BY <1>4, JudgedHereIs
<1>6. \A n \in Msgs : InHands(n) => InHands(n)' BY <1>4, InHandsKept
<1>7. Unfinished' = Unfinished BY <1>4 DEF Unfinished
<1>8. RowsFirst' BY <1>1, <1>4, <1>5, RowsFirstKept DEF queue
<1>9. NobodyForgotten' BY <1>1, <1>4, <1>5, <1>6, <1>7, NobodyForgottenKept
<1>10. JudgmentOver' BY <1>1, <1>4, <1>6, <1>7, JudgmentOverKept DEF Unfinished
<1>11. QED BY <1>2, <1>3, <1>8, <1>9, <1>10 DEF AdmissionInv, WaitersAreServed

LEMMA ExpireKeeps == ASSUME AdmissionInv, Expire PROVE AdmissionInv'
<1>1. mute' \in {"none", "live", "expired"}
      /\ UNCHANGED <<inbox, burst, queue, worker, dropped, faults>>
  BY DEF Expire
<1>2. judged' \in [Msgs -> {"none", "yes", "no"}]
      /\ asking' \in [{"burst", "turn"} -> Msgs \cup {NoMsg}]
  BY DEF Expire, answers, AdmissionInv, WaitersAreServed, AdmissionTypeOK
<1>3. QED BY <1>1, <1>2, NothingMoves

-----------------------------------------------------------------------------
(* The judge.                                                              *)

\* The memory of the judge keeps its type, whoever asks.
LEMMA AnswersAreTyped ==
  ASSUME AdmissionTypeOK, NEW who \in {"burst", "turn"}, NEW m \in Msgs,
         NEW verdict \in {"yes", "no"},
         Ask(who, m) \/ Answer(who, verdict) \/ Remembers(who, m)
  PROVE  /\ judged' \in [Msgs -> {"none", "yes", "no"}]
         /\ asking' \in [{"burst", "turn"} -> Msgs \cup {NoMsg}]
<1>1. /\ judged \in [Msgs -> {"none", "yes", "no"}]
      /\ asking \in [{"burst", "turn"} -> Msgs \cup {NoMsg}]
  BY DEF AdmissionTypeOK
<1>2. CASE Ask(who, m) BY <1>1, <1>2 DEF Ask
<1>3. CASE Answer(who, verdict) BY <1>1, <1>3 DEF Answer
<1>4. CASE Remembers(who, m) BY <1>1, <1>4 DEF Remembers, answers
<1>5. QED BY <1>2, <1>3, <1>4

LEMMA BurstHasALast ==
  ASSUME AdmissionInv, judgeStep # "none"
  PROVE  judging \in Seq(Msgs) /\ judging # <<>> /\ Last(judging) \in Msgs
<1>1. judging \in Seq(Msgs) BY DEF AdmissionInv, WaitersAreServed, AdmissionTypeOK
<1>2. judging # <<>> BY DEF AdmissionInv, WaitersAreServed, HeldHasATimer
<1>3. QED BY <1>1, <1>2, LastIn

LEMMA JudgeAsksKeeps == ASSUME AdmissionInv, JudgeAsks PROVE AdmissionInv'
<1>1. judgeStep = "skip" /\ Ask("burst", Last(judging))
      /\ UNCHANGED <<inbox, burst, queue, mute, worker, dropped, faults>>
  BY DEF JudgeAsks
<1>2. AdmissionTypeOK BY DEF AdmissionInv, WaitersAreServed
<1>3. Last(judging) \in Msgs BY <1>1, BurstHasALast
<1>4. /\ judged' \in [Msgs -> {"none", "yes", "no"}]
      /\ asking' \in [{"burst", "turn"} -> Msgs \cup {NoMsg}]
  BY <1>1, <1>2, <1>3, AnswersAreTyped
<1>5. mute' \in {"none", "live", "expired"} BY <1>1, <1>2 DEF AdmissionTypeOK
<1>6. QED BY <1>1, <1>4, <1>5, NothingMoves

LEMMA StartJudgmentKeeps == ASSUME AdmissionInv, StartJudgment PROVE AdmissionInv'
<1>1. AdmissionTypeOK /\ HeldHasATimer /\ NobodyForgotten /\ TurnIsApart /\ RowsFirst /\ JudgmentOver
  BY DEF AdmissionInv, WaitersAreServed
<1>2. /\ judging = <<>> /\ awaiting # <<>> /\ judgeTimer' = FALSE /\ judging' = awaiting
      /\ awaiting' = <<>> /\ judgeStep' = "skip"
      /\ UNCHANGED <<inbox, answers, queue, mute, worker, dropped, faults>>
  BY DEF StartJudgment
<1>3. AdmissionTypeOK' BY <1>1, <1>2 DEF AdmissionTypeOK, inbox, answers, queue, worker
<1>4. HeldHasATimer' BY <1>2 DEF HeldHasATimer
<1>5. TurnIsApart' BY <1>1, <1>2 DEF TurnIsApart, queue
<1>6. UNCHANGED <<arrived, status, stage, queue, dropped>> BY <1>2 DEF inbox, worker
<1>7. \A n \in Msgs : JudgedHere(n)' <=> JudgedHere(n)
  <2>1. Elems(judging) = {} BY <1>2, ElemsEmpty
  <2>2. Elems(judging)' = Elems(awaiting) BY <1>2 DEF Elems
  <2>3. Elems(awaiting)' = {} BY <1>2, ElemsEmpty DEF Elems
  <2>4. QED BY <2>1, <2>2, <2>3 DEF JudgedHere
<1>8. \A n \in Msgs : InHands(n) => InHands(n)' BY <1>6, InHandsKept
<1>9. Unfinished' = Unfinished BY <1>6 DEF Unfinished
<1>10. RowsFirst' BY <1>1, <1>6, <1>7, RowsFirstKept DEF queue
<1>11. NobodyForgotten' BY <1>1, <1>6, <1>7, <1>8, <1>9, NobodyForgottenKept
<1>12. JudgmentOver' BY <1>2 DEF JudgmentOver
<1>13. QED BY <1>3, <1>4, <1>5, <1>10, <1>11, <1>12 DEF AdmissionInv, WaitersAreServed

LEMMA JudgeSkipsKeeps == ASSUME AdmissionInv, NEW m \in Msgs, JudgeSkips(m) PROVE AdmissionInv'
<1>1. AdmissionTypeOK /\ HeldHasATimer /\ NobodyForgotten /\ TurnIsApart /\ RowsFirst /\ JudgmentOver
  BY DEF AdmissionInv, WaitersAreServed
<1>2. /\ status[m] = "unfinished" /\ status' = [status EXCEPT ![m] = "ignored"]
      /\ UNCHANGED <<arrived, burst, answers, queue, mute, worker, dropped, faults>>
  BY DEF JudgeSkips
<1>3. Settle(m, "ignored") BY <1>1, <1>2 DEF Settle, AdmissionTypeOK
<1>4. /\ status' \in [Msgs -> {"absent", "unfinished", "ignored", "closed", "answered"}]
      /\ Unfinished' = Unfinished \ {m}
      /\ \A n \in Msgs : status'[n] = "absent" <=> status[n] = "absent"
  BY <1>1, <1>3, SettleIs
<1>5. AdmissionTypeOK' BY <1>1, <1>2, <1>4 DEF AdmissionTypeOK, burst, answers, queue, worker
<1>6. HeldHasATimer' /\ TurnIsApart' BY <1>2, BurstAndTurnKept DEF queue
<1>7. UNCHANGED <<awaiting, judging, judgeStep, arrived, stage, queue, dropped>> BY <1>2 DEF burst, worker
<1>8. \A n \in Msgs : JudgedHere(n)' <=> JudgedHere(n) BY <1>7, JudgedHereIs
<1>9. \A n \in Msgs : InHands(n) => InHands(n)' BY <1>7, InHandsKept
<1>10. RowsFirst' BY <1>1, <1>4, <1>7, <1>8, RowsFirstKept DEF queue
<1>11. NobodyForgotten' BY <1>1, <1>4, <1>7, <1>8, <1>9, NobodyForgottenKept
<1>12. JudgmentOver' BY <1>1, <1>4, <1>7, <1>9, JudgmentOverKept DEF Unfinished
<1>13. QED BY <1>5, <1>6, <1>10, <1>11, <1>12 DEF AdmissionInv, WaitersAreServed

LEMMA JudgeSkipFailsKeeps ==
  ASSUME AdmissionInv, NEW m \in Msgs, JudgeSkipFails(m) PROVE AdmissionInv'
<1>1. AdmissionTypeOK /\ HeldHasATimer /\ NobodyForgotten /\ TurnIsApart /\ RowsFirst /\ JudgmentOver
  BY DEF AdmissionInv, WaitersAreServed
<1>2. /\ judgeStep = "skip" /\ judgeStep' = "end"
      /\ dropped' = dropped \cup (Elems(judging) \cap Unfinished)
      /\ UNCHANGED <<inbox, awaiting, judging, judgeTimer, answers, queue, mute, worker>>
  BY DEF JudgeSkipFails
<1>3. faults' \in 0..MaxFaults
  <2>1. UNCHANGED faults \/ Fault BY DEF JudgeSkipFails
  <2>2. QED BY <1>1, <2>1, Bounds DEF AdmissionTypeOK, Fault
<1>4. AdmissionTypeOK'
  BY <1>1, <1>2, <1>3 DEF AdmissionTypeOK, inbox, answers, queue, worker, Unfinished
<1>5. HeldHasATimer' BY <1>1, <1>2 DEF HeldHasATimer
<1>6. TurnIsApart' BY <1>1, <1>2 DEF TurnIsApart, queue
<1>7. UNCHANGED <<awaiting, judging, arrived, status, stage, queue>> BY <1>2 DEF inbox, worker
<1>8. \A n \in Msgs : JudgedHere(n)' <=> JudgedHere(n) BY <1>7, JudgedHereIs
<1>9. \A n \in Msgs : InHands(n) => InHands(n)' BY <1>2, <1>7, InHandsKept
<1>10. Unfinished' = Unfinished BY <1>7 DEF Unfinished
<1>11. RowsFirst' BY <1>1, <1>7, <1>8, RowsFirstKept DEF queue
<1>12. NobodyForgotten' BY <1>1, <1>7, <1>8, <1>9, <1>10, NobodyForgottenKept
<1>13. JudgmentOver'
  <2>1. ASSUME NEW n \in Msgs, n \in Unfinished', n \in Elems(judging)' PROVE n \in dropped'
    <3>1. Elems(judging)' = Elems(judging) BY <1>7 DEF Elems
    <3>2. QED BY <1>2, <1>10, <2>1, <3>1
  <2>2. QED BY <1>2, <2>1 DEF JudgmentOver, InHands, Unfinished
<1>14. QED BY <1>4, <1>5, <1>6, <1>11, <1>12, <1>13 DEF AdmissionInv, WaitersAreServed

LEMMA JudgeAnswersKeeps == ASSUME AdmissionInv, JudgeAnswers PROVE AdmissionInv'
<1>1. AdmissionTypeOK /\ HeldHasATimer /\ NobodyForgotten /\ TurnIsApart /\ RowsFirst /\ JudgmentOver
  BY DEF AdmissionInv, WaitersAreServed
<1>2. /\ judgeStep = "skip" /\ OnlyNewestLeft /\ judgeStep' \in {"admit", "deny"}
      /\ UNCHANGED <<inbox, awaiting, judging, judgeTimer, queue, mute, worker, dropped, faults>>
  BY DEF JudgeAnswers
<1>3. Last(judging) \in Msgs /\ judging \in Seq(Msgs) BY <1>2, BurstHasALast
<1>4. /\ judged' \in [Msgs -> {"none", "yes", "no"}]
      /\ asking' \in [{"burst", "turn"} -> Msgs \cup {NoMsg}]
  <2>1. Answer("burst", "yes") \/ Answer("burst", "no") \/ Remembers("burst", Last(judging))
    BY DEF JudgeAnswers
  <2>2. QED BY <1>1, <1>3, <2>1, AnswersAreTyped
<1>5. AdmissionTypeOK' BY <1>1, <1>2, <1>4 DEF AdmissionTypeOK, inbox, queue, worker
<1>6. HeldHasATimer' BY <1>1, <1>2 DEF HeldHasATimer
<1>7. TurnIsApart' BY <1>1, <1>2 DEF TurnIsApart, queue
<1>8. UNCHANGED <<awaiting, judging, arrived, status, stage, queue, dropped>> BY <1>2 DEF inbox, worker
<1>9. \A n \in Msgs : JudgedHere(n)' <=> JudgedHere(n) BY <1>8, JudgedHereIs
<1>10. \A n \in Msgs : InHands(n) => InHands(n)' BY <1>8, InHandsKept
<1>11. Unfinished' = Unfinished BY <1>8 DEF Unfinished
<1>12. RowsFirst' BY <1>1, <1>8, <1>9, RowsFirstKept DEF queue
<1>13. NobodyForgotten' BY <1>1, <1>8, <1>9, <1>10, <1>11, NobodyForgottenKept
<1>14. JudgmentOver'
  <2>1. ASSUME NEW n \in Unfinished, n \in Elems(judging) PROVE n = Last(judging)
    <3>1. PICK i \in 1..Len(judging) : judging[i] = n BY <1>3, <2>1 DEF Elems
    <3>2. CASE i = Len(judging) BY <3>1, <3>2 DEF Last
    <3>3. CASE i \in 1..(Len(judging) - 1)
      BY <1>2, <2>1, <3>1, <3>3 DEF OnlyNewestLeft, Unfinished
    <3>4. QED BY <1>3, <3>1, <3>2, <3>3
  <2>2. Elems(judging)' = Elems(judging) /\ Last(judging)' = Last(judging)
    BY <1>8 DEF Elems, Last
  <2>3. QED BY <1>2, <1>11, <2>1, <2>2 DEF JudgmentOver
<1>15. QED BY <1>5, <1>6, <1>7, <1>12, <1>13, <1>14 DEF AdmissionInv, WaitersAreServed

LEMMA JudgeAdmitsKeeps == ASSUME AdmissionInv, JudgeAdmits PROVE AdmissionInv'
<1>1. AdmissionTypeOK /\ HeldHasATimer /\ NobodyForgotten /\ TurnIsApart /\ RowsFirst /\ JudgmentOver
  BY DEF AdmissionInv, WaitersAreServed
<1>2. /\ judgeStep \in {"admit", "deny"} /\ judgeStep' = "end"
      /\ UNCHANGED <<arrived, awaiting, judging, judgeTimer, answers, mute, worker, dropped, faults>>
  BY DEF JudgeAdmits
<1>3. PICK m \in Msgs : m = Last(judging) BY <1>2, BurstHasALast
<1>4. HeldHasATimer' BY <1>1, <1>2 DEF HeldHasATimer
<1>5. UNCHANGED <<awaiting, judging, arrived, stage, dropped>> BY <1>2 DEF worker
<1>6. \A n \in Msgs : JudgedHere(n)' <=> JudgedHere(n) BY <1>5, JudgedHereIs
<1>7. \A n \in Unfinished \cap Elems(judging) : n = m BY <1>1, <1>2, <1>3 DEF JudgmentOver
<1>8. Elems(judging)' = Elems(judging) BY <1>5 DEF Elems
<1>9. CASE judgeStep = "admit"
  <2>1. Enqueue(m) /\ UNCHANGED status BY <1>3, <1>9 DEF JudgeAdmits
  <2>2. /\ pending' \in Seq(Msgs) /\ overflow' \in BOOLEAN /\ timer' \in BOOLEAN
        /\ UNCHANGED <<refilling, running, batch, passed, page>> /\ TurnIsApart'
        /\ \A n \in Msgs : InHands(n) \/ n = m => InHands(n)'
    BY <1>1, <1>5, <2>1, EnqueueKeeps
  <2>3. AdmissionTypeOK' BY <1>1, <1>2, <2>1, <2>2 DEF AdmissionTypeOK, answers, worker
  <2>4. Unfinished' = Unfinished BY <2>1 DEF Unfinished
  <2>5. RowsFirst' BY <1>1, <1>5, <1>6, <2>1, <2>2, RowsFirstKept DEF queue
  <2>6. NobodyForgotten' BY <1>1, <1>5, <1>6, <2>2, <2>4, NobodyForgottenKept DEF Unfinished
  <2>7. JudgmentOver' BY <1>2, <1>7, <1>8, <2>2, <2>4 DEF JudgmentOver, Unfinished
  <2>8. QED BY <1>4, <2>2, <2>3, <2>5, <2>6, <2>7 DEF AdmissionInv, WaitersAreServed
<1>10. CASE judgeStep = "deny"
  <2>1. Settle(m, "ignored") /\ UNCHANGED queue BY <1>3, <1>10 DEF JudgeAdmits
  <2>2. /\ status' \in [Msgs -> {"absent", "unfinished", "ignored", "closed", "answered"}]
        /\ Unfinished' = Unfinished \ {m}
        /\ \A n \in Msgs : status'[n] = "absent" <=> status[n] = "absent"
    BY <1>1, <2>1, SettleIs
  <2>3. AdmissionTypeOK' BY <1>1, <1>2, <2>1, <2>2 DEF AdmissionTypeOK, answers, worker, queue
  <2>4. TurnIsApart' BY <1>1, <2>1 DEF TurnIsApart, queue
  <2>5. \A n \in Msgs : InHands(n) => InHands(n)' BY <1>5, <2>1, InHandsKept
  <2>6. RowsFirst' BY <1>1, <1>5, <1>6, <2>1, <2>2, RowsFirstKept DEF queue
  <2>7. NobodyForgotten' BY <1>1, <1>5, <1>6, <2>2, <2>5, NobodyForgottenKept
  <2>8. JudgmentOver'
    <3>1. Unfinished' \cap Elems(judging)' = {} BY <1>7, <1>8, <2>2
    <3>2. QED BY <3>1 DEF JudgmentOver
  <2>9. QED BY <1>4, <2>3, <2>4, <2>6, <2>7, <2>8 DEF AdmissionInv, WaitersAreServed
<1>11. QED BY <1>2, <1>9, <1>10

LEMMA JudgeEndsKeeps == ASSUME AdmissionInv, JudgeEnds PROVE AdmissionInv'
<1>1. AdmissionTypeOK /\ HeldHasATimer /\ NobodyForgotten /\ TurnIsApart /\ RowsFirst /\ JudgmentOver
  BY DEF AdmissionInv, WaitersAreServed
<1>2. /\ judgeStep = "end" /\ judgeStep' = "none" /\ judging' = <<>>
      /\ judgeTimer' = (awaiting # <<>>)
      /\ UNCHANGED <<awaiting, inbox, answers, queue, mute, worker, dropped, faults>>
  BY DEF JudgeEnds
<1>3. AdmissionTypeOK' BY <1>1, <1>2 DEF AdmissionTypeOK, inbox, answers, queue, worker
<1>4. HeldHasATimer' BY <1>2 DEF HeldHasATimer
<1>5. TurnIsApart' BY <1>1, <1>2 DEF TurnIsApart, queue
<1>6. UNCHANGED <<awaiting, arrived, status, stage, queue, dropped>> BY <1>2 DEF inbox, worker
<1>7. \A n \in Msgs : InHands(n) => InHands(n)' BY <1>6, InHandsKept
<1>8. Unfinished' = Unfinished BY <1>6 DEF Unfinished
<1>9. Elems(awaiting)' = Elems(awaiting) /\ Elems(judging)' = {} BY <1>2, ElemsEmpty DEF Elems
<1>10. \A n \in Msgs : JudgedHere(n)' => JudgedHere(n) BY <1>9 DEF JudgedHere
<1>11. RowsFirst' BY <1>1, <1>6, <1>10, RowsFirstKept DEF queue
<1>12. NobodyForgotten'
  <2>1. ASSUME NEW n \in Msgs, n \in Unfinished, n \notin Commands
        PROVE  stage'[n] # "idle" \/ JudgedHere(n)' \/ InHands(n)'
    <3>1. stage[n] # "idle" \/ JudgedHere(n) \/ InHands(n)
      BY <1>1, <2>1 DEF NobodyForgotten, InHands
    <3>2. CASE stage[n] # "idle" BY <1>6, <3>2
    <3>3. CASE n \in Elems(awaiting) BY <1>9, <3>3 DEF JudgedHere
    <3>4. CASE n \in Elems(judging) BY <1>1, <1>2, <1>7, <2>1, <3>4 DEF JudgmentOver
    <3>5. CASE InHands(n) BY <1>7, <3>5
    <3>6. QED BY <3>1, <3>2, <3>3, <3>4, <3>5 DEF JudgedHere
  <2>2. QED BY <1>8, <2>1 DEF NobodyForgotten, InHands, Unfinished
<1>13. JudgmentOver' BY <1>9 DEF JudgmentOver
<1>14. QED BY <1>3, <1>4, <1>5, <1>11, <1>12, <1>13 DEF AdmissionInv, WaitersAreServed

-----------------------------------------------------------------------------
(* The turn and the refill.                                                *)

\* What a step of the queue has to keep: whatever it had and still needs an
\* answer it has afterwards, or the judge holds it.
LEMMA QueueKeeps ==
  ASSUME AdmissionInv, AdmissionTypeOK', TurnIsApart',
         UNCHANGED <<arrived, burst, worker>>, Unfinished' \subseteq Unfinished,
         \A n \in Msgs : status'[n] = "absent" <=> status[n] = "absent",
         \A n \in Elems(batch') : n \in Elems(batch) \/ n \in Unfinished,
         \A n \in Unfinished' \ Commands : InHands(n) => InHands(n)' \/ JudgedHere(n),
         judgeStep = "end" =>
           \A n \in Unfinished' \ Commands : InHands(n) /\ n \in Elems(judging) => InHands(n)'
  PROVE  AdmissionInv'
<1>1. AdmissionTypeOK /\ HeldHasATimer /\ NobodyForgotten /\ TurnIsApart /\ RowsFirst /\ JudgmentOver
  BY DEF AdmissionInv, WaitersAreServed
<1>2. UNCHANGED <<awaiting, judging, judgeStep, judgeTimer, stage>> BY DEF burst, worker
<1>3. HeldHasATimer' BY <1>1, <1>2 DEF HeldHasATimer
<1>4. \A n \in Msgs : JudgedHere(n)' <=> JudgedHere(n) BY <1>2, JudgedHereIs
<1>5. RowsFirst'
  <2>1. Elems(arrived)' = Elems(arrived) /\ \A n \in Msgs : stage'[n] = stage[n] BY <1>2 DEF Elems
  <2>2. \A n \in Elems(batch)' : n \in Elems(batch) \/ n \in Unfinished BY DEF Elems
  <2>3. QED BY <1>1, <1>4, <2>1, <2>2 DEF RowsFirst, Unfinished
<1>6. NobodyForgotten'
  <2>1. ASSUME NEW n \in Msgs, n \in Unfinished', n \notin Commands
        PROVE  stage'[n] # "idle" \/ JudgedHere(n)' \/ InHands(n)'
    <3>1. n \in Unfinished \ Commands BY <2>1
    <3>2. stage[n] # "idle" \/ JudgedHere(n) \/ InHands(n)
      BY <1>1, <3>1 DEF NobodyForgotten, InHands
    <3>3. QED BY <1>2, <1>4, <2>1, <3>2
  <2>2. QED BY <2>1 DEF NobodyForgotten, InHands, Unfinished
<1>7. JudgmentOver'
  <2>1. Elems(judging)' = Elems(judging) /\ Last(judging)' = Last(judging)
    BY <1>2 DEF Elems, Last
  <2>2. ASSUME NEW n \in Msgs, n \in Unfinished', n \in Elems(judging), judgeStep = "end",
               n \notin Commands
        PROVE  InHands(n)'
    <3>1. InHands(n) BY <1>1, <2>2 DEF JudgmentOver
    <3>2. QED BY <2>2, <3>1
  <2>3. QED BY <1>1, <1>2, <2>1, <2>2 DEF JudgmentOver, Unfinished
<1>8. QED BY <1>1, <1>3, <1>5, <1>6, <1>7 DEF AdmissionInv, WaitersAreServed

LEMMA CutIs ==
  ASSUME NEW S, NEW s \in Seq(S), NEW k \in Nat \ {0}, NEW n,
         n = IF Len(s) < k THEN Len(s) ELSE k
  PROVE  /\ n \in 0..Len(s) /\ n <= k
         /\ Len(SubSeq(s, 1, n)) = k \/ Elems(SubSeq(s, 1, n)) = Elems(s)
<1>1. n \in 0..Len(s) /\ n <= k OBVIOUS
<1>2. CASE Len(s) < k
  <2>1. SubSeq(s, 1, Len(s)) = s OBVIOUS
  <2>2. QED BY <1>1, <1>2, <2>1
<1>3. CASE ~(Len(s) < k)
  <2>1. n = k BY <1>3
  <2>2. Len(SubSeq(s, 1, n)) = n BY <1>1, ElemsCut
  <2>3. QED BY <1>1, <2>1, <2>2
<1>4. QED BY <1>2, <1>3

LEMMA StartTurnKeeps == ASSUME AdmissionInv, StartTurn PROVE AdmissionInv'
<1>1. AdmissionTypeOK /\ TurnIsApart BY DEF AdmissionInv, WaitersAreServed
<1>2. /\ timer' = FALSE
      /\ UNCHANGED <<overflow, refilling, passed, page, inbox, burst, answers, mute, worker,
                     dropped, faults>>
  BY DEF StartTurn
<1>3. pending \in Seq(Msgs) /\ batch \in Seq(Msgs) BY <1>1 DEF AdmissionTypeOK
<1>4. status' = status /\ arrived' = arrived /\ Unfinished' = Unfinished /\ Unfinished \subseteq Msgs
  BY <1>2 DEF inbox, Unfinished
<1>5. CASE UNCHANGED <<running, pending, batch>>
  <2>1. AdmissionTypeOK' BY <1>1, <1>2, <1>5 DEF AdmissionTypeOK, inbox, burst, answers, worker
  <2>2. TurnIsApart' BY <1>1, <1>2, <1>5 DEF TurnIsApart
  <2>3. \A n \in Msgs : InHands(n) => InHands(n)' BY <1>2, <1>5 DEF InHands, Elems
  <2>4. \A n \in Elems(batch') : n \in Elems(batch) BY <1>5
  <2>5. QED BY <1>2, <1>4, <2>1, <2>2, <2>3, <2>4, QueueKeeps DEF Unfinished
<1>6. CASE ~running /\ pending # <<>>
  <2>1. PICK size : size = IF Len(pending) < BurstCap THEN Len(pending) ELSE BurstCap OBVIOUS
  <2>2. BurstCap \in Nat \ {0} BY Bounds
  <2>3. size \in 0..Len(pending) BY <1>3, <2>1, <2>2, CutIs
  <2>4. PICK taken, rest : taken = SubSeq(pending, 1, size)
                           /\ rest = SubSeq(pending, size + 1, Len(pending))
    OBVIOUS
  <2>5. running' = TRUE /\ batch' = Filter(taken, Unfinished) /\ pending' = rest
    BY <1>6, <2>1, <2>4 DEF StartTurn
  <2>6. /\ taken \in Seq(Msgs) /\ rest \in Seq(Msgs)
        /\ Elems(pending) = Elems(taken) \cup Elems(rest)
    BY <1>3, <2>3, <2>4, ElemsCut
  <2>7. PICK claimed : claimed = Filter(taken, Unfinished) OBVIOUS
  <2>8. /\ claimed \in Seq(Msgs) /\ Len(claimed) \in Nat
        /\ Elems(claimed) = Elems(taken) \cap Unfinished
    BY <2>6, <2>7, FilterElems
  <2>9. refilling = "none" /\ batch = <<>> /\ page = <<>>
    BY <1>1, <1>6 DEF TurnIsApart, AdmissionTypeOK
  <2>10. passed' \in 0..Len(batch')
    <3>1. passed = 0 BY <1>1, <2>9 DEF AdmissionTypeOK
    <3>2. QED BY <1>2, <2>5, <2>7, <2>8, <3>1
  <2>11. AdmissionTypeOK'
    BY <1>1, <1>2, <2>5, <2>6, <2>7, <2>8, <2>10 DEF AdmissionTypeOK, inbox, burst, answers, worker
  <2>12. TurnIsApart' BY <1>2, <2>5, <2>9 DEF TurnIsApart
  <2>13. \A n \in Unfinished : InHands(n) => InHands(n)'
    <3>1. Elems(batch) = {} BY <2>9, ElemsEmpty
    <3>2. Elems(pending)' = Elems(rest) /\ Elems(batch)' = Elems(claimed)
      BY <2>5, <2>7 DEF Elems
    <3>3. Elems(page)' = Elems(page) BY <1>2 DEF Elems
    <3>4. QED BY <1>2, <2>6, <2>8, <3>1, <3>2, <3>3 DEF InHands
  <2>14. \A n \in Elems(batch') : n \in Unfinished BY <2>5, <2>7, <2>8
  <2>15. QED BY <1>2, <1>4, <2>11, <2>12, <2>13, <2>14, QueueKeeps
<1>7. QED BY <1>5, <1>6 DEF StartTurn

LEMMA AuthorizesKeeps == ASSUME AdmissionInv, TurnAsks \/ TurnPasses PROVE AdmissionInv'
<1>1. AdmissionTypeOK /\ TurnIsApart BY DEF AdmissionInv, WaitersAreServed
<1>2. /\ UNCHANGED <<pending, overflow, refilling, timer, running, batch, page, inbox,
                     burst, mute, worker, dropped, faults>>
      /\ passed < Len(batch) /\ passed' \in {passed, passed + 1}
  BY DEF TurnAsks, TurnPasses, queue
<1>3. PICK m \in Msgs : m = batch[passed + 1] BY <1>1, <1>2 DEF AdmissionTypeOK
<1>4. /\ judged' \in [Msgs -> {"none", "yes", "no"}]
      /\ asking' \in [{"burst", "turn"} -> Msgs \cup {NoMsg}]
  <2>1. Ask("turn", m) \/ Answer("turn", "yes") \/ Remembers("turn", m)
    BY <1>3 DEF TurnAsks, TurnPasses
  <2>2. QED BY <1>1, <2>1, AnswersAreTyped
<1>5. passed' \in 0..Len(batch') BY <1>1, <1>2 DEF AdmissionTypeOK
<1>6. AdmissionTypeOK' BY <1>1, <1>2, <1>4, <1>5 DEF AdmissionTypeOK, inbox, burst, worker
<1>7. TurnIsApart' BY <1>1, <1>2 DEF TurnIsApart
<1>8. \A n \in Msgs : InHands(n) => InHands(n)' BY <1>2 DEF InHands, Elems
<1>9. status' = status /\ arrived' = arrived /\ Unfinished' = Unfinished /\ Unfinished \subseteq Msgs
  BY <1>2 DEF inbox, Unfinished
<1>10. \A n \in Elems(batch') : n \in Elems(batch) BY <1>2
<1>11. QED BY <1>2, <1>6, <1>7, <1>8, <1>9, <1>10, QueueKeeps

\* However a turn ends, its batch is no longer needed and the rest stays at hand.
LEMMA TurnEndsKeeps ==
  ASSUME AdmissionInv, running, refilling = "none", TurnEnds,
         status' \in [Msgs -> {"absent", "unfinished", "ignored", "closed", "answered"}],
         Unfinished' \subseteq Unfinished,
         \A n \in Msgs : status'[n] = "absent" <=> status[n] = "absent",
         dropped \subseteq dropped', dropped' \subseteq Msgs,
         \A n \in Unfinished' : n \in Elems(batch) => n \in dropped',
         judged' \in [Msgs -> {"none", "yes", "no"}],
         asking' \in [{"burst", "turn"} -> Msgs \cup {NoMsg}]
  PROVE  AdmissionInv'
<1>1. AdmissionTypeOK /\ TurnIsApart BY DEF AdmissionInv, WaitersAreServed
<1>2. /\ batch' = <<>> /\ passed' = 0
      /\ UNCHANGED <<arrived, pending, page, burst, mute, worker, faults>>
  BY DEF TurnEnds
<1>3. \/ pending = <<>> /\ overflow' = FALSE /\ running' = TRUE /\ refilling' = "reading"
           /\ UNCHANGED timer
      \/ running' = FALSE /\ timer' = (pending # <<>>) /\ UNCHANGED <<overflow, refilling>>
  BY DEF TurnEnds, AfterTurn, StartsRefill
<1>4. page = <<>> BY <1>1 DEF TurnIsApart
<1>5. overflow' \in BOOLEAN /\ timer' \in BOOLEAN /\ running' \in BOOLEAN
      /\ refilling' \in {"none", "reading", "read"}
  <2>1. overflow \in BOOLEAN /\ timer \in BOOLEAN /\ refilling \in {"none", "reading", "read"}
    BY <1>1 DEF AdmissionTypeOK
  <2>2. overflow' \in BOOLEAN BY <1>3, <2>1
  <2>3. timer' \in BOOLEAN BY <1>3, <2>1
  <2>4. running' \in BOOLEAN BY <1>3
  <2>5. refilling' \in {"none", "reading", "read"} BY <1>3, <2>1
  <2>6. QED BY <2>2, <2>3, <2>4, <2>5
<1>6. AdmissionTypeOK' BY <1>1, <1>2, <1>5 DEF AdmissionTypeOK, burst, worker
<1>7. TurnIsApart' BY <1>2, <1>3, <1>4 DEF TurnIsApart
<1>8. ASSUME NEW n \in Unfinished', InHands(n) PROVE InHands(n)'
  <2>1. CASE n \in Elems(pending) \cup Elems(page)
    <3>1. Elems(pending)' = Elems(pending) /\ Elems(page)' = Elems(page) BY <1>2 DEF Elems
    <3>2. QED BY <2>1, <3>1 DEF InHands
  <2>2. CASE n \in Elems(batch) \/ n \in dropped BY <2>2 DEF InHands
  <2>3. CASE overflow BY <1>3, <2>3 DEF InHands
  <2>4. CASE Len(page) = MaxPending BY <1>2, <2>4 DEF InHands
  <2>5. QED BY <1>8, <2>1, <2>2, <2>3, <2>4 DEF InHands
<1>9. Elems(batch') = {} BY <1>2, ElemsEmpty
<1>10. QED BY <1>2, <1>6, <1>7, <1>8, <1>9, QueueKeeps

LEMMA AnswersBatchKeeps == ASSUME AdmissionInv, TurnAnswers PROVE AdmissionInv'
<1>1. AdmissionTypeOK /\ RowsFirst BY DEF AdmissionInv, WaitersAreServed
<1>2. /\ running /\ refilling = "none" /\ TurnEnds /\ UNCHANGED <<answers, dropped>>
      /\ status' = [m \in Msgs |-> IF m \in Elems(batch) THEN "answered" ELSE status[m]]
  BY DEF TurnAnswers
<1>3. /\ status' \in [Msgs -> {"absent", "unfinished", "ignored", "closed", "answered"}]
      /\ Unfinished' \subseteq Unfinished \ Elems(batch)
  BY <1>1, <1>2 DEF AdmissionTypeOK, Unfinished
<1>4. \A n \in Msgs : status'[n] = "absent" <=> status[n] = "absent" BY <1>1, <1>2 DEF RowsFirst
<1>5. dropped' = dropped /\ dropped \subseteq Msgs BY <1>1, <1>2 DEF AdmissionTypeOK
<1>6. /\ judged' \in [Msgs -> {"none", "yes", "no"}]
      /\ asking' \in [{"burst", "turn"} -> Msgs \cup {NoMsg}]
  BY <1>1, <1>2 DEF AdmissionTypeOK, answers
<1>7. \A n \in Unfinished' : n \in Elems(batch) => n \in dropped' BY <1>3
<1>8. QED BY <1>2, <1>3, <1>4, <1>5, <1>6, <1>7, TurnEndsKeeps

LEMMA ReadInboxKeeps == ASSUME AdmissionInv, ReadInbox PROVE AdmissionInv'
<1>1. AdmissionTypeOK /\ TurnIsApart /\ RowsFirst BY DEF AdmissionInv, WaitersAreServed
<1>2. /\ refilling = "reading" /\ refilling' = "read"
      /\ UNCHANGED <<pending, overflow, timer, running, batch, passed, inbox, burst,
                     answers, mute, worker, dropped, faults>>
  BY DEF ReadInbox
<1>3. PICK waiting : waiting = Filter(arrived, Unfinished) OBVIOUS
<1>4. waiting \in Seq(Msgs) /\ Elems(waiting) = Elems(arrived) \cap Unfinished
  BY <1>1, <1>3, FilterElems DEF AdmissionTypeOK
<1>5. PICK size : size = IF Len(waiting) < MaxPending THEN Len(waiting) ELSE MaxPending OBVIOUS
<1>6. PICK first : first = SubSeq(waiting, 1, size) OBVIOUS
<1>7. MaxPending \in Nat \ {0} BY Bounds
<1>8. size \in 0..Len(waiting) /\ (Len(first) = MaxPending \/ Elems(first) = Elems(waiting))
  BY <1>4, <1>5, <1>6, <1>7, CutIs
<1>9. first \in Seq(Msgs) BY <1>4, <1>6, <1>8, ElemsCut
<1>10. page' = first BY <1>3, <1>5, <1>6 DEF ReadInbox, InboxPage
<1>11. AdmissionTypeOK'
  BY <1>1, <1>2, <1>9, <1>10 DEF AdmissionTypeOK, inbox, burst, answers, worker
<1>12. TurnIsApart' BY <1>1, <1>2 DEF TurnIsApart
<1>13. status' = status /\ arrived' = arrived /\ Unfinished' = Unfinished /\ Unfinished \subseteq Msgs
  BY <1>2 DEF inbox, Unfinished
<1>14. ASSUME NEW n \in Unfinished PROVE InHands(n)'
  <2>1. n \in Elems(waiting) BY <1>1, <1>4, <1>14 DEF RowsFirst, Unfinished
  <2>2. Elems(page)' = Elems(first) /\ Len(page)' = Len(first) BY <1>10 DEF Elems
  <2>3. QED BY <1>8, <2>1, <2>2 DEF InHands
<1>15. \A n \in Elems(batch') : n \in Elems(batch) BY <1>2
<1>16. QED BY <1>2, <1>11, <1>12, <1>13, <1>14, <1>15, QueueKeeps

LEMMA RefillKeeps == ASSUME AdmissionInv, Refill PROVE AdmissionInv'
<1>1. AdmissionTypeOK /\ TurnIsApart BY DEF AdmissionInv, WaitersAreServed
<1>2. PICK free : free = {m \in Msgs \ Commands : ~JudgedHere(m)} OBVIOUS
<1>3. PICK kept : kept = Filter(page, free) OBVIOUS
<1>4. PICK full \in BOOLEAN : full = (Len(page) = MaxPending) OBVIOUS
<1>5. /\ refilling = "read" /\ pending' = pending \o kept /\ page' = <<>>
      /\ UNCHANGED <<batch, passed, inbox, burst, answers, mute, worker, faults>>
      /\ dropped' = IF overflow' \/ refilling' = "reading" \/ judgeStep # "end" THEN dropped
                    ELSE dropped \cup (Elems(page) \cap Elems(judging))
  BY <1>2, <1>3 DEF Refill
<1>6. \/ pending' # <<>> /\ overflow' = (full \/ overflow) /\ timer' = TRUE
           /\ running' = FALSE /\ refilling' = "none"
      \/ pending' = <<>> /\ UNCHANGED timer /\ running' = TRUE /\ refilling' = "reading"
           /\ overflow' = full
      \/ pending' = <<>> /\ UNCHANGED timer /\ ~overflow /\ overflow' = full
           /\ running' = FALSE /\ refilling' = "none"
  BY <1>2, <1>3, <1>4 DEF Refill, ReadsOn, StartsRefill
<1>7. pending = <<>> /\ batch = <<>> BY <1>1, <1>5 DEF TurnIsApart
<1>8. page \in Seq(Msgs) /\ Elems(page) \subseteq Msgs BY <1>1, ElemsIn DEF AdmissionTypeOK
<1>9. kept \in Seq(Msgs) /\ Elems(kept) = Elems(page) \cap free BY <1>3, <1>8, FilterElems
<1>10. pending' = kept BY <1>5, <1>7, <1>9
<1>11. overflow' \in BOOLEAN /\ timer' \in BOOLEAN /\ running' \in BOOLEAN
       /\ refilling' \in {"none", "reading", "read"}
  <2>1. overflow \in BOOLEAN /\ timer \in BOOLEAN BY <1>1 DEF AdmissionTypeOK
  <2>2. (full \/ overflow) \in BOOLEAN OBVIOUS
  <2>3. overflow' \in BOOLEAN BY <1>6, <2>2
  <2>4. timer' \in BOOLEAN BY <1>6, <2>1
  <2>5. running' \in BOOLEAN BY <1>6
  <2>6. refilling' \in {"none", "reading", "read"} BY <1>6
  <2>7. QED BY <2>3, <2>4, <2>5, <2>6
<1>12. dropped' \subseteq Msgs /\ dropped \subseteq dropped' BY <1>1, <1>5, <1>8 DEF AdmissionTypeOK
<1>13. AdmissionTypeOK'
  BY <1>1, <1>5, <1>9, <1>10, <1>11, <1>12 DEF AdmissionTypeOK, inbox, burst, answers, worker
<1>14. TurnIsApart' BY <1>5, <1>6, <1>7 DEF TurnIsApart
<1>15. status' = status /\ arrived' = arrived /\ Unfinished' = Unfinished /\ Unfinished \subseteq Msgs
  BY <1>5 DEF inbox, Unfinished
<1>16. Elems(pending)' = Elems(kept) BY <1>10 DEF Elems
<1>17. ASSUME NEW n \in Unfinished \ Commands, InHands(n)
       PROVE  InHands(n)' \/ (JudgedHere(n) /\ (judgeStep = "end" => n \notin Elems(judging)))
  <2>1. CASE n \in Elems(page)
    <3>1. CASE ~JudgedHere(n)
      <4>1. n \in free BY <1>2, <1>15, <3>1
      <4>2. QED BY <1>9, <1>16, <2>1, <4>1 DEF InHands
    <3>2. CASE JudgedHere(n) /\ judgeStep = "end" /\ n \in Elems(judging)
      <4>1. CASE overflow' \/ refilling' = "reading" BY <4>1 DEF InHands
      <4>2. CASE ~(overflow' \/ refilling' = "reading") BY <1>5, <2>1, <3>2, <4>2 DEF InHands
      <4>3. QED BY <4>1, <4>2
    <3>3. QED BY <3>1, <3>2
  <2>2. CASE n \in Elems(pending) \cup Elems(batch) BY <1>7, <2>2, ElemsEmpty
  <2>3. CASE overflow \/ Len(page) = MaxPending
    <3>1. overflow \/ full BY <1>4, <2>3
    <3>2. overflow' \/ refilling' = "reading" BY <1>6, <3>1
    <3>3. QED BY <3>2 DEF InHands
  <2>4. CASE n \in dropped BY <1>12, <2>4 DEF InHands
  <2>5. QED BY <1>5, <1>17, <2>1, <2>2, <2>3, <2>4 DEF InHands
<1>18. judgeStep = "end" =>
         \A n \in Unfinished' \ Commands : InHands(n) /\ n \in Elems(judging) => InHands(n)'
  BY <1>15, <1>17
<1>19. \A n \in Unfinished' \ Commands : InHands(n) => InHands(n)' \/ JudgedHere(n)
  BY <1>15, <1>17
<1>20. \A n \in Elems(batch') : n \in Elems(batch) BY <1>5
<1>21. QED BY <1>5, <1>13, <1>14, <1>15, <1>18, <1>19, <1>20, QueueKeeps

LEMMA DeniesBatchKeeps == ASSUME AdmissionInv, TurnDenied PROVE AdmissionInv'
<1>1. AdmissionTypeOK BY DEF AdmissionInv, WaitersAreServed
<1>2. /\ running /\ refilling = "none" /\ TurnEnds /\ UNCHANGED status
      /\ passed < Len(batch) /\ dropped' = dropped \cup Elems(batch)
  BY DEF TurnDenied
<1>3. PICK m \in Msgs : m = batch[passed + 1] BY <1>1, <1>2 DEF AdmissionTypeOK
<1>4. /\ judged' \in [Msgs -> {"none", "yes", "no"}]
      /\ asking' \in [{"burst", "turn"} -> Msgs \cup {NoMsg}]
  <2>1. Answer("turn", "no") \/ Remembers("turn", m) BY <1>3 DEF TurnDenied
  <2>2. QED BY <1>1, <2>1, AnswersAreTyped
<1>5. /\ status' \in [Msgs -> {"absent", "unfinished", "ignored", "closed", "answered"}]
      /\ Unfinished' \subseteq Unfinished
      /\ \A n \in Msgs : status'[n] = "absent" <=> status[n] = "absent"
  BY <1>1, <1>2 DEF AdmissionTypeOK, Unfinished
<1>6. dropped \subseteq dropped' /\ dropped' \subseteq Msgs
  BY <1>1, <1>2, ElemsIn DEF AdmissionTypeOK
<1>7. \A n \in Unfinished' : n \in Elems(batch) => n \in dropped' BY <1>2
<1>8. QED BY <1>2, <1>4, <1>5, <1>6, <1>7, TurnEndsKeeps

-----------------------------------------------------------------------------
(* The theorems.                                                           *)

LEMMA AdmissionStarts == AdmissionInit => AdmissionInv
<1> SUFFICES ASSUME AdmissionInit PROVE AdmissionInv OBVIOUS
<1>1. AdmissionTypeOK
  <2>1. <<>> \in Seq(Msgs) /\ 0 \in 0..Len(<<>>) OBVIOUS
  <2>2. {awaiting, judging, pending, batch, page} \subseteq Seq(Msgs) /\ arrived \in Seq(Msgs)
        /\ passed \in 0..Len(batch)
    BY <2>1 DEF AdmissionInit
  <2>3. {judgeTimer, overflow, timer, running} \subseteq BOOLEAN BY DEF AdmissionInit
  <2>4. faults \in 0..MaxFaults BY Bounds DEF AdmissionInit
  <2>5. /\ status \in [Msgs -> {"absent", "unfinished", "ignored", "closed", "answered"}]
        /\ stage \in [Msgs -> Steps] /\ judged \in [Msgs -> {"none", "yes", "no"}]
        /\ asking \in [{"burst", "turn"} -> Msgs \cup {NoMsg}]
    BY DEF AdmissionInit, Steps
  <2>6. QED BY <2>2, <2>3, <2>4, <2>5 DEF AdmissionInit, AdmissionTypeOK
<1>2. HeldHasATimer BY DEF AdmissionInit, HeldHasATimer
<1>3. NobodyForgotten BY DEF AdmissionInit, NobodyForgotten, Unfinished
<1>4. TurnIsApart BY DEF AdmissionInit, TurnIsApart
<1>5. RowsFirst BY ElemsEmpty DEF AdmissionInit, RowsFirst, JudgedHere
<1>6. JudgmentOver BY DEF AdmissionInit, JudgmentOver, Unfinished
<1>7. QED BY <1>1, <1>2, <1>3, <1>4, <1>5, <1>6 DEF AdmissionInv, WaitersAreServed

LEMMA AdmissionSteps == AdmissionInv /\ [AdmissionNext]_admissionVars => AdmissionInv'
<1> SUFFICES ASSUME AdmissionInv, [AdmissionNext]_admissionVars PROVE AdmissionInv' OBVIOUS
<1>1. ASSUME NEW m \in Msgs, Handle(m) \/ RevokeFails(m) PROVE AdmissionInv'
  BY <1>1, HandleKeeps, RevokeFailsKeeps
<1>2. ASSUME NEW m \in Msgs, WorkerStep(m) PROVE AdmissionInv'
  BY <1>2, MutesKeep, IgnoreKeeps, AwaitKeeps, AdmitKeeps, CloseKeeps DEF WorkerStep
<1>3. ASSUME JudgeStep PROVE AdmissionInv'
  BY <1>3, StartJudgmentKeeps, JudgeAsksKeeps, JudgeAnswersKeeps, JudgeAdmitsKeeps,
     JudgeEndsKeeps, JudgeSkipsKeeps, JudgeSkipFailsKeeps DEF JudgeStep
<1>4. ASSUME QueueStep PROVE AdmissionInv'
  BY <1>4, StartTurnKeeps, AuthorizesKeeps, AnswersBatchKeeps, DeniesBatchKeeps,
     ReadInboxKeeps, RefillKeeps DEF QueueStep
<1>5. CASE Expire BY <1>5, ExpireKeeps
<1>6. CASE UNCHANGED admissionVars
  <2>1. UNCHANGED <<inbox, burst, queue, worker, dropped, faults>> /\ UNCHANGED <<mute, answers>>
    BY <1>6 DEF admissionVars
  <2>2. /\ mute' \in {"none", "live", "expired"}
        /\ judged' \in [Msgs -> {"none", "yes", "no"}]
        /\ asking' \in [{"burst", "turn"} -> Msgs \cup {NoMsg}]
    BY <2>1 DEF answers, AdmissionInv, WaitersAreServed, AdmissionTypeOK
  <2>3. QED BY <2>1, <2>2, NothingMoves
<1>7. QED BY <1>1, <1>2, <1>3, <1>4, <1>5, <1>6 DEF AdmissionNext

\* The inductive invariant of Admission: what the queue has or left to a reader,
\* what the judge holds, and whose rows are there.
THEOREM AdmissionHolds == AdmissionSpec => []AdmissionInv
BY AdmissionStarts, AdmissionSteps, PTL DEF AdmissionSpec

\* Whoever waits, for the judge or for a turn, has somebody to come for it: no
\* message that awaitJudgment held, a full queue left in the inbox or a refill
\* passed over is forgotten, except by an error or by the refill that runs
\* between the end of a judgment and its note.
THEOREM WaitersHaveSomebody == AdmissionSpec => []WaitersAreServed
BY AdmissionHolds, PTL DEF AdmissionInv
=============================================================================

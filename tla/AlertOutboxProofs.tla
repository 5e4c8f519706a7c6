-------------------------- MODULE AlertOutboxProofs --------------------------
(***************************************************************************)
(* Proofs about AlertOutbox, for any number of items and of senders, any   *)
(* length of the day, and whatever the user edits and goes wrong; the last *)
(* for a user who edits nothing.                                           *)
(***************************************************************************)
EXTENDS AlertOutbox, TLAPS

\* What a user's clock shows is a time of the day it is in, and the last
\* digest hour is that of its evening and not to come.
LEMMA ClockFacts ==
    ASSUME TypeOK, NEW at \in Ticks
    PROVE  /\ Local(at) \in LocalTimes
           /\ Day(Local(at)) \in Days
           /\ LastDigestTime(Local(at)) = Evening(Local(at)) * SlotsPerDay + DigestAt
           /\ LastDigestTime(Local(at)) <= Local(at)
           /\ LastDigestTime(Local(at)) > 0
           /\ Evening(Local(at)) \in Days
<1> DEFINE local == Local(at)
<1> DEFINE today == Day(local) * SlotsPerDay
<1>0. user.zone \in Zones
  <2>1. user \in Accounts
    BY DEF TypeOK
  <2> QED  BY <2>1 DEF Accounts
<1>1. user.zone \in Int /\ -SlotsPerDay <= user.zone /\ user.zone <= SlotsPerDay
  <2>1. SlotsPerDay \in Int
    BY ClockAssumption
  <2>2. user.zone \in -SlotsPerDay .. SlotsPerDay
    BY <1>0, ClockAssumption, Zenon
  <2> QED  BY <2>1, <2>2
<1>2. local \in Int /\ local >= SlotsPerDay /\ local <= LastTick + SlotsPerDay
  BY <1>1, ClockAssumption DEF Local, Ticks, Start
<1>3. local \in LocalTimes
  BY <1>2, ClockAssumption DEF LocalTimes
<1>4. Day(local) \in Int /\ today \in Int /\ today <= local /\ local < today + SlotsPerDay
  BY <1>2, ClockAssumption DEF Day
<1>5. Day(local) >= 1
  BY <1>2, ClockAssumption DEF Day
<1>6. Day(local) \in Days
  BY <1>2, <1>5, ClockAssumption DEF Day, Days
<1>7. (Day(local) - 1) * SlotsPerDay = today - SlotsPerDay
  BY <1>4, ClockAssumption
<1>8. today >= SlotsPerDay
  BY <1>4, <1>5, ClockAssumption
<1> HIDE DEF local
<1>9. LastDigestTime(local) = Evening(local) * SlotsPerDay + DigestAt
  BY <1>4, <1>7, ClockAssumption DEF LastDigestTime, Evening
<1>10. LastDigestTime(local) <= local /\ LastDigestTime(local) > 0
  BY <1>2, <1>4, <1>8, ClockAssumption DEF LastDigestTime
<1>11. Evening(local) \in Days
  <2>1. Day(local) \in Int /\ (LastTick + 2 * SlotsPerDay) \div SlotsPerDay \in Int
    BY <1>4, ClockAssumption
  <2>2. Evening(local) \in {Day(local), Day(local) - 1}
    BY DEF Evening
  <2> QED  BY <2>1, <2>2, <1>5, <1>6 DEF Days
<1> QED  BY <1>3, <1>6, <1>9, <1>10, <1>11 DEF local

-----------------------------------------------------------------------------

\* What a decision leaves in a row, and hands to its run.
LEMMA SettledType ==
    ASSUME TypeOK, NEW i \in Items, NEW at \in Ticks
    PROVE  Settled(i, at) \in Rows
<1> DEFINE row == outbox[i]
<1>1. row \in Rows /\ now \in Ticks
  BY DEF TypeOK
<1> HIDE DEF row
<1>2. [row EXCEPT !.settled = at] \in Rows
  BY <1>1 DEF Rows
<1>3. [row EXCEPT !.settled = now, !.delivered = TRUE] \in Rows
  BY <1>1 DEF Rows
<1>4. [row EXCEPT !.route = "digest"] \in Rows
  BY <1>1 DEF Rows
<1> QED  BY <1>1, <1>2, <1>3, <1>4 DEF Settled, row

LEMMA MailsType ==
    ASSUME NEW at \in Ticks
    PROVE  Listed(Digest(at)) \subseteq Items /\ Batch(at) \subseteq Items
  BY DEF Listed, Digest, Due, Batch, On, Live, Waiting

LEMMA DecideType ==
    ASSUME TypeOK, NEW s \in Senders, Decide(s)
    PROVE  TypeOK'
<1> DEFINE at == sender[s].now
<1> DEFINE mails == {Listed(Digest(at)), Batch(at)} \ {{}}
<1>1. sender[s] \in Runs
  BY DEF TypeOK
<1>2. at \in Ticks
  BY <1>1 DEF Runs
<1>3. outbox' = [i \in Items |-> Settled(i, at)]
      /\ sender' = [sender EXCEPT ![s] = [@ EXCEPT !.phase = "forgetting", !.due = mails]]
  BY DEF Decide
<1>4. UNCHANGED <<now, user, rule, filed, told, mailed>>
  BY DEF Decide
<1>5. emailed' \in [Days -> Nat]
  <2> DEFINE digest == IF Listed(Digest(at)) = {} THEN 0 ELSE 1
  <2> DEFINE batch == IF Batch(at) = {} THEN 0 ELSE 1
  <2> DEFINE today == Day(Local(at))
  <2>1. emailed' = [emailed EXCEPT ![today] = @ + digest + batch]
    BY DEF Decide
  <2>2. digest \in Nat /\ batch \in Nat /\ emailed \in [Days -> Nat]
    BY DEF TypeOK
  <2> HIDE DEF digest, batch, today
  <2>3. CASE today \in Days
    <3>1. emailed[today] + digest + batch \in Nat
      BY <2>2, <2>3
    <3> QED  BY <2>1, <2>2, <3>1
  <2>4. CASE today \notin Days
    <3>1. emailed' = emailed
      BY <2>1, <2>2, <2>4
    <3> QED  BY <2>2, <3>1
  <2> QED  BY <2>3, <2>4
<1>6. lastDigest' \in LocalTimes /\ digests' \in [Days -> Nat]
  <2>1. \/ UNCHANGED <<lastDigest, digests>>
        \/ /\ lastDigest' = IF lastDigest > Local(at) THEN lastDigest ELSE Local(at)
           /\ digests' = [digests EXCEPT ![Evening(Local(at))] = @ + 1]
    BY DEF Decide
  <2>2. Local(at) \in LocalTimes
    BY <1>2, ClockFacts
  <2> HIDE DEF at
  <2> QED  BY <2>1, <2>2 DEF TypeOK
<1> HIDE DEF at
<1>7. outbox' \in [Items -> Rows]
  BY <1>2, <1>3, SettledType
<1>8. mails \in SUBSET SUBSET Items
  BY <1>2, MailsType
<1> HIDE DEF mails
<1>9. sender' \in [Senders -> Runs]
  <2>1. [sender[s] EXCEPT !.phase = "forgetting", !.due = mails] \in Runs
    BY <1>1, <1>8 DEF Runs
  <2> QED  BY <1>3, <2>1 DEF TypeOK
<1> QED  BY <1>4, <1>5, <1>6, <1>7, <1>9 DEF TypeOK

-----------------------------------------------------------------------------

\* The steps but Decide send no digest and count no email.
LEMMA CountStep ==
    ASSUME [Next]_vars
    PROVE  UNCHANGED <<emailed, lastDigest, digests>> \/ \E s \in Senders : Decide(s)
<1>1. \A i \in Items : File(i) \/ Restate(i) => UNCHANGED <<emailed, lastDigest, digests>>
  BY DEF File, Restate
<1>2. Emit => UNCHANGED <<emailed, lastDigest, digests>>
  BY DEF Emit
<1>3. \A s \in Senders : Begin(s) \/ Skip(s) \/ Forget(s) \/ Send(s) \/ Kill(s)
        => UNCHANGED <<emailed, lastDigest, digests>>
  BY DEF Begin, Skip, Forget, Send, Kill
<1>4. \A k \in Lists : DeleteRule(k) \/ MakeRule(k) \/ EditRule(k)
        => UNCHANGED <<emailed, lastDigest, digests>>
  BY DEF DeleteRule, MakeRule, EditRule
<1>5. EditAccount \/ Move \/ Tick \/ UNCHANGED vars => UNCHANGED <<emailed, lastDigest, digests>>
  BY DEF EditAccount, Move, Tick, vars
<1> QED  BY <1>1, <1>2, <1>3, <1>4, <1>5 DEF Next

\* The cap, by what a decision adds to the day it is made in.
LEMMA CapStep ==
    ASSUME emailed \in [Days -> Nat], CapHolds, [Next]_vars
    PROVE  emailed' \in [Days -> Nat] /\ CapHolds'
<1>1. CASE UNCHANGED <<emailed, lastDigest, digests>>
  BY <1>1 DEF CapHolds
<1>2. ASSUME NEW s \in Senders, Decide(s)
      PROVE  emailed' \in [Days -> Nat] /\ CapHolds'
  <2> DEFINE at == sender[s].now
  <2> DEFINE today == Day(Local(at))
  <2> DEFINE digest == IF Listed(Digest(at)) = {} THEN 0 ELSE 1
  <2> DEFINE batch == IF Batch(at) = {} THEN 0 ELSE 1
  <2>1. emailed' = [emailed EXCEPT ![today] = @ + digest + batch]
    BY <1>2 DEF Decide
  <2>2. CASE today \notin Days
    <3>1. emailed' = emailed
      BY <2>1, <2>2
    <3> QED  BY <3>1 DEF CapHolds
  <2>3. CASE today \in Days
    <3>1. emailed[today] \in Nat /\ emailed[today] <= EmailsPerDay /\ EmailsPerDay \in Nat
      BY <2>3, ClockAssumption DEF CapHolds
    <3>2. digest = 1 => emailed[today] < EmailsPerDay
      <4>1. ASSUME Listed(Digest(at)) # {}
            PROVE  ~(Listed(Due(at)) # {} /\ emailed[today] >= EmailsPerDay) /\ Digest(at) = Due(at)
        <5>1. Digest(at) # {}
          BY <4>1 DEF Listed
        <5> QED  BY <5>1 DEF Digest
      <4> QED  BY <4>1, <3>1
    <3>3. batch = 1 => emailed[today] + digest < EmailsPerDay
      <4>1. ASSUME Batch(at) # {}
            PROVE  HasRoom(at)
        BY <4>1 DEF Batch
      <4>2. Spent(at) = emailed[today] + digest
        BY DEF Spent
      <4>3. HasRoom(at) => Spent(at) < EmailsPerDay
        BY <4>2, <3>1 DEF HasRoom
      <4> QED  BY <4>1, <4>2, <4>3
    <3>4. digest \in {0, 1} /\ batch \in {0, 1}
      OBVIOUS
    <3> HIDE DEF digest, batch, today
    <3>5. emailed[today] + digest + batch \in Nat
          /\ emailed[today] + digest + batch <= EmailsPerDay
      BY <3>1, <3>2, <3>3, <3>4
    <3>6. emailed' \in [Days -> Nat]
      BY <2>1, <3>5
    <3>7. \A d \in Days : emailed'[d] <= EmailsPerDay
      BY <2>1, <3>5 DEF CapHolds
    <3> QED  BY <3>6, <3>7 DEF CapHolds
  <2> QED  BY <2>2, <2>3
<1> QED  BY <1>1, <1>2, CountStep

\* No day of the user's clock has more alert emails than the cap, digest and
\* batches together: decide() with the user's row locked.
THEOREM Capped == Spec => []CapHolds
<1> DEFINE Inv == emailed \in [Days -> Nat] /\ CapHolds
<1>1. Init => Inv
  BY ClockAssumption DEF Init, CapHolds
<1>2. Inv /\ [Next]_vars => Inv'
  BY CapStep
<1>3. Inv => CapHolds
  OBVIOUS
<1> HIDE DEF Inv
<1> QED  BY <1>1, <1>2, <1>3, PTL DEF Spec

-----------------------------------------------------------------------------

\* A digest is dated: the last one went after the hour of every evening that
\* has had its own.
Dated ==
    /\ digests \in [Days -> Nat]
    /\ lastDigest \in Nat
    /\ \A d \in Days : digests[d] # 0 => lastDigest >= d * SlotsPerDay + DigestAt

LEMMA DigestStep ==
    ASSUME TypeOK, Dated, OneDigestAnEvening, [Next]_vars
    PROVE  Dated' /\ OneDigestAnEvening'
<1>1. CASE UNCHANGED <<emailed, lastDigest, digests>>
  BY <1>1 DEF Dated, OneDigestAnEvening
<1>2. ASSUME NEW s \in Senders, Decide(s)
      PROVE  Dated' /\ OneDigestAnEvening'
  <2> DEFINE at == sender[s].now
  <2> DEFINE evening == Evening(Local(at))
  <2>1. CASE Digest(at) = {}
    <3>1. UNCHANGED <<lastDigest, digests>>
      BY <1>2, <2>1 DEF Decide
    <3> QED  BY <3>1 DEF Dated, OneDigestAnEvening
  <2>2. CASE Digest(at) # {}
    <3>1. at \in Ticks
      <4>1. sender[s] \in Runs
        BY DEF TypeOK
      <4> QED  BY <4>1 DEF Runs
    <3> HIDE DEF at
    <3>2. /\ Local(at) \in Nat
          /\ LastDigestTime(Local(at)) = evening * SlotsPerDay + DigestAt
          /\ LastDigestTime(Local(at)) <= Local(at)
          /\ evening \in Days
      <4>1. LocalTimes \subseteq Nat
        BY DEF LocalTimes
      <4> QED  BY <3>1, <4>1, ClockFacts
    <3>3. ~(lastDigest >= LastDigestTime(Local(at)))
      BY <2>2 DEF Digest
    <3>4. /\ lastDigest' = IF lastDigest > Local(at) THEN lastDigest ELSE Local(at)
          /\ digests' = [digests EXCEPT ![evening] = @ + 1]
      BY <1>2, <2>2 DEF Decide, at
    <3> HIDE DEF evening
    <3>5. evening \in Int /\ SlotsPerDay \in Nat /\ DigestAt \in Nat
      BY <3>2, ClockAssumption DEF Days
    <3>6. digests[evening] = 0
      BY <3>2, <3>3, <3>5 DEF Dated
    <3>7. lastDigest' \in Nat /\ lastDigest' >= lastDigest /\ lastDigest' >= Local(at)
      BY <3>2, <3>4 DEF Dated
    <3>8. digests' \in [Days -> Nat] /\ digests'[evening] = 1
          /\ \A d \in Days \ {evening} : digests'[d] = digests[d]
      BY <3>2, <3>4, <3>6 DEF Dated
    <3>9. ASSUME NEW d \in Days, digests'[d] # 0
          PROVE  lastDigest' >= d * SlotsPerDay + DigestAt
      <4>1. d * SlotsPerDay + DigestAt \in Int /\ lastDigest \in Int
        BY <3>5 DEF Days, Dated
      <4>2. CASE d = evening
        BY <4>1, <4>2, <3>2, <3>7
      <4>3. CASE d # evening
        BY <4>1, <4>3, <3>7, <3>8, <3>9 DEF Dated
      <4> QED  BY <4>2, <4>3
    <3>10. \A d \in Days : digests'[d] <= 1
      BY <3>8 DEF OneDigestAnEvening
    <3> QED  BY <3>7, <3>8, <3>9, <3>10 DEF Dated, OneDigestAnEvening
  <2> QED  BY <2>1, <2>2
<1> QED  BY <1>1, <1>2, CountStep

-----------------------------------------------------------------------------

LEMMA TypeStep ==
    ASSUME TypeOK, [Next]_vars
    PROVE  TypeOK'
<1>1. ASSUME NEW i \in Items, File(i) \/ Restate(i)
      PROVE  TypeOK'
  BY <1>1 DEF File, Restate, TypeOK
<1>2. CASE Emit
  <2>1. PICK at \in {now, now - 1} \cap Ticks : \E events \in SUBSET {i \in Items : IsFresh(i, at)} :
          /\ told' = told \cup Written(events)
          /\ outbox' = [i \in Items |->
                  IF i \in ToQueue(events)
                  THEN [route |-> IF i \in Season THEN "digest" ELSE "instant",
                        queued |-> at, settled |-> 0, delivered |-> FALSE]
                  ELSE outbox[i]]
          /\ UNCHANGED <<now, user, rule, filed, emailed, lastDigest, digests, sender, mailed>>
    BY <1>2 DEF Emit
  <2>2. PICK events \in SUBSET Items :
          /\ told' = told \cup Written(events)
          /\ outbox' = [i \in Items |->
                  IF i \in ToQueue(events)
                  THEN [route |-> IF i \in Season THEN "digest" ELSE "instant",
                        queued |-> at, settled |-> 0, delivered |-> FALSE]
                  ELSE outbox[i]]
    BY <2>1
  <2>3. told' \subseteq Instant
    BY <2>2 DEF TypeOK, Written
  <2>4. \A i \in Items : [route |-> IF i \in Season THEN "digest" ELSE "instant",
                          queued |-> at, settled |-> 0, delivered |-> FALSE] \in Rows
    BY DEF Rows
  <2>5. outbox' \in [Items -> Rows]
    BY <2>2, <2>4 DEF TypeOK
  <2> QED  BY <2>1, <2>3, <2>5 DEF TypeOK
<1>3. ASSUME NEW s \in Senders, Begin(s) \/ Skip(s) \/ Forget(s) \/ Send(s) \/ Kill(s)
      PROVE  TypeOK'
  <2>1. sender[s] \in Runs /\ now \in Ticks
    BY DEF TypeOK
  <2>2. Resting \in Runs
    BY ClockAssumption DEF Resting, Runs, Ticks, Start
  <2>3. CASE Begin(s)
    <3>1. [phase |-> IF Waiting = {} THEN "forgetting" ELSE "deciding", now |-> now, due |-> {}]
            \in Runs
      BY <2>1 DEF Runs
    <3> QED  BY <2>3, <3>1 DEF Begin, TypeOK
  <2>4. CASE Skip(s)
    <3>1. [sender[s] EXCEPT !.phase = "forgetting"] \in Runs
      BY <2>1 DEF Runs
    <3> QED  BY <2>4, <3>1 DEF Skip, TypeOK
  <2>5. CASE Forget(s)
    <3>1. [sender[s] EXCEPT !.phase = "sending"] \in Runs
      BY <2>1 DEF Runs
    <3>2. sender' \in [Senders -> Runs]
      BY <2>2, <2>5, <3>1 DEF Forget, TypeOK
    <3>3. NoRow \in Rows
      BY DEF NoRow, Rows
    <3>4. outbox' \in [Items -> Rows]
      BY <2>5, <3>3 DEF Forget, TypeOK
    <3> QED  BY <2>5, <3>2, <3>4 DEF Forget, TypeOK
  <2>6. CASE Send(s)
    <3>1. PICK email \in sender[s].due :
            /\ sender' = [sender EXCEPT ![s] = AfterEmail(s, email)]
            /\ \/ mailed' = [i \in Items |-> IF i \in email /\ mailed[i] < 2 THEN mailed[i] + 1
                                             ELSE mailed[i]]
               \/ UNCHANGED mailed
      BY <2>6 DEF Send
    <3>2. [sender[s] EXCEPT !.due = sender[s].due \ {email}] \in Runs
      BY <2>1 DEF Runs
    <3>3. AfterEmail(s, email) \in Runs
      BY <2>2, <3>2 DEF AfterEmail
    <3>4. sender' \in [Senders -> Runs]
      BY <3>1, <3>3 DEF TypeOK
    <3>5. mailed' \in [Items -> 0 .. 2]
      <4>1. mailed \in [Items -> 0 .. 2]
        BY DEF TypeOK
      <4>2. \A i \in Items : mailed[i] < 2 => mailed[i] + 1 \in 0 .. 2
        BY <4>1
      <4>3. CASE UNCHANGED mailed
        BY <4>1, <4>3
      <4>4. CASE mailed' = [i \in Items |-> IF i \in email /\ mailed[i] < 2 THEN mailed[i] + 1
                                           ELSE mailed[i]]
        BY <4>1, <4>2, <4>4
      <4> QED  BY <3>1, <4>3, <4>4
    <3> QED  BY <2>6, <3>4, <3>5 DEF Send, TypeOK
  <2>7. CASE Kill(s)
    BY <2>2, <2>7 DEF Kill, TypeOK
  <2> QED  BY <1>3, <2>3, <2>4, <2>5, <2>6, <2>7
<1>4. ASSUME NEW k \in Lists, DeleteRule(k) \/ MakeRule(k) \/ EditRule(k)
      PROVE  TypeOK'
  <2>1. rule[k] \in Rules /\ now \in Ticks
    BY DEF TypeOK
  <2>2. CASE DeleteRule(k)
    <3>1. NoRow \in Rows /\ NoRule \in Rules
      BY DEF NoRow, Rows, NoRule, Rules
    <3> QED  BY <2>2, <3>1 DEF DeleteRule, TypeOK
  <2>3. CASE MakeRule(k)
    <3>1. [made |-> now, on |-> TRUE, email |-> TRUE, bell |-> TRUE] \in Rules
      BY <2>1 DEF Rules
    <3> QED  BY <2>3, <3>1 DEF MakeRule, TypeOK
  <2>4. CASE EditRule(k)
    <3>1. PICK setting \in Settings :
            rule' = [rule EXCEPT ![k].on = setting.on, ![k].email = setting.email,
                                 ![k].bell = setting.bell]
      BY <2>4 DEF EditRule
    <3>2. setting \in [on : BOOLEAN, email : BOOLEAN, bell : BOOLEAN]
      BY SettingsAssumption
    <3> DEFINE edited == [rule[k] EXCEPT !.on = setting.on, !.email = setting.email,
                                         !.bell = setting.bell]
    <3>3. edited \in Rules
      BY <2>1, <3>2 DEF Rules
    <3>4. rule' = [rule EXCEPT ![k] = edited]
      BY <3>1, <2>1 DEF TypeOK, Rules
    <3> HIDE DEF edited
    <3>5. rule' \in [Lists -> Rules]
      BY <3>3, <3>4 DEF TypeOK
    <3> QED  BY <2>4, <3>5 DEF EditRule, TypeOK
  <2> QED  BY <1>4, <2>2, <2>3, <2>4
<1>5. CASE EditAccount
  <2>1. user' \in Accounts
    BY <1>5 DEF EditAccount, TypeOK, Accounts
  <2> QED  BY <1>5, <2>1 DEF EditAccount, TypeOK
<1>6. CASE Move
  <2>1. user' \in Accounts
    BY <1>6 DEF Move, TypeOK, Accounts
  <2> QED  BY <1>6, <2>1 DEF Move, TypeOK
<1>7. CASE Tick
  <2>1. now' \in Ticks
    BY <1>7, ClockAssumption DEF Tick, TypeOK, Ticks, Start
  <2> QED  BY <1>7, <2>1 DEF Tick, TypeOK
<1>8. CASE UNCHANGED vars
  BY <1>8 DEF vars, TypeOK
<1> QED  BY <1>1, <1>2, <1>3, <1>4, <1>5, <1>6, <1>7, <1>8, DecideType DEF Next

LEMMA InitFacts ==
    ASSUME Init
    PROVE  TypeOK /\ Dated /\ OneDigestAnEvening
<1>1. Start \in Ticks /\ 0 \in LocalTimes
  BY ClockAssumption DEF Start, Ticks, LocalTimes
<1>2. user \in Accounts
  BY DEF Init, Accounts
<1>3. NoRow \in Rows /\ Resting \in Runs
  BY <1>1 DEF NoRow, Rows, Resting, Runs
<1>4. [made |-> Start, on |-> TRUE, email |-> TRUE, bell |-> TRUE] \in Rules
  BY <1>1 DEF Rules
<1>5. TypeOK
  BY <1>1, <1>2, <1>3, <1>4 DEF Init, TypeOK
<1>6. Dated /\ OneDigestAnEvening
  BY DEF Init, Dated, OneDigestAnEvening
<1> QED  BY <1>5, <1>6

\* Every variable keeps its type, a decision's new counts, rows and emails
\* among them.
THEOREM TypeCorrect == Spec => []TypeOK
<1>1. Init => TypeOK
  BY InitFacts
<1>2. TypeOK /\ [Next]_vars => TypeOK'
  BY TypeStep
<1> QED  BY <1>1, <1>2, PTL DEF Spec

\* Each evening of the user's clock has one digest at most: the last digest's
\* wall clock that decide() compares with the evening's hour is enough, for
\* runs that overlap or are behind and for a user who changes their zone.
THEOREM OneDigest == Spec => []OneDigestAnEvening
<1> DEFINE Inv == TypeOK /\ Dated /\ OneDigestAnEvening
<1>1. Init => Inv
  BY InitFacts
<1>2. Inv /\ [Next]_vars => Inv'
  BY TypeStep, DigestStep
<1>3. Inv => OneDigestAnEvening
  OBVIOUS
<1> HIDE DEF Inv
<1> QED  BY <1>1, <1>2, <1>3, PTL DEF Spec

-----------------------------------------------------------------------------
(* AtMostOnce.  An item is spoken for once a decision has handed it to its *)
(* run, and what is spoken for is over: its row is settled, and nothing    *)
(* that is to come queues it again.                                        *)

Handed(i) == \E s \in Senders : \E email \in sender[s].due : i \in email
Spoken(i) == mailed[i] # 0 \/ Handed(i)

\* The runs' clocks are behind the time, and the filings are before it.
Behind ==
    /\ \A s \in Senders : sender[s].now <= now
    /\ \A i \in Items : filed[i] <= now

\* What is queued has been written to the bell, or been filed.
QueuedAfter ==
    \A i \in Items : Queued(i) => IF i \in Instant THEN i \in told ELSE filed[i] # 0

\* An item is in one email of one run, which has not gone.
HandedOnce ==
    \A s \in Senders : \A email \in sender[s].due : \A i \in email :
        /\ mailed[i] = 0
        /\ \A t \in Senders : \A other \in sender[t].due :
            i \in other => t = s /\ other = email

\* The season's rule is gone or newer than the filing, or the filing is no
\* longer fresh to any emission to come.
NotAgain(i) ==
    \/ rule["season"].made = 0 \/ rule["season"].made > filed[i]
    \/ now > filed[i] + KeepFor

Over(i) ==
    /\ Queued(i) => outbox[i].settled # 0
    /\ i \in Instant => i \in told
    /\ i \in Season =>
        /\ filed[i] # 0
        /\ IF Queued(i) THEN outbox[i].settled >= filed[i] ELSE NotAgain(i)
SpokenIsOver == \A i \in Items : Spoken(i) => Over(i)

OnceInv == Behind /\ QueuedAfter /\ HandedOnce /\ SpokenIsOver /\ AtMostOnce

\* What a step that hands nothing over leaves of what was handed over.
LEMMA HandedFewer ==
    ASSUME HandedOnce, UNCHANGED mailed,
           \A s \in Senders : sender'[s].due \subseteq sender[s].due
    PROVE  HandedOnce' /\ \A i \in Items : Spoken(i)' => Spoken(i)
<1>1. HandedOnce'
  BY DEF HandedOnce
<1>2. \A i \in Items : Spoken(i)' => Spoken(i)
  BY DEF Spoken, Handed
<1> QED  BY <1>1, <1>2

LEMMA TypeFacts ==
    ASSUME TypeOK
    PROVE  /\ now \in Nat /\ now # 0 /\ KeepFor \in Nat /\ FreshFor \in Nat /\ FreshFor < KeepFor
           /\ \A i \in Items : filed[i] \in Nat /\ outbox[i] \in Rows /\ outbox[i].settled \in Nat
                               /\ mailed[i] \in 0 .. 2
           /\ \A s \in Senders : sender[s] \in Runs /\ sender[s].now \in Nat
                                 /\ sender[s].due \subseteq SUBSET Items
           /\ \A k \in Lists : rule[k] \in Rules /\ rule[k].made \in Nat
<1>0. KeepFor \in Nat /\ FreshFor \in Nat /\ FreshFor < KeepFor
  BY ClockAssumption
<1>1. (\A t \in Ticks : t \in Nat /\ t # 0) /\ Ticks \cup {0} \subseteq Nat
  BY ClockAssumption DEF Ticks, Start
<1>2. now \in Ticks /\ filed \in [Items -> Ticks \cup {0}] /\ outbox \in [Items -> Rows]
      /\ mailed \in [Items -> 0 .. 2] /\ sender \in [Senders -> Runs] /\ rule \in [Lists -> Rules]
  BY DEF TypeOK
<1>3. \A row \in Rows : row.settled \in Nat
  <2> TAKE row \in Rows
  <2>1. row.settled \in Ticks \cup {0}
    BY Zenon DEF Rows
  <2> QED  BY <1>1, <2>1, Zenon
<1>4. \A r \in Runs : r.now \in Nat /\ r.due \subseteq SUBSET Items
  BY <1>1 DEF Runs
<1>5. \A r \in Rules : r.made \in Nat
  <2> TAKE r \in Rules
  <2>1. r.made \in Ticks \cup {0}
    BY Zenon DEF Rules
  <2> QED  BY <1>1, <2>1, Zenon
<1>6. now \in Nat /\ now # 0
  BY <1>1, <1>2, Zenon
<1>7. \A i \in Items : filed[i] \in Nat /\ outbox[i] \in Rows /\ outbox[i].settled \in Nat
                        /\ mailed[i] \in 0 .. 2
  <2> TAKE i \in Items
  <2>1. filed[i] \in Ticks \cup {0} /\ outbox[i] \in Rows /\ mailed[i] \in 0 .. 2
    BY <1>2
  <2> QED  BY <1>1, <1>3, <2>1, Zenon
<1>8. \A s \in Senders : sender[s] \in Runs /\ sender[s].now \in Nat
                          /\ sender[s].due \subseteq SUBSET Items
  BY <1>2, <1>4
<1>9. \A k \in Lists : rule[k] \in Rules /\ rule[k].made \in Nat
  BY <1>2, <1>5
<1> QED  BY <1>0, <1>6, <1>7, <1>8, <1>9

-----------------------------------------------------------------------------

\* A filing is news to no item that was spoken for: an instant one has its
\* notification, a season's one is not filed again.
LEMMA FileOnce ==
    ASSUME TypeOK, OnceInv, Amended \cap Season = {},
           NEW i \in Items, File(i) \/ Restate(i)
    PROVE  OnceInv'
<1>1. /\ filed' = [filed EXCEPT ![i] = now] /\ filed \in [Items -> Ticks \cup {0}]
      /\ UNCHANGED <<now, rule, told, outbox, sender, mailed>>
  BY DEF File, Restate, TypeOK
<1>2. \A j \in Items : filed'[j] = IF j = i THEN now ELSE filed[j]
  BY <1>1
<1>3. Behind' /\ QueuedAfter'
  BY <1>1, <1>2, TypeFacts DEF OnceInv, Behind, QueuedAfter, Queued
<1>4. HandedOnce' /\ \A j \in Items : Spoken(j)' => Spoken(j)
  BY <1>1, HandedFewer DEF OnceInv
<1>5. ASSUME NEW j \in Items, Spoken(j)
      PROVE  Over(j)'
  <2>1. Over(j)
    BY <1>5 DEF OnceInv, SpokenIsOver
  <2>2. j \in Season => j # i
    BY <2>1 DEF Over, File, Restate
  <2> QED  BY <1>1, <1>2, <2>1, <2>2 DEF Over, NotAgain, Queued
<1> QED  BY <1>1, <1>3, <1>4, <1>5 DEF OnceInv, SpokenIsOver, AtMostOnce

\* An emission queues nothing that was spoken for.
LEMMA EmitOnce ==
    ASSUME TypeOK, OnceInv, Emit
    PROVE  OnceInv'
<1>1. PICK at \in {now, now - 1} \cap Ticks : \E events \in SUBSET {i \in Items : IsFresh(i, at)} :
        /\ told' = told \cup Written(events)
        /\ outbox' = [i \in Items |->
                IF i \in ToQueue(events)
                THEN [route |-> IF i \in Season THEN "digest" ELSE "instant",
                      queued |-> at, settled |-> 0, delivered |-> FALSE]
                ELSE outbox[i]]
        /\ UNCHANGED <<now, user, rule, filed, emailed, lastDigest, digests, sender, mailed>>
  BY DEF Emit
<1>2. PICK events \in SUBSET {i \in Items : IsFresh(i, at)} :
        /\ told' = told \cup Written(events)
        /\ outbox' = [i \in Items |->
                IF i \in ToQueue(events)
                THEN [route |-> IF i \in Season THEN "digest" ELSE "instant",
                      queued |-> at, settled |-> 0, delivered |-> FALSE]
                ELSE outbox[i]]
  BY <1>1
<1>3. UNCHANGED <<now, rule, filed, sender, mailed>>
  BY <1>1
<1>4. \A i \in ToQueue(events) :
        /\ ~Queued(i)
        /\ i \in Instant => i \in Written(events)
        /\ i \in Season => IsFresh(i, at) /\ Hears(i)
  BY ItemsAssumption DEF ToQueue, Written
<1>5. Behind'
  BY <1>3 DEF OnceInv, Behind
<1>6. QueuedAfter'
  <2> SUFFICES ASSUME NEW i \in Items, Queued(i)'
               PROVE  IF i \in Instant THEN i \in told' ELSE filed'[i] # 0
    BY DEF QueuedAfter
  <2>1. CASE i \in ToQueue(events)
    BY <1>2, <1>3, <1>4, <2>1 DEF IsFresh, Items
  <2>2. CASE i \notin ToQueue(events)
    <3>1. Queued(i)
      BY <1>2, <2>2 DEF Queued
    <3> QED  BY <1>2, <1>3, <3>1 DEF OnceInv, QueuedAfter
  <2> QED  BY <2>1, <2>2
<1>7. HandedOnce' /\ \A i \in Items : Spoken(i)' => Spoken(i)
  BY <1>3, HandedFewer DEF OnceInv
<1>8. ASSUME NEW i \in Items, Spoken(i)
      PROVE  Over(i)'
  <2>1. Over(i)
    BY <1>8 DEF OnceInv, SpokenIsOver
  <2>2. i \notin ToQueue(events)
    <3> SUFFICES ASSUME i \in ToQueue(events) PROVE FALSE
      OBVIOUS
    <3>1. CASE i \in Instant
      BY <1>4, <2>1, <3>1 DEF Over, Written
    <3>2. CASE i \in Season
      <4>1. IsFresh(i, at) /\ Hears(i) /\ NotAgain(i)
        BY <1>4, <2>1, <3>2 DEF Over
      <4>2. rule["season"].made # 0 /\ rule["season"].made <= filed[i]
        BY <4>1, <3>2 DEF Hears, ListOf
      <4>3. at >= now - 1 /\ filed[i] >= at - FreshFor /\ at \in Int
        BY <1>1, <4>1, TypeFacts DEF IsFresh
      <4>4. filed[i] \in Nat /\ now \in Nat /\ KeepFor \in Nat /\ FreshFor \in Nat
            /\ FreshFor < KeepFor /\ rule["season"].made \in Nat
        BY TypeFacts DEF Lists
      <4> QED  BY <4>1, <4>2, <4>3, <4>4 DEF NotAgain
    <3> QED  BY <3>1, <3>2 DEF Items
  <2>3. outbox'[i] = outbox[i] /\ (i \in told => i \in told')
    BY <1>2, <2>2
  <2> QED  BY <1>3, <2>1, <2>3 DEF Over, NotAgain, Queued
<1> QED  BY <1>3, <1>5, <1>6, <1>7, <1>8 DEF OnceInv, SpokenIsOver, AtMostOnce

-----------------------------------------------------------------------------

\* A decision hands over what waits, which nothing has spoken for; what it
\* hands over it settles, and it leaves alone what was settled.
LEMMA DecidedRow ==
    ASSUME NEW i \in Items, NEW at
    PROVE  /\ i \notin Waiting => Settled(i, at) = outbox[i]
           /\ i \in Digest(at) \cup Batch(at) =>
                /\ i \in Waiting
                /\ Settled(i, at) = [outbox[i] EXCEPT !.settled = now, !.delivered = TRUE]
           /\ Settled(i, at) # NoRow => Queued(i)
           /\ Listed(Digest(at)) \subseteq Digest(at)
           /\ Digest(at) \cap Batch(at) = {}
<1>1. Digest(at) \subseteq On("digest") /\ Batch(at) \subseteq On("instant")
      /\ Overflow(at) \subseteq On("instant") /\ Batch(at) \cap Overflow(at) = {}
  BY DEF Digest, Due, Batch, Overflow
<1>2. On("digest") \cup On("instant") \subseteq Live /\ Live \subseteq Waiting
      /\ On("digest") \cap On("instant") = {} /\ Dropped = Waiting \ Live
      /\ Waiting \subseteq {j \in Items : Queued(j)}
  BY DEF On, Live, Dropped, Waiting
<1>3. i \notin Waiting => Settled(i, at) = outbox[i]
  <2> SUFFICES ASSUME i \notin Waiting PROVE Settled(i, at) = outbox[i]
    OBVIOUS
  <2>1. i \notin Dropped /\ i \notin Digest(at) \cup Batch(at) /\ i \notin Overflow(at)
    BY <1>1, <1>2
  <2> QED  BY <2>1 DEF Settled
<1>4. ASSUME i \in Digest(at) \cup Batch(at)
      PROVE  /\ i \in Waiting
             /\ Settled(i, at) = [outbox[i] EXCEPT !.settled = now, !.delivered = TRUE]
  <2>1. i \in Waiting /\ i \notin Dropped /\ i \notin Overflow(at)
    BY <1>1, <1>2, <1>4
  <2> QED  BY <2>1, <1>4 DEF Settled
<1>5. Settled(i, at) # NoRow => Queued(i)
  BY <1>2, <1>3 DEF Queued
<1>6. Listed(Digest(at)) \subseteq Digest(at)
  BY DEF Listed
<1> QED  BY <1>1, <1>2, <1>3, <1>4, <1>5, <1>6

LEMMA DecideOnce ==
    ASSUME TypeOK, OnceInv, NEW s \in Senders, Decide(s)
    PROVE  OnceInv'
<1> DEFINE at == sender[s].now
<1> DEFINE mails == {Listed(Digest(at)), Batch(at)} \ {{}}
<1>1. /\ outbox' = [i \in Items |-> Settled(i, at)]
      /\ sender' = [sender EXCEPT ![s] = [@ EXCEPT !.phase = "forgetting", !.due = mails]]
      /\ UNCHANGED <<now, user, rule, filed, told, mailed>>
  BY DEF Decide
<1>2. \A i \in Items : outbox'[i] = Settled(i, at)
  BY <1>1
<1>3. sender \in [Senders -> Runs]
  BY DEF TypeOK
<1>4. /\ sender'[s].now = sender[s].now /\ sender'[s].due = mails
      /\ \A t \in Senders \ {s} : sender'[t] = sender[t]
  BY <1>1, <1>3 DEF Runs
<1>5. \A email \in mails : email \subseteq Digest(at) \cup Batch(at)
  BY DEF Listed
<1>6. \A email, other \in mails : email = other \/ email \cap other = {}
  <2>1. Listed(Digest(at)) \cap Batch(at) = {}
    <3>1. Digest(at) \cap Batch(at) = {}
      BY DEF Digest, Due, Batch, On
    <3> QED  BY <3>1 DEF Listed
  <2> QED  BY <2>1
<1> HIDE DEF at, mails
<1>7. Digest(at) \cup Batch(at) \subseteq Items
  BY DEF Digest, Due, Batch, On, Live, Waiting
<1>8. Behind'
  BY <1>1, <1>4 DEF OnceInv, Behind
<1>9. QueuedAfter'
  <2>1. \A i \in Items : Queued(i)' => Queued(i)
    BY <1>2, DecidedRow DEF Queued
  <2> QED  BY <1>1, <2>1 DEF OnceInv, QueuedAfter
<1>10. ASSUME NEW i \in Digest(at) \cup Batch(at)
       PROVE  ~Spoken(i) /\ Over(i)'
  <2>1. i \in Items
    BY <1>7
  <2>2. i \in Waiting /\ outbox'[i] = [outbox[i] EXCEPT !.settled = now, !.delivered = TRUE]
    BY <1>2, <2>1, DecidedRow
  <2>3. Queued(i) /\ outbox[i].settled = 0
    BY <2>2 DEF Waiting
  <2>4. ~Spoken(i)
    BY <2>1, <2>3 DEF OnceInv, SpokenIsOver, Over
  <2>5. now \in Nat /\ now # 0 /\ filed[i] \in Nat /\ filed[i] <= now
    BY <2>1, TypeFacts DEF OnceInv, Behind
  <2>6. outbox'[i].settled = now
    BY <2>1, <2>2, TypeFacts DEF Rows
  <2>7. outbox'[i] # NoRow
    BY <2>5, <2>6 DEF NoRow
  <2>8. (i \in Instant => i \in told) /\ (i \in Season => filed[i] # 0)
    BY <2>1, <2>3, ItemsAssumption DEF OnceInv, QueuedAfter
  <2> QED  BY <1>1, <2>4, <2>5, <2>6, <2>7, <2>8 DEF Over, Queued
<1>11. HandedOnce'
  <2> SUFFICES ASSUME NEW r \in Senders, NEW email \in sender'[r].due, NEW i \in email
               PROVE  /\ mailed'[i] = 0
                      /\ \A t \in Senders : \A other \in sender'[t].due :
                            i \in other => t = r /\ other = email
    BY DEF HandedOnce
  <2>1. CASE r = s
    <3>1. email \in mails /\ i \in Digest(at) \cup Batch(at)
      BY <1>4, <1>5, <2>1
    <3>2. ~Spoken(i)
      BY <1>10, <3>1
    <3>3. \A t \in Senders \ {s} : \A other \in sender'[t].due : i \notin other
      BY <1>4, <3>2 DEF Spoken, Handed
    <3>4. \A other \in sender'[s].due : i \in other => other = email
      BY <1>4, <1>6, <3>1
    <3> QED  BY <1>1, <2>1, <3>2, <3>3, <3>4 DEF Spoken
  <2>2. CASE r # s
    <3>1. email \in sender[r].due
      BY <1>4, <2>2
    <3>2. Spoken(i)
      BY <3>1 DEF Spoken, Handed
    <3>3. \A other \in sender'[s].due : i \notin other
      BY <1>4, <1>5, <1>10, <3>2
    <3>4. mailed[i] = 0 /\ \A t \in Senders : \A other \in sender[t].due :
                                i \in other => t = r /\ other = email
      BY <3>1 DEF OnceInv, HandedOnce
    <3> QED  BY <1>1, <1>4, <3>3, <3>4
  <2> QED  BY <2>1, <2>2
<1>12. ASSUME NEW i \in Items, Spoken(i)'
       PROVE  Over(i)'
  <2>1. CASE i \in Digest(at) \cup Batch(at)
    BY <1>10, <2>1
  <2>2. CASE i \notin Digest(at) \cup Batch(at)
    <3>1. Spoken(i)
      <4>1. CASE mailed[i] # 0
        BY <4>1 DEF Spoken
      <4>2. CASE mailed[i] = 0
        <5>1. PICK t \in Senders : \E email \in sender'[t].due : i \in email
          BY <1>1, <1>12, <4>2 DEF Spoken, Handed
        <5>2. t # s
          BY <1>4, <1>5, <2>2, <5>1
        <5> QED  BY <1>4, <5>1, <5>2 DEF Spoken, Handed
      <4> QED  BY <4>1, <4>2
    <3>2. Over(i)
      BY <3>1 DEF OnceInv, SpokenIsOver
    <3>3. i \notin Waiting
      BY <3>2 DEF Over, Waiting
    <3>4. outbox'[i] = outbox[i]
      BY <1>2, <3>3, DecidedRow
    <3> QED  BY <1>1, <3>2, <3>4 DEF Over, NotAgain, Queued
  <2> QED  BY <2>1, <2>2
<1> QED  BY <1>1, <1>8, <1>9, <1>11, <1>12 DEF OnceInv, SpokenIsOver, AtMostOnce

-----------------------------------------------------------------------------
(* The other steps of a run.                                               *)

LEMMA PhaseOnce ==
    ASSUME TypeOK, OnceInv, NEW s \in Senders, Begin(s) \/ Skip(s) \/ Kill(s)
    PROVE  OnceInv'
<1>1. UNCHANGED <<now, rule, filed, told, outbox, mailed>>
  BY DEF Begin, Skip, Kill
<1>2. \A t \in Senders : sender'[t].due \subseteq sender[t].due
                         /\ sender'[t].now \in {sender[t].now, now, Start}
  <2>1. sender \in [Senders -> Runs]
    BY DEF TypeOK
  <2>2. Begin(s) => sender'[s].due = {} /\ sender'[s].now = now
                    /\ \A t \in Senders \ {s} : sender'[t] = sender[t]
    BY <2>1 DEF Begin
  <2>3. Skip(s) => sender'[s].due = sender[s].due /\ sender'[s].now = sender[s].now
                   /\ \A t \in Senders \ {s} : sender'[t] = sender[t]
    BY <2>1 DEF Skip, Runs
  <2>4. Kill(s) => sender'[s].due = {} /\ sender'[s].now = Start
                   /\ \A t \in Senders \ {s} : sender'[t] = sender[t]
    BY <2>1 DEF Kill, Resting
  <2> QED  BY <2>2, <2>3, <2>4
<1>3. Start <= now
  BY ClockAssumption DEF TypeOK, Ticks, Start
<1>4. Behind'
  BY <1>1, <1>2, <1>3, TypeFacts DEF OnceInv, Behind
<1>5. HandedOnce' /\ \A i \in Items : Spoken(i)' => Spoken(i)
  BY <1>1, <1>2, HandedFewer DEF OnceInv
<1>6. \A i \in Items : Over(i) => Over(i)'
  BY <1>1 DEF Over, NotAgain, Queued
<1>7. QueuedAfter' /\ AtMostOnce'
  BY <1>1 DEF OnceInv, QueuedAfter, Queued, AtMostOnce
<1> QED  BY <1>4, <1>5, <1>6, <1>7 DEF OnceInv, SpokenIsOver

\* A row forgotten was settled longer ago than a filing is fresh for.
LEMMA ForgetOnce ==
    ASSUME TypeOK, OnceInv, NEW s \in Senders, Forget(s)
    PROVE  OnceInv'
<1>1. UNCHANGED <<now, rule, filed, told, mailed>>
  BY DEF Forget
<1>2. \A i \in Items :
        \/ outbox'[i] = outbox[i]
        \/ outbox'[i] = NoRow /\ outbox[i].settled < sender[s].now - KeepFor
  BY DEF Forget
<1>3. \A t \in Senders : sender'[t].due \subseteq sender[t].due
                         /\ sender'[t].now \in {sender[t].now, Start}
  <2>1. sender \in [Senders -> Runs]
    BY DEF TypeOK
  <2>2. /\ sender'[s] = IF sender[s].due = {} THEN Resting
                        ELSE [sender[s] EXCEPT !.phase = "sending"]
        /\ \A t \in Senders \ {s} : sender'[t] = sender[t]
    BY <2>1 DEF Forget
  <2>3. sender'[s].due \subseteq sender[s].due /\ sender'[s].now \in {sender[s].now, Start}
    BY <2>1, <2>2 DEF Resting, Runs
  <2> QED  BY <2>2, <2>3
<1>4. Start <= now
  BY ClockAssumption DEF TypeOK, Ticks, Start
<1>5. Behind'
  BY <1>1, <1>3, <1>4, TypeFacts DEF OnceInv, Behind
<1>6. HandedOnce' /\ \A i \in Items : Spoken(i)' => Spoken(i)
  BY <1>1, <1>3, HandedFewer DEF OnceInv
<1>7. QueuedAfter' /\ AtMostOnce'
  BY <1>1, <1>2 DEF OnceInv, QueuedAfter, Queued, AtMostOnce
<1>8. ASSUME NEW i \in Items, Over(i)
      PROVE  Over(i)'
  <2>1. CASE outbox'[i] = outbox[i]
    BY <1>1, <1>8, <2>1 DEF Over, NotAgain, Queued
  <2>2. CASE outbox'[i] = NoRow /\ outbox[i] # NoRow
                /\ outbox[i].settled < sender[s].now - KeepFor
    <3>1. ASSUME i \in Season
          PROVE  now > filed[i] + KeepFor
      <4>1. outbox[i].settled >= filed[i]
        BY <1>8, <2>2, <3>1 DEF Over, Queued
      <4>2. sender[s].now <= now
        BY DEF OnceInv, Behind
      <4>3. /\ now \in Nat /\ KeepFor \in Nat /\ filed[i] \in Nat /\ sender[s].now \in Nat
            /\ outbox[i].settled \in Nat
        BY TypeFacts
      <4> QED  BY <2>2, <4>1, <4>2, <4>3
    <3> QED  BY <1>1, <1>8, <2>2, <3>1 DEF Over, NotAgain, Queued
  <2> QED  BY <1>2, <2>1, <2>2
<1> QED  BY <1>5, <1>6, <1>7, <1>8 DEF OnceInv, SpokenIsOver

\* An email goes from the one run it was handed to.
LEMMA SendOnce ==
    ASSUME TypeOK, OnceInv, NEW s \in Senders, Send(s)
    PROVE  OnceInv'
<1>1. PICK email \in sender[s].due :
        /\ sender' = [sender EXCEPT ![s] = AfterEmail(s, email)]
        /\ \/ mailed' = [i \in Items |-> IF i \in email /\ mailed[i] < 2 THEN mailed[i] + 1
                                         ELSE mailed[i]]
           \/ UNCHANGED mailed
  BY DEF Send
<1>2. UNCHANGED <<now, rule, filed, told, outbox>>
  BY DEF Send
<1>3. /\ \A t \in Senders \ {s} : sender'[t] = sender[t]
      /\ sender'[s].due = sender[s].due \ {email}
      /\ sender'[s].now \in {sender[s].now, Start}
  <2>1. sender \in [Senders -> Runs]
    BY DEF TypeOK
  <2>2. sender'[s] = AfterEmail(s, email) /\ \A t \in Senders \ {s} : sender'[t] = sender[t]
    BY <1>1, <2>1
  <2>3. AfterEmail(s, email).due = sender[s].due \ {email}
        /\ AfterEmail(s, email).now \in {sender[s].now, Start}
    BY <2>1 DEF AfterEmail, Resting, Runs
  <2> QED  BY <2>2, <2>3
<1>4. email \subseteq Items
  BY <1>1, TypeFacts
<1>5. \A i \in email : mailed[i] = 0 /\ Spoken(i)
        /\ \A t \in Senders : \A other \in sender[t].due : i \in other => t = s /\ other = email
  BY <1>1 DEF OnceInv, HandedOnce, Spoken, Handed
<1>6. \A i \in Items : mailed'[i] = mailed[i] \/ (i \in email /\ mailed'[i] = 1)
  BY <1>1, <1>5
<1>7. \A t \in Senders : \A other \in sender'[t].due : other \in sender[t].due
  BY <1>3
<1>8. \A i \in email : \A t \in Senders : \A other \in sender'[t].due : i \notin other
  BY <1>3, <1>5
<1>9. Start <= now
  BY ClockAssumption DEF TypeOK, Ticks, Start
<1>10. Behind'
  BY <1>2, <1>3, <1>9, TypeFacts DEF OnceInv, Behind
<1>11. QueuedAfter' /\ AtMostOnce'
  BY <1>2, <1>6 DEF OnceInv, QueuedAfter, Queued, AtMostOnce
<1>12. HandedOnce'
  <2> SUFFICES ASSUME NEW t \in Senders, NEW other \in sender'[t].due, NEW i \in other
               PROVE  /\ mailed'[i] = 0
                      /\ \A r \in Senders : \A third \in sender'[r].due :
                            i \in third => r = t /\ third = other
    BY DEF HandedOnce
  <2>1. i \notin email /\ i \in Items
    BY <1>7, <1>8, TypeFacts
  <2>2. mailed[i] = 0 /\ \A r \in Senders : \A third \in sender[r].due :
                            i \in third => r = t /\ third = other
    BY <1>7 DEF OnceInv, HandedOnce
  <2> QED  BY <1>6, <1>7, <2>1, <2>2
<1>13. \A i \in Items : Spoken(i)' => Spoken(i)
  BY <1>5, <1>6, <1>7 DEF Spoken, Handed
<1>14. \A i \in Items : Over(i) => Over(i)'
  BY <1>2 DEF Over, NotAgain, Queued
<1> QED  BY <1>10, <1>11, <1>12, <1>13, <1>14 DEF OnceInv, SpokenIsOver

-----------------------------------------------------------------------------

\* A rule made again is newer than what its predecessor told of.
LEMMA RuleOnce ==
    ASSUME TypeOK, OnceInv, NEW k \in Lists, DeleteRule(k) \/ MakeRule(k) \/ EditRule(k)
    PROVE  OnceInv'
<1>1. UNCHANGED <<now, filed, told, sender, mailed>>
  BY DEF DeleteRule, MakeRule, EditRule
<1>2. Behind' /\ AtMostOnce'
  BY <1>1 DEF OnceInv, Behind, AtMostOnce
<1>3. HandedOnce' /\ \A i \in Items : Spoken(i)' => Spoken(i)
  BY <1>1, HandedFewer DEF OnceInv
<1>4. \A i \in Items :
        \/ outbox'[i] = outbox[i]
        \/ outbox'[i] = NoRow /\ DeleteRule(k) /\ k = ListOf(i)
  BY DEF DeleteRule, MakeRule, EditRule
<1>5. QueuedAfter'
  BY <1>1, <1>4 DEF OnceInv, QueuedAfter, Queued
<1>6. \/ rule'["season"].made = rule["season"].made
      \/ k = "season" /\ DeleteRule(k) /\ rule'["season"].made = 0
      \/ rule'["season"].made = now /\ \A i \in Items : filed[i] # now
  <2>1. rule \in [Lists -> Rules] /\ "season" \in Lists
    BY DEF TypeOK, Lists
  <2>2. CASE DeleteRule(k)
    BY <2>1, <2>2 DEF DeleteRule, NoRule
  <2>3. CASE MakeRule(k)
    BY <2>1, <2>3 DEF MakeRule
  <2>4. CASE EditRule(k)
    <3>1. PICK setting \in Settings :
            rule' = [rule EXCEPT ![k].on = setting.on, ![k].email = setting.email,
                                 ![k].bell = setting.bell]
      BY <2>4 DEF EditRule
    <3> QED  BY <2>1, <3>1 DEF Rules
  <2> QED  BY <2>2, <2>3, <2>4
<1>7. ASSUME NEW i \in Items, Over(i)
      PROVE  Over(i)'
  <2>1. NotAgain(i) => NotAgain(i)'
    <3>1. /\ filed[i] \in Nat /\ filed[i] <= now /\ now \in Nat
          /\ filed'[i] = filed[i] /\ now' = now
      BY <1>1, TypeFacts DEF OnceInv, Behind
    <3> QED  BY <1>6, <3>1 DEF NotAgain
  <2>2. CASE outbox'[i] = outbox[i]
    BY <1>1, <1>7, <2>1, <2>2 DEF Over, Queued
  <2>3. CASE outbox'[i] = NoRow /\ DeleteRule(k) /\ k = ListOf(i)
    <3>1. i \in Season => rule'["season"].made = 0
      <4>1. i \in Season => k = "season"
        BY <2>3 DEF ListOf
      <4>2. DeleteRule("season") => rule'["season"].made = 0
        BY DEF DeleteRule, NoRule, TypeOK, Lists
      <4> QED  BY <2>3, <4>1, <4>2
    <3> QED  BY <1>1, <1>7, <2>3, <3>1 DEF Over, NotAgain, Queued
  <2> QED  BY <1>4, <2>2, <2>3
<1> QED  BY <1>2, <1>3, <1>5, <1>7 DEF OnceInv, SpokenIsOver

\* The account's edits change nothing of it, and time only ages what was filed.
LEMMA RestOnce ==
    ASSUME TypeOK, OnceInv, EditAccount \/ Move \/ Tick \/ UNCHANGED vars
    PROVE  OnceInv'
<1>1. UNCHANGED <<rule, filed, told, outbox, sender, mailed>> /\ now' \in {now, now + 1}
  BY DEF EditAccount, Move, Tick, vars
<1>2. now \in Nat
  BY TypeFacts
<1>3. Behind' /\ AtMostOnce' /\ QueuedAfter'
  BY <1>1, <1>2, TypeFacts DEF OnceInv, Behind, AtMostOnce, QueuedAfter, Queued
<1>4. HandedOnce' /\ \A i \in Items : Spoken(i)' => Spoken(i)
  BY <1>1, HandedFewer DEF OnceInv
<1>5. ASSUME NEW i \in Items, Over(i)
      PROVE  Over(i)'
  <2>1. filed[i] \in Nat /\ KeepFor \in Nat
    BY TypeFacts
  <2>2. NotAgain(i) => NotAgain(i)'
    BY <1>1, <1>2, <2>1 DEF NotAgain
  <2> QED  BY <1>1, <1>5, <2>2 DEF Over, Queued
<1> QED  BY <1>3, <1>4, <1>5 DEF OnceInv, SpokenIsOver

\* No event is emailed twice, when no filing the season digest counts is amended
\* in a later quarter: not by overlapping runs, a worker killed between the commit
\* and its emails, an emission run again, a rule deleted and made again, or a row
\* forgotten, whatever FRESH_FOR is as long as KEEP_FOR is longer.
THEOREM Once ==
    ASSUME Amended \cap Season = {}
    PROVE  Spec => []AtMostOnce
<1>1. Init => OnceInv
  <2> SUFFICES ASSUME Init PROVE OnceInv
    OBVIOUS
  <2>1. Behind
    BY ClockAssumption DEF Init, Behind, Resting, Start
  <2>2. \A i \in Items : mailed[i] = 0 /\ ~Queued(i) /\ ~Handed(i)
    BY DEF Init, Queued, Handed, Resting
  <2>3. HandedOnce
    BY DEF Init, HandedOnce, Resting
  <2> QED  BY <2>1, <2>2, <2>3 DEF OnceInv, QueuedAfter, SpokenIsOver, Spoken, AtMostOnce
<1>2. TypeOK /\ OnceInv /\ [Next]_vars => OnceInv'
  BY FileOnce, EmitOnce, DecideOnce, PhaseOnce, ForgetOnce, SendOnce, RuleOnce, RestOnce DEF Next
<1>3. OnceInv => AtMostOnce
  BY DEF OnceInv
<1> QED  BY <1>1, <1>2, <1>3, TypeCorrect, PTL DEF Spec

-----------------------------------------------------------------------------
(* How long an item waits.                                                 *)

\* Where the user stays and keeps their rules, in a filing window; the batch
\* window closes in the next tick at the latest, two emails a day go, and the
\* digest's hour is not the day's last.
Steady ==
    /\ Prompt /\ Edits = {} /\ Settings = {}
    /\ BatchWindow <= 1 /\ EmailsPerDay >= 2 /\ DigestAt + 2 <= SlotsPerDay
    /\ \A t \in Ticks, zone \in Zones : Day(t + zone) \in Windows

Since(i) == Local(outbox[i].queued)
By(route) == {i \in Waiting : outbox[i].route = route}
Today == emailed[Day(Local(now))]

\* The day's first tick, and this evening's digest hour.
Morning(local) == Day(local) * SlotsPerDay
Tonight == Morning(Local(now)) + DigestAt

\* The user is as they were, and time goes forward.
Settling ==
    /\ user.verified /\ user.instant /\ ~user.deleted
    /\ \A k \in Lists : rule[k].on /\ rule[k].email
    /\ \A s \in Senders : sender[s].now <= now
    /\ lastDigest <= Local(now)
    /\ \A i \in Waiting :
        /\ outbox[i].queued \in Ticks /\ outbox[i].queued <= now
        /\ outbox[i].route = IF i \in Season THEN "digest" ELSE outbox[i].route
        /\ outbox[i].route \in {"instant", "digest"}

\* An email is of a day that has been loud.
Loud == \A d \in Days :
    emailed[d] # 0 => \E t \in LocalTimes : t <= Local(now) /\ Day(t) = d /\ ~IsQuiet(t)

\* A batch waits for quiet hours only, in which no email goes.
BatchWaits == \A i \in By("instant") :
    /\ \A t \in Since(i) + 1 .. Local(now) - 1 : IsQuiet(t)
    /\ lastDigest <= Since(i) + 1
    /\ Since(i) + 2 <= Local(now) /\ Since(i) < Morning(Local(now)) => Today = 0

\* An item is in the second digest from when it was queued.
DigestTaken == \A i \in By("digest") : lastDigest < DigestHour(Since(i)) + SlotsPerDay

\* Room is left in the day for the digest: before its hour; for what has waited
\* since the evening before; for what was seen before the hour; and while the
\* evening before's is to come, nothing has gone.
RoomBefore == Local(now) < Tonight => Today < EmailsPerDay
RoomAfter == \A i \in By("digest") : Since(i) + SlotsPerDay <= Tonight => Today < EmailsPerDay
RoomAt == \A i \in Waiting :
    Since(i) + 2 <= Tonight /\ Tonight <= Local(now) /\ lastDigest < Tonight => Today < EmailsPerDay
RoomLate == \A i \in Waiting :
    Since(i) + SlotsPerDay <= Tonight /\ lastDigest + SlotsPerDay < Tonight => Today = 0

WaitInv ==
    Settling /\ Loud /\ BatchWaits /\ DigestTaken /\ RoomBefore /\ RoomAfter /\ RoomAt /\ RoomLate

\* Two days are the same, or one ends before the other begins.
LEMMA DaysApart ==
    ASSUME NEW j \in Int, NEW k \in Int
    PROVE  /\ j * SlotsPerDay \in Int
           /\ j = k \/ j * SlotsPerDay + SlotsPerDay <= k * SlotsPerDay
                    \/ k * SlotsPerDay + SlotsPerDay <= j * SlotsPerDay
<1>1. SlotsPerDay \in Int /\ SlotsPerDay >= 1
  BY ClockAssumption
<1>2. \A a \in Int, b \in Int : a < b => a * SlotsPerDay + SlotsPerDay <= b * SlotsPerDay
  <2> TAKE a \in Int, b \in Int
  <2>1. a < b => (b - a - 1) * SlotsPerDay >= 0
    BY <1>1
  <2>2. (b - a - 1) * SlotsPerDay = b * SlotsPerDay - a * SlotsPerDay - SlotsPerDay
    BY <1>1
  <2> QED  BY <1>1, <2>1, <2>2
<1> QED  BY <1>1, <1>2

Apart(h, k) == h = k \/ h + SlotsPerDay <= k \/ k + SlotsPerDay <= h

LEMMA Mornings ==
    ASSUME NEW x \in Nat, NEW y \in Nat
    PROVE  /\ Morning(x) \in Int /\ Morning(x) <= x /\ x < Morning(x) + SlotsPerDay
           /\ Clock(x) = x - Morning(x)
           /\ \/ Day(x) = Day(y) /\ Morning(x) = Morning(y)
              \/ Day(x) # Day(y) /\ Morning(x) + SlotsPerDay <= Morning(y)
              \/ Day(x) # Day(y) /\ Morning(y) + SlotsPerDay <= Morning(x)
<1>1. SlotsPerDay \in Int /\ SlotsPerDay >= 1
  BY ClockAssumption
<1>2. \A z \in Nat : /\ Day(z) \in Int /\ Morning(z) \in Int
                     /\ Morning(z) <= z /\ z < Morning(z) + SlotsPerDay
                     /\ Clock(z) = z - Morning(z)
  BY <1>1 DEF Day, Morning, Clock
<1>3. Day(x) \in Int /\ Day(y) \in Int
  BY <1>2
<1>4. Morning(x) = Day(x) * SlotsPerDay /\ Morning(y) = Day(y) * SlotsPerDay
  BY DEF Morning
<1>5. \/ Day(x) = Day(y) /\ Morning(x) = Morning(y)
      \/ Morning(x) + SlotsPerDay <= Morning(y)
      \/ Morning(y) + SlotsPerDay <= Morning(x)
  BY <1>3, <1>4, DaysApart
<1> HIDE DEF Morning, Day, Clock
<1>6. Morning(x) # Morning(y) => Day(x) # Day(y)
  BY <1>4
<1> QED  BY <1>1, <1>2, <1>5, <1>6

\* The digest hours are a day apart.
LEMMA HoursApart ==
    ASSUME NEW q \in Nat, NEW x \in Nat
    PROVE  /\ DigestHour(q) \in Int /\ LastDigestTime(x) \in Int
           /\ q <= DigestHour(q) /\ DigestHour(q) < q + SlotsPerDay
           /\ LastDigestTime(x) = IF x < Morning(x) + DigestAt
                                  THEN Morning(x) + DigestAt - SlotsPerDay
                                  ELSE Morning(x) + DigestAt
           /\ Apart(DigestHour(q), Morning(x) + DigestAt)
           /\ Apart(DigestHour(q), LastDigestTime(x))
<1>1. SlotsPerDay \in Int /\ SlotsPerDay >= 1 /\ DigestAt \in Int /\ 0 <= DigestAt
      /\ DigestAt < SlotsPerDay
  BY ClockAssumption
<1>2. Morning(q) \in Int /\ Morning(q) <= q /\ q < Morning(q) + SlotsPerDay
  BY Mornings
<1>3. Morning(x) \in Int /\ Morning(x) <= x /\ x < Morning(x) + SlotsPerDay
  BY Mornings
<1>4. DigestHour(q) = IF q <= Morning(q) + DigestAt THEN Morning(q) + DigestAt
                      ELSE Morning(q) + DigestAt + SlotsPerDay
  BY DEF DigestHour, Morning
<1>5. LastDigestTime(x) = IF x < Morning(x) + DigestAt
                          THEN Morning(x) + DigestAt - SlotsPerDay
                          ELSE Morning(x) + DigestAt
  BY <1>1, <1>3 DEF LastDigestTime, Morning
<1>6. Day(q) \in Int /\ Day(x) \in Int
  BY <1>1 DEF Day
<1>7. \A a \in {Day(q), Day(q) + 1}, b \in {Day(x), Day(x) - 1} :
        Apart(a * SlotsPerDay, b * SlotsPerDay)
  BY <1>6, DaysApart DEF Apart
<1>8. (Day(q) + 1) * SlotsPerDay = Morning(q) + SlotsPerDay
      /\ (Day(x) - 1) * SlotsPerDay = Morning(x) - SlotsPerDay
  BY <1>1, <1>6 DEF Morning
<1>9. /\ Apart(Morning(q), Morning(x)) /\ Apart(Morning(q) + SlotsPerDay, Morning(x))
      /\ Apart(Morning(q), Morning(x) - SlotsPerDay)
      /\ Apart(Morning(q) + SlotsPerDay, Morning(x) - SlotsPerDay)
  BY <1>7, <1>8 DEF Morning
<1> HIDE DEF DigestHour, LastDigestTime, Morning
<1> QED  BY <1>1, <1>2, <1>3, <1>4, <1>5, <1>9 DEF Apart

LEMMA SameHour ==
    ASSUME NEW x \in Nat, x - SlotsPerDay \in Nat
    PROVE  IsQuiet(x - SlotsPerDay) <=> IsQuiet(x)
<1>1. SlotsPerDay \in Int /\ SlotsPerDay >= 1
  BY ClockAssumption
<1>2. Clock(x - SlotsPerDay) = Clock(x)
  <2>1. \A k \in Int : k * SlotsPerDay - SlotsPerDay = (k - 1) * SlotsPerDay
    BY <1>1
  <2>2. /\ x - SlotsPerDay \in Nat /\ Morning(x) \in Int
        /\ Morning(x) - SlotsPerDay <= x - SlotsPerDay
        /\ x - SlotsPerDay < Morning(x) /\ Clock(x) = x - Morning(x)
    BY <1>1, Mornings
  <2>3. /\ Morning(x - SlotsPerDay) \in Int /\ Morning(x - SlotsPerDay) <= x - SlotsPerDay
        /\ x - SlotsPerDay < Morning(x - SlotsPerDay) + SlotsPerDay
        /\ Clock(x - SlotsPerDay) = x - SlotsPerDay - Morning(x - SlotsPerDay)
        /\ \/ Morning(x) = Morning(x - SlotsPerDay)
           \/ Morning(x - SlotsPerDay) + SlotsPerDay <= Morning(x)
           \/ Morning(x) + SlotsPerDay <= Morning(x - SlotsPerDay)
    BY Mornings
  <2>4. Day(x) \in Int /\ Day(x - SlotsPerDay) \in Int
    BY <1>1 DEF Day
  <2>5. Apart(Morning(x - SlotsPerDay), Morning(x) - SlotsPerDay)
    <3>1. Morning(x) - SlotsPerDay = (Day(x) - 1) * SlotsPerDay
      BY <1>1, <2>1, <2>4 DEF Morning
    <3>2. Day(x) - 1 \in Int
      BY <2>4
    <3> HIDE DEF Day
    <3>3. Apart(Day(x - SlotsPerDay) * SlotsPerDay, (Day(x) - 1) * SlotsPerDay)
      BY <2>4, <3>2, DaysApart DEF Apart
    <3> QED  BY <3>1, <3>3 DEF Morning
  <2> QED  BY <1>1, <2>2, <2>3, <2>5 DEF Apart
<1> QED  BY <1>2 DEF IsQuiet

LEMMA SteadyFacts ==
    ASSUME Steady
    PROVE  /\ SlotsPerDay \in Int /\ SlotsPerDay >= 2 /\ DigestAt \in Int /\ 0 <= DigestAt
           /\ DigestAt + 2 <= SlotsPerDay
           /\ BatchWindow \in {0, 1} /\ EmailsPerDay \in Int /\ EmailsPerDay >= 2
  BY ClockAssumption DEF Steady

LEMMA Locals ==
    ASSUME TypeOK
    PROVE  /\ user.zone \in Int /\ user.zone \in Zones /\ now \in Ticks
           /\ \A t \in Ticks : /\ t \in Nat /\ Local(t) \in Nat /\ Local(t) = t + user.zone
                               /\ Local(t) \in LocalTimes /\ Day(Local(t)) \in Days
           /\ lastDigest \in Int /\ emailed \in [Days -> Nat] /\ Today \in Int /\ Today >= 0
<1>1. user \in Accounts /\ now \in Ticks /\ lastDigest \in LocalTimes /\ emailed \in [Days -> Nat]
  BY DEF TypeOK
<1>2. user.zone \in Zones
  BY <1>1 DEF Accounts
<1>3. user.zone \in Int
  <2>1. SlotsPerDay \in Int
    BY ClockAssumption
  <2>2. user.zone \in -SlotsPerDay .. SlotsPerDay
    BY <1>2, ClockAssumption, Zenon
  <2> QED  BY <2>1, <2>2
<1>4. LocalTimes \subseteq Nat /\ Ticks \subseteq Nat
  BY ClockAssumption DEF LocalTimes, Ticks, Start
<1>5. \A t \in Ticks : /\ t \in Nat /\ Local(t) \in Nat /\ Local(t) = t + user.zone
                       /\ Local(t) \in LocalTimes /\ Day(Local(t)) \in Days
  <2> TAKE t \in Ticks
  <2>1. Local(t) \in LocalTimes /\ Day(Local(t)) \in Days
    BY ClockFacts
  <2> QED  BY <1>4, <2>1 DEF Local
<1>6. Today \in Nat
  BY <1>1, <1>5 DEF Today
<1> QED  BY <1>1, <1>2, <1>3, <1>4, <1>5, <1>6

LEMMA WaitingFacts ==
    ASSUME TypeOK, Settling, NEW i \in Waiting
    PROVE  /\ i \in Items /\ Since(i) \in Nat /\ Since(i) <= Local(now)
           /\ outbox[i].queued \in Ticks /\ outbox[i].queued \in Nat
           /\ Since(i) = outbox[i].queued + user.zone
           /\ i \in By("instant") <=> outbox[i].route = "instant"
           /\ i \in By("digest") <=> outbox[i].route = "digest"
           /\ outbox[i].route \in {"instant", "digest"}
           /\ i \in Season => outbox[i].route = "digest"
<1>1. i \in Items
  BY DEF Waiting
<1>2. /\ outbox[i].queued \in Ticks /\ outbox[i].queued <= now
      /\ outbox[i].route = IF i \in Season THEN "digest" ELSE outbox[i].route
      /\ outbox[i].route \in {"instant", "digest"}
  BY DEF Settling
<1>3. /\ Since(i) \in Nat /\ Since(i) <= Local(now) /\ Since(i) = outbox[i].queued + user.zone
      /\ outbox[i].queued \in Nat
  BY <1>2, Locals DEF Since
<1>4. i \in By("instant") <=> outbox[i].route = "instant"
  BY DEF By
<1>5. i \in By("digest") <=> outbox[i].route = "digest"
  BY DEF By
<1> QED  BY <1>1, <1>2, <1>3, <1>4, <1>5

\* Everything waiting may go, and a digest is to come until its hour.
LEMMA Going ==
    ASSUME Steady, TypeOK, Settling, NEW at \in Ticks
    PROVE  /\ Dropped = {} /\ \A route : On(route) = By(route)
           /\ \A items : Listed(items) = items
           /\ Due(at) = {i \in By("digest") : Since(i) <= LastDigestTime(Local(at))}
           /\ DigestAhead(at) <=> Local(at) < Morning(Local(at)) + DigestAt
<1>1. \A i : MayGo(i) /\ Emails(i)
  <2> TAKE i
  <2>1. ListOf(i) \in Lists
    BY DEF ListOf, Lists
  <2>2. rule[ListOf(i)].on /\ rule[ListOf(i)].email
    BY <2>1 DEF Settling
  <2> QED  BY <2>2 DEF MayGo, Emails, Settling
<1>2. Live = Waiting
  BY <1>1 DEF Live
<1>3. \A route : On(route) = By(route)
  BY <1>2 DEF On, By
<1>4. \A items : Listed(items) = items
  BY <1>1 DEF Listed
<1>5. Due(at) = {i \in By("digest") : Since(i) <= LastDigestTime(Local(at))}
  BY <1>3 DEF Due, Since
<1>6. rule["season"].on /\ rule["season"].email /\ user.verified
  BY DEF Settling, Lists
<1>7. Day(Local(at)) \in Windows
  <2>1. Local(at) = at + user.zone /\ user.zone \in Zones
    BY Locals
  <2> QED  BY <2>1 DEF Steady
<1>8. DigestAhead(at) <=> Clock(Local(at)) < DigestAt
  BY <1>6, <1>7 DEF DigestAhead
<1>9. DigestAhead(at) <=> Local(at) < Morning(Local(at)) + DigestAt
  <2>1. /\ Local(at) \in Nat /\ Morning(Local(at)) \in Int
        /\ Clock(Local(at)) = Local(at) - Morning(Local(at))
    BY Locals, Mornings
  <2> QED  BY <1>8, <2>1, SteadyFacts
<1>10. Dropped = {}
  BY <1>2 DEF Dropped
<1> QED  BY <1>3, <1>4, <1>5, <1>9, <1>10

-----------------------------------------------------------------------------

\* What a decision by a clock chooses.
LEMMA Choices ==
    ASSUME Steady, TypeOK, Settling, NEW at \in Ticks, NEW local, local = Local(at)
    PROVE  /\ Digest(at) \subseteq By("digest")
           /\ Digest(at) # {} => /\ ~IsQuiet(local) /\ lastDigest < LastDigestTime(local)
                                 /\ emailed[Day(local)] < EmailsPerDay
           /\ ~IsQuiet(local) /\ lastDigest < LastDigestTime(local)
              /\ emailed[Day(local)] < EmailsPerDay
                => \A i \in By("digest") : Since(i) <= LastDigestTime(local) => i \in Digest(at)
           /\ Digest(at) # {} => \A i \in By("digest") : i \in Digest(at) <=> Since(i) <= LastDigestTime(local)
           /\ Spent(at) = emailed[Day(local)] + (IF Digest(at) = {} THEN 0 ELSE 1)
           /\ BatchDue(at) <=>
                ~IsQuiet(local) /\ \E i \in By("instant") : Since(i) + BatchWindow <= local
           /\ HasRoom(at) <=>
                Spent(at) + (IF local < Morning(local) + DigestAt THEN 1 ELSE 0) < EmailsPerDay
           /\ Batch(at) = IF BatchDue(at) /\ HasRoom(at) THEN By("instant") ELSE {}
           /\ Overflow(at) = IF BatchDue(at) /\ ~HasRoom(at) THEN By("instant") ELSE {}
<1> DEFINE ready == {i \in By("digest") : Since(i) <= LastDigestTime(local)}
<1>1. /\ Dropped = {} /\ \A route : On(route) = By(route)
      /\ \A items : Listed(items) = items
      /\ Due(at) = ready
      /\ DigestAhead(at) <=> local < Morning(local) + DigestAt
  BY Going
<1>2. /\ lastDigest \in Int /\ LastDigestTime(local) \in Int
      /\ emailed[Day(local)] \in Int /\ EmailsPerDay \in Int /\ local \in Nat
  <2>1. local \in Nat /\ lastDigest \in Int /\ emailed[Day(local)] \in Int
    BY Locals
  <2> QED  BY <2>1, HoursApart, SteadyFacts
<1> HIDE DEF ready
<1>3. Digest(at) = IF \/ IsQuiet(local) \/ lastDigest >= LastDigestTime(local)
                      \/ ready # {} /\ emailed[Day(local)] >= EmailsPerDay
                   THEN {} ELSE ready
  BY <1>1 DEF Digest
<1>4. /\ Digest(at) # {} => /\ ~IsQuiet(local) /\ lastDigest < LastDigestTime(local)
                            /\ emailed[Day(local)] < EmailsPerDay /\ Digest(at) = ready
      /\ ~IsQuiet(local) /\ lastDigest < LastDigestTime(local) /\ emailed[Day(local)] < EmailsPerDay
            => Digest(at) = ready
      /\ Digest(at) \subseteq ready
  BY <1>2, <1>3
<1>5. Spent(at) = emailed[Day(local)] + (IF Digest(at) = {} THEN 0 ELSE 1)
  BY <1>1 DEF Spent
<1>6. BatchDue(at) <=> ~IsQuiet(local) /\ \E i \in By("instant") : Since(i) + BatchWindow <= local
  <2>1. \A i \in By("instant") : outbox[i].queued + BatchWindow <= at <=> Since(i) + BatchWindow <= local
    <3> TAKE i \in By("instant")
    <3>1. i \in Waiting
      BY DEF By
    <3>2. /\ outbox[i].queued \in Nat /\ Since(i) = outbox[i].queued + user.zone
          /\ local = at + user.zone /\ user.zone \in Int /\ at \in Nat /\ BatchWindow \in Int
      BY <3>1, WaitingFacts, Locals, SteadyFacts
    <3> QED  BY <3>2
  <2> QED  BY <1>1, <2>1 DEF BatchDue
<1>7. HasRoom(at) <=>
        Spent(at) + (IF local < Morning(local) + DigestAt THEN 1 ELSE 0) < EmailsPerDay
  BY <1>1 DEF HasRoom
<1>8. /\ Batch(at) = IF BatchDue(at) /\ HasRoom(at) THEN By("instant") ELSE {}
      /\ Overflow(at) = IF BatchDue(at) /\ ~HasRoom(at) THEN By("instant") ELSE {}
  BY <1>1 DEF Batch, Overflow
<1> QED  BY <1>4, <1>5, <1>6, <1>7, <1>8 DEF ready

\* What the decision then does.
LEMMA Decided ==
    ASSUME Steady, TypeOK, Settling, NEW s \in Senders, Decide(s),
           NEW at, at = sender[s].now, NEW local, local = Local(at)
    PROVE  /\ at \in Ticks /\ at <= now /\ UNCHANGED <<now, user, rule>>
           /\ \A t \in Senders : sender'[t].now = sender[t].now
           /\ Waiting' = Waiting \ (Digest(at) \cup Batch(at))
           /\ \A i \in Waiting' : /\ outbox'[i].queued = outbox[i].queued
                                  /\ outbox'[i].route = IF i \in Overflow(at) THEN "digest"
                                                        ELSE outbox[i].route
           /\ emailed' = [emailed EXCEPT ![Day(local)] =
                            Spent(at) + (IF Batch(at) = {} THEN 0 ELSE 1)]
           /\ lastDigest' = IF Digest(at) = {} \/ lastDigest > local THEN lastDigest ELSE local
<1>1. at \in Ticks /\ at <= now /\ sender \in [Senders -> Runs]
  <2>1. sender \in [Senders -> Runs]
    BY DEF TypeOK
  <2> QED  BY <2>1 DEF Runs, Settling
<1>2. /\ Dropped = {} /\ \A items : Listed(items) = items
  BY <1>1, Going
<1>3. UNCHANGED <<now, user, rule>> /\ outbox' = [i \in Items |-> Settled(i, at)]
  BY DEF Decide
<1>4. \A t \in Senders : sender'[t].now = sender[t].now
  BY <1>1 DEF Decide
<1>5. emailed' = [emailed EXCEPT ![Day(local)] = Spent(at) + (IF Batch(at) = {} THEN 0 ELSE 1)]
  <2>1. emailed' = [emailed EXCEPT ![Day(local)] = @
            + (IF Listed(Digest(at)) = {} THEN 0 ELSE 1) + (IF Batch(at) = {} THEN 0 ELSE 1)]
    BY DEF Decide
  <2>2. Spent(at) = emailed[Day(local)] + (IF Listed(Digest(at)) = {} THEN 0 ELSE 1)
    BY DEF Spent
  <2> QED  BY <2>1, <2>2
<1>6. lastDigest' = IF Digest(at) = {} \/ lastDigest > local THEN lastDigest ELSE local
  BY DEF Decide
<1>7. \A i \in Items :
        /\ i \in Digest(at) \cup Batch(at) => outbox'[i].settled # 0
        /\ i \notin Digest(at) \cup Batch(at) =>
            /\ outbox'[i].settled = outbox[i].settled /\ outbox'[i].queued = outbox[i].queued
            /\ outbox'[i].route = IF i \in Overflow(at) THEN "digest" ELSE outbox[i].route
            /\ Queued(i)' <=> Queued(i)
  <2> TAKE i \in Items
  <2>1. outbox'[i] = Settled(i, at) /\ outbox[i] \in Rows /\ i \notin Dropped
    BY <1>2, <1>3, TypeFacts
  <2>2. CASE i \in Digest(at) \cup Batch(at)
    <3>1. outbox'[i] = [outbox[i] EXCEPT !.settled = now, !.delivered = TRUE]
      BY <2>1, <2>2, DecidedRow
    <3>2. outbox'[i].settled = now
      BY <2>1, <3>1 DEF Rows
    <3> QED  BY <2>2, <3>2, TypeFacts
  <2>3. CASE i \notin Digest(at) \cup Batch(at) /\ i \in Overflow(at)
    <3>1. outbox'[i] = [outbox[i] EXCEPT !.route = "digest"]
      BY <2>1, <2>3 DEF Settled
    <3>2. i \in Waiting
      BY <2>3 DEF Overflow, On, Live
    <3>3. Queued(i) /\ outbox'[i].route = "digest"
      BY <2>1, <3>1, <3>2 DEF Waiting, Rows
    <3>4. outbox'[i] # NoRow
      BY <3>3 DEF NoRow
    <3>5. outbox'[i].settled = outbox[i].settled /\ outbox'[i].queued = outbox[i].queued
      BY <2>1, <3>1 DEF Rows
    <3>6. Queued(i)'
      BY <3>4 DEF Queued
    <3> QED  BY <2>3, <3>3, <3>5, <3>6
  <2>4. CASE i \notin Digest(at) \cup Batch(at) /\ i \notin Overflow(at)
    <3>1. outbox'[i] = outbox[i]
      BY <2>1, <2>4 DEF Settled
    <3> QED  BY <2>4, <3>1 DEF Queued
  <2> QED  BY <2>2, <2>3, <2>4
<1>8. Waiting' = Waiting \ (Digest(at) \cup Batch(at))
  BY <1>7 DEF Waiting
<1>9. Waiting' \subseteq Items
  BY <1>8 DEF Waiting
<1> QED  BY <1>1, <1>3, <1>4, <1>5, <1>6, <1>7, <1>8, <1>9

-----------------------------------------------------------------------------

\* A decision's day is today or over, and what it leaves waiting was left out of
\* the digest or of no batch.
LEMMA DecidedDay ==
    ASSUME Steady, TypeOK, Settling, NEW s \in Senders, Decide(s),
           NEW at, at = sender[s].now, NEW local, local = Local(at)
    PROVE  /\ local \in Nat /\ local <= Local(now) /\ Local(now) \in Nat
           /\ Local(now)' = Local(now) /\ Tonight' = Tonight /\ Tonight \in Int
           /\ Tonight = Morning(Local(now)) + DigestAt
           /\ \A t : IsQuiet(t)' <=> IsQuiet(t)
           /\ Today \in Int /\ Today >= 0
           /\ \/ Morning(local) = Morning(Local(now)) /\ emailed[Day(local)] = Today
                    /\ Today' = Spent(at) + (IF Batch(at) = {} THEN 0 ELSE 1)
              \/ Morning(local) + SlotsPerDay <= Morning(Local(now)) /\ Today' = Today
           /\ Digest(at) = {} /\ Batch(at) = {} => Today' = Today
           /\ lastDigest <= lastDigest' /\ lastDigest' <= Local(now)
           /\ lastDigest \in Int /\ lastDigest' \in Int
           /\ lastDigest' = lastDigest \/ (lastDigest' = local /\ Digest(at) # {})
           /\ Digest(at) # {} => lastDigest' >= local
           /\ \A i \in Waiting' : i \in Waiting /\ Since(i)' = Since(i)
           /\ \A i \in By("instant")' : i \in By("instant") /\ ~BatchDue(at)
           /\ \A i \in By("digest")' : \/ i \in By("digest") /\ i \notin Digest(at)
                                       \/ i \in By("instant") /\ i \in Overflow(at)
<1> DEFINE n == Local(now)
<1>1. /\ at \in Ticks /\ at <= now /\ UNCHANGED <<now, user, rule>>
      /\ Waiting' = Waiting \ (Digest(at) \cup Batch(at))
      /\ \A i \in Waiting' : /\ outbox'[i].queued = outbox[i].queued
                             /\ outbox'[i].route = IF i \in Overflow(at) THEN "digest"
                                                   ELSE outbox[i].route
      /\ emailed' = [emailed EXCEPT ![Day(local)] = Spent(at) + (IF Batch(at) = {} THEN 0 ELSE 1)]
      /\ lastDigest' = IF Digest(at) = {} \/ lastDigest > local THEN lastDigest ELSE local
  BY Decided
<1>2. /\ user.zone \in Int /\ now \in Ticks /\ now \in Nat /\ n \in Nat /\ n = now + user.zone
      /\ local \in Nat /\ local = at + user.zone /\ at \in Nat
      /\ lastDigest \in Int /\ emailed \in [Days -> Nat] /\ Today \in Int /\ Today >= 0
      /\ Day(local) \in Days
  BY <1>1, Locals
<1>3. local <= n
  BY <1>1, <1>2
<1>4. n' = n /\ Morning(n)' = Morning(n) /\ \A t : IsQuiet(t)' <=> IsQuiet(t)
  BY <1>1 DEF Local, IsQuiet
<1>5. Tonight' = Tonight /\ Tonight = Morning(n) + DigestAt
  BY <1>4 DEF Tonight
<1>6. /\ Spent(at) = emailed[Day(local)] + (IF Digest(at) = {} THEN 0 ELSE 1)
      /\ Digest(at) \subseteq By("digest")
      /\ Batch(at) = IF BatchDue(at) /\ HasRoom(at) THEN By("instant") ELSE {}
      /\ Overflow(at) = IF BatchDue(at) /\ ~HasRoom(at) THEN By("instant") ELSE {}
  BY <1>1, Choices
<1> HIDE DEF n
<1>7. /\ Morning(local) \in Int /\ Morning(n) \in Int /\ local < Morning(local) + SlotsPerDay
      /\ Morning(local) <= local /\ Morning(n) <= n
      /\ \/ Day(local) = Day(n) /\ Morning(local) = Morning(n)
         \/ Day(local) # Day(n) /\ Morning(local) + SlotsPerDay <= Morning(n)
         \/ Day(local) # Day(n) /\ Morning(n) + SlotsPerDay <= Morning(local)
      /\ n < Morning(n) + SlotsPerDay
  BY <1>2, Mornings
<1>8. \/ Day(local) = Day(n) /\ Morning(local) = Morning(n)
      \/ Day(local) # Day(n) /\ Morning(local) + SlotsPerDay <= Morning(n)
  BY <1>2, <1>3, <1>7, SteadyFacts
<1>9. Today = emailed[Day(n)] /\ Today' = emailed'[Day(n)]
  BY <1>4 DEF Today, n
<1>10. \/ Morning(local) = Morning(n) /\ emailed[Day(local)] = Today
             /\ Today' = Spent(at) + (IF Batch(at) = {} THEN 0 ELSE 1)
       \/ Morning(local) + SlotsPerDay <= Morning(n) /\ Today' = Today
  <2>1. CASE Day(local) = Day(n) /\ Morning(local) = Morning(n)
    BY <1>1, <1>2, <1>9, <2>1
  <2>2. CASE Day(local) # Day(n) /\ Morning(local) + SlotsPerDay <= Morning(n)
    <3>1. emailed'[Day(n)] = emailed[Day(n)]
      <4>1. Day(n) \in Days
        BY <1>2, Locals DEF n
      <4> QED  BY <1>1, <1>2, <2>2, <4>1
    <3> QED  BY <1>9, <2>2, <3>1
  <2> QED  BY <1>8, <2>1, <2>2
<1>11. Digest(at) = {} /\ Batch(at) = {} => Today' = Today
  <2>1. Digest(at) = {} => Spent(at) = emailed[Day(local)] + 0
    BY <1>6
  <2>2. emailed[Day(local)] \in Nat
    BY <1>2
  <2> QED  BY <1>2, <1>10, <2>1, <2>2
<1>12. \A i \in Waiting' : i \in Waiting /\ Since(i)' = Since(i)
  BY <1>1 DEF Since, Local
<1>13. \A i \in By("instant")' : i \in By("instant") /\ ~BatchDue(at)
  <2> SUFFICES ASSUME NEW i \in By("instant")' PROVE i \in By("instant") /\ ~BatchDue(at)
    OBVIOUS
  <2>1. i \in Waiting' /\ outbox'[i].route = "instant"
    BY DEF By
  <2>2. i \notin Overflow(at) /\ i \notin Batch(at) /\ i \in Waiting
    BY <1>1, <2>1
  <2>3. i \in By("instant")
    BY <1>1, <2>1, <2>2 DEF By
  <2> QED  BY <1>6, <2>2, <2>3
<1>14. \A i \in By("digest")' : \/ i \in By("digest") /\ i \notin Digest(at)
                                \/ i \in By("instant") /\ i \in Overflow(at)
  <2> SUFFICES ASSUME NEW i \in By("digest")'
               PROVE  \/ i \in By("digest") /\ i \notin Digest(at)
                      \/ i \in By("instant") /\ i \in Overflow(at)
    OBVIOUS
  <2>1. i \in Waiting' /\ outbox'[i].route = "digest"
    BY DEF By
  <2>2. i \notin Digest(at) /\ i \in Waiting
    BY <1>1, <2>1
  <2>3. CASE i \in Overflow(at)
    BY <1>6, <2>3
  <2>4. CASE i \notin Overflow(at)
    BY <1>1, <2>1, <2>2, <2>4 DEF By
  <2> QED  BY <2>3, <2>4
<1>15. /\ lastDigest <= lastDigest' /\ lastDigest' <= n /\ lastDigest' \in Int
       /\ lastDigest' = lastDigest \/ (lastDigest' = local /\ Digest(at) # {})
       /\ Digest(at) # {} => lastDigest' >= local
  <2>1. lastDigest <= n
    BY DEF Settling, n
  <2> QED  BY <1>1, <1>2, <1>3, <2>1
<1>16. Tonight \in Int
  BY <1>5, <1>7, ClockAssumption
<1> QED  BY <1>2, <1>3, <1>4, <1>5, <1>10, <1>11, <1>12, <1>13, <1>14, <1>15, <1>16 DEF n

LEMMA DecideSettling ==
    ASSUME Steady, TypeOK, Settling, NEW s \in Senders, Decide(s)
    PROVE  Settling'
<1> DEFINE at == sender[s].now
<1> DEFINE local == Local(at)
<1>1. /\ UNCHANGED <<now, user, rule>>
      /\ \A t \in Senders : sender'[t].now = sender[t].now
      /\ Waiting' = Waiting \ (Digest(at) \cup Batch(at))
      /\ \A i \in Waiting' : /\ outbox'[i].queued = outbox[i].queued
                             /\ outbox'[i].route = IF i \in Overflow(at) THEN "digest"
                                                   ELSE outbox[i].route
  BY Decided
<1>2. lastDigest' <= Local(now)
  BY DecidedDay
<1> HIDE DEF at, local
<1>3. \A i \in Waiting' :
        /\ outbox'[i].queued \in Ticks /\ outbox'[i].queued <= now
        /\ outbox'[i].route = IF i \in Season THEN "digest" ELSE outbox'[i].route
        /\ outbox'[i].route \in {"instant", "digest"}
  BY <1>1 DEF Settling
<1>4. Local(now)' = Local(now)
  BY <1>1 DEF Local
<1> QED  BY <1>1, <1>2, <1>3, <1>4 DEF Settling

LEMMA DecideLoud ==
    ASSUME Steady, TypeOK, Settling, Loud, NEW s \in Senders, Decide(s)
    PROVE  Loud'
<1> DEFINE at == sender[s].now
<1> DEFINE local == Local(at)
<1>1. /\ at \in Ticks /\ UNCHANGED <<now, user, rule>>
      /\ emailed' = [emailed EXCEPT ![Day(local)] = Spent(at) + (IF Batch(at) = {} THEN 0 ELSE 1)]
  BY Decided
<1>2. /\ local \in LocalTimes /\ emailed \in [Days -> Nat]
  BY <1>1, Locals
<1>3. local <= Local(now) /\ Local(now)' = Local(now) /\ \A t : IsQuiet(t)' <=> IsQuiet(t)
  BY DecidedDay
<1>4. IsQuiet(local) => emailed' = emailed
  <2> SUFFICES ASSUME IsQuiet(local) PROVE emailed' = emailed
    OBVIOUS
  <2>1. /\ Digest(at) = {} /\ Batch(at) = {}
        /\ Spent(at) = emailed[Day(local)] + (IF Digest(at) = {} THEN 0 ELSE 1)
    BY <1>1, Choices
  <2>2. Day(local) \in Days
    BY <1>1, Locals
  <2>3. Spent(at) + (IF Batch(at) = {} THEN 0 ELSE 1) = emailed[Day(local)]
    BY <1>2, <2>1, <2>2
  <2> QED  BY <1>1, <1>2, <2>3
<1> HIDE DEF at, local
<1>5. ASSUME NEW d \in Days, emailed'[d] # 0
      PROVE  \E t \in LocalTimes : t <= Local(now)' /\ Day(t) = d /\ ~IsQuiet(t)'
  <2>1. CASE d = Day(local) /\ ~IsQuiet(local)
    BY <1>2, <1>3, <2>1
  <2>2. CASE ~(d = Day(local) /\ ~IsQuiet(local))
    <3>1. emailed'[d] = emailed[d]
      BY <1>1, <1>2, <1>4, <2>2
    <3> QED  BY <1>3, <1>5, <3>1 DEF Loud
  <2> QED  BY <2>1, <2>2
<1> QED  BY <1>5 DEF Loud

\* What a batch waited through was quiet: a decision by an earlier clock in a
\* loud tick is of before it was queued.
LEMMA DecideBatch ==
    ASSUME Steady, TypeOK, Settling, BatchWaits, NEW s \in Senders, Decide(s)
    PROVE  BatchWaits'
<1> DEFINE at == sender[s].now
<1> DEFINE local == Local(at)
<1> DEFINE n == Local(now)
<1>1. /\ local \in Nat /\ local <= n /\ n \in Nat /\ n' = n /\ Morning(n)' = Morning(n)
      /\ \A t : IsQuiet(t)' <=> IsQuiet(t)
      /\ \/ Morning(local) = Morning(n)
         \/ Morning(local) + SlotsPerDay <= Morning(n) /\ Today' = Today
      /\ Digest(at) = {} /\ Batch(at) = {} => Today' = Today
      /\ lastDigest' = lastDigest \/ (lastDigest' = local /\ Digest(at) # {})
      /\ \A i \in Waiting' : i \in Waiting /\ Since(i)' = Since(i)
      /\ \A i \in By("instant")' : i \in By("instant") /\ ~BatchDue(at)
  BY DecidedDay
<1>2. /\ Digest(at) # {} => ~IsQuiet(local)
      /\ Batch(at) # {} => BatchDue(at)
      /\ BatchDue(at) <=> ~IsQuiet(local) /\ \E i \in By("instant") : Since(i) + BatchWindow <= local
  <2>1. at \in Ticks
    BY Decided
  <2> QED  BY <2>1, Choices
<1>3. Morning(local) \in Int /\ Morning(local) <= local /\ Morning(n) \in Int
  BY <1>1, Mornings
<1> HIDE DEF at, local, n
<1>4. ASSUME NEW i \in By("instant")'
      PROVE  /\ \A t \in Since(i)' + 1 .. n' - 1 : IsQuiet(t)'
             /\ lastDigest' <= Since(i)' + 1
             /\ Since(i)' + 2 <= n' /\ Since(i)' < Morning(n)' => Today' = 0
  <2>1. i \in By("instant") /\ ~BatchDue(at) /\ i \in Waiting' /\ i \in Waiting
    BY <1>1 DEF By
  <2>2. Since(i)' = Since(i) /\ Since(i) \in Nat
    BY <1>1, <2>1, WaitingFacts
  <2>3. /\ \A t \in Since(i) + 1 .. n - 1 : IsQuiet(t)
        /\ lastDigest <= Since(i) + 1
        /\ Since(i) + 2 <= n /\ Since(i) < Morning(n) => Today = 0
    BY <2>1 DEF BatchWaits, n
  <2>4. ~IsQuiet(local) => local <= Since(i) \/ (local = n /\ n < Since(i) + BatchWindow)
    <3> SUFFICES ASSUME ~IsQuiet(local)
                 PROVE  local <= Since(i) \/ (local = n /\ n < Since(i) + BatchWindow)
      OBVIOUS
    <3>1. local \notin Since(i) + 1 .. n - 1
      BY <2>3
    <3>2. ~(Since(i) + BatchWindow <= local)
      BY <1>2, <2>1
    <3> QED  BY <1>1, <2>2, <3>1, <3>2, SteadyFacts
  <2>5. lastDigest' <= Since(i) + 1
    BY <1>1, <1>2, <2>2, <2>3, <2>4, SteadyFacts
  <2>6. Today' = Today \/ ~IsQuiet(local)
    BY <1>1, <1>2
  <2>7. Since(i) + 2 <= n /\ Since(i) < Morning(n) => Today' = 0
    BY <1>1, <1>3, <2>2, <2>3, <2>4, <2>6, SteadyFacts
  <2> QED  BY <1>1, <2>2, <2>3, <2>5, <2>7
<1> QED  BY <1>4 DEF BatchWaits, n

\* What a decision of today sends, by tonight's hour.
LEMMA SentToday ==
    ASSUME Steady, TypeOK, Settling, NEW s \in Senders, Decide(s),
           NEW at, at = sender[s].now, NEW local, local = Local(at),
           Morning(local) = Morning(Local(now))
    PROVE  /\ Today' = Today + (IF Digest(at) = {} THEN 0 ELSE 1)
                             + (IF Batch(at) = {} THEN 0 ELSE 1)
           /\ LastDigestTime(local) = IF local < Tonight THEN Tonight - SlotsPerDay ELSE Tonight
           /\ Tonight <= local + DigestAt /\ local < Tonight + SlotsPerDay - DigestAt
           /\ Digest(at) # {} => /\ ~IsQuiet(local) /\ lastDigest < LastDigestTime(local)
                                 /\ Today < EmailsPerDay
                                 /\ \E i \in By("digest") : Since(i) <= LastDigestTime(local)
           /\ ~IsQuiet(local) /\ lastDigest < LastDigestTime(local) /\ Today < EmailsPerDay
                => \A i \in By("digest") : Since(i) <= LastDigestTime(local) => i \in Digest(at)
           /\ Batch(at) # {} =>
                /\ ~IsQuiet(local) /\ Overflow(at) = {} /\ Batch(at) = By("instant")
                /\ Today + (IF Digest(at) = {} THEN 0 ELSE 1)
                         + (IF local < Tonight THEN 1 ELSE 0) < EmailsPerDay
           /\ Overflow(at) # {} =>
                /\ ~IsQuiet(local) /\ Batch(at) = {}
                /\ Today + (IF Digest(at) = {} THEN 0 ELSE 1)
                         + (IF local < Tonight THEN 1 ELSE 0) >= EmailsPerDay
<1>1. at \in Ticks
  BY Decided
<1>2. /\ local \in Nat /\ Tonight \in Int /\ Tonight = Morning(local) + DigestAt
      /\ Today \in Int /\ Today >= 0 /\ lastDigest \in Int
      /\ \/ emailed[Day(local)] = Today /\ Today' = Spent(at) + (IF Batch(at) = {} THEN 0 ELSE 1)
         \/ Morning(local) + SlotsPerDay <= Morning(Local(now))
  BY DecidedDay
<1>3. /\ Morning(local) \in Int /\ Morning(local) <= local /\ local < Morning(local) + SlotsPerDay
  BY <1>2, Mornings
<1>4. emailed[Day(local)] = Today /\ Today' = Spent(at) + (IF Batch(at) = {} THEN 0 ELSE 1)
  BY <1>2, <1>3, SteadyFacts
<1>5. LastDigestTime(local) = IF local < Tonight THEN Tonight - SlotsPerDay ELSE Tonight
  <2>1. LastDigestTime(local) = IF local < Morning(local) + DigestAt
                                THEN Morning(local) + DigestAt - SlotsPerDay
                                ELSE Morning(local) + DigestAt
    BY <1>2, HoursApart
  <2> QED  BY <1>2, <1>3, <2>1, SteadyFacts
<1>6. /\ Digest(at) \subseteq By("digest")
      /\ Digest(at) # {} => /\ ~IsQuiet(local) /\ lastDigest < LastDigestTime(local)
                            /\ Today < EmailsPerDay
                            /\ \A i \in By("digest") :
                                 i \in Digest(at) <=> Since(i) <= LastDigestTime(local)
      /\ ~IsQuiet(local) /\ lastDigest < LastDigestTime(local) /\ Today < EmailsPerDay
           => \A i \in By("digest") : Since(i) <= LastDigestTime(local) => i \in Digest(at)
      /\ Spent(at) = Today + (IF Digest(at) = {} THEN 0 ELSE 1)
      /\ BatchDue(at) => ~IsQuiet(local)
      /\ HasRoom(at) <=> Spent(at) + (IF local < Tonight THEN 1 ELSE 0) < EmailsPerDay
      /\ Batch(at) = IF BatchDue(at) /\ HasRoom(at) THEN By("instant") ELSE {}
      /\ Overflow(at) = IF BatchDue(at) /\ ~HasRoom(at) THEN By("instant") ELSE {}
  <2>1. local < Morning(local) + DigestAt <=> local < Tonight
    BY <1>2
  <2> QED  BY <1>1, <1>4, <2>1, Choices
<1>7. Spent(at) \in Int
  BY <1>2, <1>6
<1>8. Today' = Today + (IF Digest(at) = {} THEN 0 ELSE 1) + (IF Batch(at) = {} THEN 0 ELSE 1)
  BY <1>4, <1>6
<1>9. Tonight <= local + DigestAt /\ local < Tonight + SlotsPerDay - DigestAt
  BY <1>2, <1>3, SteadyFacts
<1>10. Digest(at) # {} => \E i \in By("digest") : Since(i) <= LastDigestTime(local)
  BY <1>6
<1>11. Batch(at) # {} =>
         /\ ~IsQuiet(local) /\ Overflow(at) = {} /\ Batch(at) = By("instant")
         /\ Today + (IF Digest(at) = {} THEN 0 ELSE 1)
                  + (IF local < Tonight THEN 1 ELSE 0) < EmailsPerDay
  BY <1>6
<1>12. Overflow(at) # {} =>
         /\ ~IsQuiet(local) /\ Batch(at) = {}
         /\ Today + (IF Digest(at) = {} THEN 0 ELSE 1)
                  + (IF local < Tonight THEN 1 ELSE 0) >= EmailsPerDay
  BY <1>2, <1>6, <1>7, SteadyFacts
<1> QED  BY <1>5, <1>6, <1>8, <1>9, <1>10, <1>11, <1>12

\* Before its hour today's digest keeps its email: a batch leaves it one, and the
\* digest of the evening before, sent late, is the day's first.
LEMMA DecideBefore ==
    ASSUME Steady, TypeOK, Settling, RoomBefore, RoomLate, NEW s \in Senders, Decide(s),
           NEW at, at = sender[s].now, NEW local, local = Local(at),
           Morning(local) = Morning(Local(now)), local < Tonight, Today < EmailsPerDay
    PROVE  Today' < EmailsPerDay
<1>1. /\ Today' = Today + (IF Digest(at) = {} THEN 0 ELSE 1)
                        + (IF Batch(at) = {} THEN 0 ELSE 1)
      /\ LastDigestTime(local) = Tonight - SlotsPerDay
      /\ Digest(at) # {} => /\ lastDigest < LastDigestTime(local)
                            /\ \E i \in By("digest") : Since(i) <= LastDigestTime(local)
      /\ Batch(at) # {} =>
           Today + (IF Digest(at) = {} THEN 0 ELSE 1) + 1 < EmailsPerDay
  BY SentToday
<1>2. Today \in Int /\ Today >= 0 /\ Tonight \in Int /\ lastDigest \in Int
  BY DecidedDay
<1>3. Digest(at) # {} => Today = 0
  <2> SUFFICES ASSUME Digest(at) # {} PROVE Today = 0
    OBVIOUS
  <2>1. PICK i \in By("digest") : Since(i) <= Tonight - SlotsPerDay
    BY <1>1
  <2>2. i \in Waiting
    BY DEF By
  <2>3. Since(i) \in Nat
    BY <2>2, WaitingFacts
  <2>4. Since(i) + SlotsPerDay <= Tonight /\ lastDigest + SlotsPerDay < Tonight
    BY <1>1, <1>2, <2>1, <2>3, SteadyFacts
  <2> QED  BY <2>2, <2>4 DEF RoomLate
<1> QED  BY <1>1, <1>2, <1>3, SteadyFacts

\* A decision leaves today's digest its room.  A batch put off, whose digest was
\* that of an evening before, was queued before today, and found no email of it.
LEMMA DecideRoom ==
    ASSUME Steady, TypeOK, Settling, BatchWaits, DigestTaken, RoomBefore, RoomAfter, RoomAt,
           RoomLate, NEW s \in Senders, Decide(s)
    PROVE  RoomBefore' /\ RoomAfter' /\ RoomAt' /\ RoomLate'
<1> DEFINE at == sender[s].now
<1> DEFINE local == Local(at)
<1> DEFINE n == Local(now)
<1> DEFINE same == Morning(local) = Morning(n)
<1>1. /\ local \in Nat /\ n \in Nat /\ local <= n /\ n' = n
      /\ Tonight' = Tonight /\ Tonight \in Int /\ Tonight = Morning(n) + DigestAt
      /\ Today \in Int /\ Today >= 0
      /\ same \/ Today' = Today
      /\ Digest(at) = {} /\ Batch(at) = {} => Today' = Today
      /\ lastDigest <= lastDigest' /\ lastDigest \in Int /\ lastDigest' \in Int
      /\ Digest(at) # {} => lastDigest' >= local
      /\ \A i \in Waiting' : i \in Waiting /\ Since(i)' = Since(i)
      /\ \A i \in By("instant")' : i \in By("instant") /\ ~BatchDue(at)
      /\ \A i \in By("digest")' : \/ i \in By("digest") /\ i \notin Digest(at)
                                  \/ i \in By("instant") /\ i \in Overflow(at)
  BY DecidedDay
<1>2. Morning(n) \in Int /\ Morning(n) <= n /\ n < Morning(n) + SlotsPerDay
  BY <1>1, Mornings
<1>3. same =>
        /\ Today' = Today + (IF Digest(at) = {} THEN 0 ELSE 1) + (IF Batch(at) = {} THEN 0 ELSE 1)
        /\ LastDigestTime(local) = IF local < Tonight THEN Tonight - SlotsPerDay ELSE Tonight
        /\ Tonight <= local + DigestAt
        /\ Digest(at) # {} => ~IsQuiet(local)
        /\ ~IsQuiet(local) /\ lastDigest < LastDigestTime(local) /\ Today < EmailsPerDay
             => \A i \in By("digest") : Since(i) <= LastDigestTime(local) => i \in Digest(at)
        /\ Batch(at) # {} => ~IsQuiet(local) /\ Overflow(at) = {}
        /\ Overflow(at) # {} => Batch(at) = {}
  BY SentToday
<1>4. same /\ local < Tonight /\ Today < EmailsPerDay => Today' < EmailsPerDay
  BY DecideBefore
<1>5. /\ BatchDue(at) <=> ~IsQuiet(local) /\ \E i \in By("instant") : Since(i) + BatchWindow <= local
      /\ Batch(at) # {} => BatchDue(at)
  <2>1. at \in Ticks
    BY Decided
  <2> QED  BY <2>1, Choices
<1>6. \A i \in Waiting : Since(i) \in Nat
  BY WaitingFacts
<1>7. \A i \in Waiting' : i \in By("instant")' \/ i \in By("digest")'
  <2>1. Settling'
    BY DecideSettling
  <2> QED  BY <2>1 DEF Settling, By
<1>8. By("instant") \subseteq Waiting /\ By("digest") \subseteq Waiting
      /\ By("instant")' \subseteq Waiting' /\ By("digest")' \subseteq Waiting'
  BY DEF By
<1> HIDE DEF at, local
<1>9. RoomBefore'
  <2>1. n < Tonight => Today < EmailsPerDay
    BY DEF RoomBefore, n
  <2> HIDE DEF n
  <2>2. n < Tonight => Today' < EmailsPerDay
    BY <1>1, <1>4, <2>1
  <2> QED  BY <1>1, <2>2 DEF RoomBefore, n
<1>10. ASSUME NEW i \in By("digest")', Since(i)' + SlotsPerDay <= Tonight
       PROVE  Today' < EmailsPerDay
  <2>1. i \in Waiting /\ Since(i)' = Since(i) /\ Since(i) \in Nat
    BY <1>1, <1>6, <1>8
  <2>2. CASE i \in By("instant") /\ i \in Overflow(at)
    <3>1. Since(i) + 2 <= n /\ Since(i) < Morning(n)
      BY <1>1, <1>2, <1>10, <2>1, SteadyFacts
    <3>2. Today = 0
      BY <2>2, <3>1 DEF BatchWaits, n
    <3> HIDE DEF n
    <3> QED  BY <1>1, <1>3, <2>2, <3>2, SteadyFacts
  <2>3. CASE i \in By("digest") /\ i \notin Digest(at)
    <3>1. Today < EmailsPerDay
      BY <1>10, <2>1, <2>3 DEF RoomAfter
    <3>2. CASE ~same \/ local < Tonight
      BY <1>1, <1>4, <3>1, <3>2
    <3>3. CASE same /\ local >= Tonight
      <4>1. lastDigest < DigestHour(Since(i)) + SlotsPerDay
        BY <2>3 DEF DigestTaken
      <4>2. /\ DigestHour(Since(i)) \in Int /\ DigestHour(Since(i)) < Since(i) + SlotsPerDay
            /\ Apart(DigestHour(Since(i)), Tonight)
        BY <1>1, <2>1, HoursApart
      <4>3. lastDigest < Tonight
        BY <1>1, <1>10, <2>1, <4>1, <4>2, SteadyFacts DEF Apart
      <4> HIDE DEF n
      <4>4. LastDigestTime(local) = Tonight /\ Since(i) <= Tonight
        BY <1>1, <1>3, <1>10, <2>1, <3>3, SteadyFacts
      <4>5. IsQuiet(local)
        BY <1>3, <2>3, <3>1, <3>3, <4>3, <4>4
      <4>6. Today' = Today
        BY <1>1, <1>3, <3>3, <4>5
      <4> QED  BY <3>1, <4>6
    <3> QED  BY <1>1, <3>2, <3>3
  <2> QED  BY <1>1, <2>2, <2>3
<1>11. ASSUME NEW i \in Waiting', Since(i)' + 2 <= Tonight, Tonight <= n, lastDigest' < Tonight
       PROVE  Today' < EmailsPerDay
  <2>1. i \in Waiting /\ Since(i)' = Since(i) /\ Since(i) \in Nat
    BY <1>1, <1>6
  <2>2. lastDigest < Tonight
    BY <1>1, <1>11
  <2>3. Today < EmailsPerDay
    BY <1>11, <2>1, <2>2 DEF RoomAt, n
  <2> HIDE DEF n
  <2>4. CASE ~same \/ local < Tonight \/ IsQuiet(local)
    BY <1>1, <1>3, <1>4, <2>3, <2>4
  <2>5. CASE same /\ local >= Tonight /\ ~IsQuiet(local)
    <3>1. Digest(at) = {} /\ LastDigestTime(local) = Tonight /\ Since(i) <= Tonight
      BY <1>1, <1>3, <1>11, <2>1, <2>5
    <3>2. i \notin By("digest")
      BY <1>3, <2>2, <2>3, <2>5, <3>1
    <3>3. i \notin By("instant")'
      <4>1. i \in By("instant") => BatchDue(at)
        BY <1>1, <1>5, <1>11, <2>1, <2>5, SteadyFacts
      <4> QED  BY <1>1, <4>1
    <3>4. Batch(at) = {}
      BY <1>1, <1>3, <1>7, <2>5, <3>2, <3>3
    <3> QED  BY <1>1, <2>3, <3>1, <3>4
  <2> QED  BY <1>1, <2>4, <2>5
<1>12. ASSUME NEW i \in Waiting', Since(i)' + SlotsPerDay <= Tonight,
              lastDigest' + SlotsPerDay < Tonight
       PROVE  Today' = 0
  <2>1. i \in Waiting /\ Since(i)' = Since(i) /\ Since(i) \in Nat
    BY <1>1, <1>6
  <2>2. lastDigest + SlotsPerDay < Tonight
    BY <1>1, <1>12, SteadyFacts
  <2>3. Today = 0
    BY <1>12, <2>1, <2>2 DEF RoomLate
  <2> HIDE DEF n
  <2>4. CASE ~same \/ (Batch(at) = {} /\ Digest(at) = {})
    BY <1>1, <2>3, <2>4
  <2>5. CASE same /\ Digest(at) # {}
    BY <1>1, <1>3, <1>12, <2>5, SteadyFacts
  <2>6. CASE same /\ Batch(at) # {} /\ Digest(at) = {}
    <3>1. i \in By("digest") /\ ~IsQuiet(local)
      BY <1>1, <1>3, <1>5, <1>7, <2>6
    <3>2. lastDigest < LastDigestTime(local) /\ Since(i) <= LastDigestTime(local)
      BY <1>1, <1>3, <1>12, <2>1, <2>2, <2>6, SteadyFacts
    <3> QED  BY <1>3, <2>3, <2>6, <3>1, <3>2, SteadyFacts
  <2> QED  BY <2>4, <2>5, <2>6
<1>13. Tonight' = Tonight /\ Local(now)' = Local(now)
  BY <1>1
<1>14. RoomAfter'
  BY <1>10, <1>13 DEF RoomAfter
<1>15. RoomAt'
  BY <1>11, <1>13 DEF RoomAt
<1>16. RoomLate'
  BY <1>12, <1>13 DEF RoomLate
<1> QED  BY <1>9, <1>14, <1>15, <1>16

\* A digest takes what waited at its hour; a batch put off into it was queued
\* within the day, for hours that are quiet for a whole day are quiet always.
LEMMA DecideTaken ==
    ASSUME Steady, TypeOK, Settling, BatchWaits, DigestTaken, NEW s \in Senders, Decide(s)
    PROVE  DigestTaken'
<1> DEFINE at == sender[s].now
<1> DEFINE local == Local(at)
<1> DEFINE n == Local(now)
<1>1. /\ local \in Nat /\ n \in Nat /\ local <= n
      /\ Tonight \in Int /\ Tonight = Morning(n) + DigestAt
      /\ Today \in Int /\ Today >= 0
      /\ lastDigest \in Int /\ lastDigest' \in Int
      /\ lastDigest' = lastDigest \/ (lastDigest' = local /\ Digest(at) # {})
      /\ \A i \in Waiting' : i \in Waiting /\ Since(i)' = Since(i)
      /\ \A i \in By("digest")' : \/ i \in By("digest") /\ i \notin Digest(at)
                                  \/ i \in By("instant") /\ i \in Overflow(at)
  BY DecidedDay
<1>2. at \in Ticks
  BY Decided
<1>3. Digest(at) # {} =>
        /\ ~IsQuiet(local)
        /\ \A i \in By("digest") : i \in Digest(at) <=> Since(i) <= LastDigestTime(local)
  BY <1>2, Choices
<1>4. By("instant") \subseteq Waiting /\ By("digest")' \subseteq Waiting'
  BY DEF By
<1>5. ASSUME NEW i \in By("digest")'
      PROVE  lastDigest' < DigestHour(Since(i)) + SlotsPerDay
  <2> DEFINE q == Since(i)
  <2>1. i \in Waiting /\ q \in Nat
    BY <1>1, <1>4, WaitingFacts
  <2>2. /\ DigestHour(q) \in Int /\ q <= DigestHour(q) /\ DigestHour(q) < q + SlotsPerDay
        /\ LastDigestTime(local) \in Int /\ LastDigestTime(n) \in Int
        /\ Apart(DigestHour(q), LastDigestTime(local)) /\ Apart(DigestHour(q), LastDigestTime(n))
    BY <1>1, <2>1, HoursApart
  <2>3. CASE lastDigest' = lastDigest
    <3>1. CASE i \in By("digest")
      BY <2>3, <3>1 DEF DigestTaken
    <3>2. CASE i \in By("instant")
      <4>1. lastDigest <= q + 1
        BY <3>2 DEF BatchWaits
      <4> HIDE DEF q
      <4> QED  BY <1>1, <2>1, <2>2, <2>3, <4>1, SteadyFacts DEF q
    <3> QED  BY <1>1, <3>1, <3>2
  <2>4. CASE lastDigest' = local /\ Digest(at) # {} /\ i \in By("digest") /\ i \notin Digest(at)
    <3>1. ~(q <= LastDigestTime(local))
      BY <1>3, <2>4
    <3>2. Morning(local) \in Int /\ local < Morning(local) + SlotsPerDay
      BY <1>1, Mornings
    <3>3. LastDigestTime(local) = IF local < Morning(local) + DigestAt
                                  THEN Morning(local) + DigestAt - SlotsPerDay
                                  ELSE Morning(local) + DigestAt
      BY <1>1, HoursApart
    <3>4. local < LastDigestTime(local) + SlotsPerDay
      BY <1>1, <3>2, <3>3, SteadyFacts
    <3> HIDE DEF q, local
    <3> QED  BY <1>1, <2>1, <2>2, <2>4, <3>1, <3>4, SteadyFacts DEF Apart, q
  <2>5. CASE lastDigest' = local /\ Digest(at) # {} /\ i \in By("instant") /\ i \in Overflow(at)
    <3>1. ~IsQuiet(local)
      BY <1>3, <2>5
    <3>2. /\ \A t \in q + 1 .. n - 1 : IsQuiet(t)
          /\ q + 2 <= n /\ q < Morning(n) => Today = 0
      BY <2>5 DEF BatchWaits
    <3>3. CASE local # n
      <4> HIDE DEF q, local, n
      <4>1. local <= q
        BY <1>1, <2>1, <3>1, <3>2, <3>3
      <4> QED  BY <1>1, <2>1, <2>2, <2>5, <4>1, SteadyFacts DEF q
    <3>4. CASE local = n
      <4>1. /\ Overflow(at) # {} =>
                 Today + (IF Digest(at) = {} THEN 0 ELSE 1)
                       + (IF local < Tonight THEN 1 ELSE 0) >= EmailsPerDay
            /\ LastDigestTime(local) = IF local < Tonight THEN Tonight - SlotsPerDay ELSE Tonight
        BY <3>4, SentToday
      <4>2. Morning(n) \in Int /\ Morning(n) <= n /\ n < Morning(n) + SlotsPerDay
        BY <1>1, Mornings
      <4>3. n - SlotsPerDay <= q
        <5>1. n - SlotsPerDay \in Nat => ~IsQuiet(n - SlotsPerDay)
          BY <1>1, <3>1, <3>4, SameHour
        <5> HIDE DEF q, local, n
        <5> QED  BY <1>1, <2>1, <3>2, <5>1, SteadyFacts
      <4> HIDE DEF q, local, n
      <4>4. CASE n < DigestHour(q) + SlotsPerDay
        BY <2>5, <3>4, <4>4 DEF q
      <4>5. CASE n = DigestHour(q) + SlotsPerDay
        <5>1. n = Tonight /\ q + SlotsPerDay = n
          BY <1>1, <2>1, <2>2, <3>4, <4>1, <4>2, <4>3, <4>5, SteadyFacts DEF Apart
        <5>2. Today = 0
          BY <1>1, <2>1, <3>2, <4>2, <5>1, SteadyFacts
        <5> QED  BY <1>1, <2>5, <3>4, <4>1, <5>1, <5>2, SteadyFacts
      <4> QED  BY <1>1, <2>1, <2>2, <4>3, <4>4, <4>5, SteadyFacts
    <3> QED  BY <3>3, <3>4
  <2> QED  BY <1>1, <2>3, <2>4, <2>5
<1>6. \A i \in By("digest")' : Since(i)' = Since(i)
  BY <1>1, <1>4
<1> QED  BY <1>5, <1>6 DEF DigestTaken

LEMMA DecideWait ==
    ASSUME Steady, TypeOK, WaitInv, NoLongWait, NEW s \in Senders, Decide(s)
    PROVE  WaitInv' /\ NoLongWait'
<1>1. WaitInv'
  BY DecideSettling, DecideLoud, DecideBatch, DecideTaken, DecideRoom DEF WaitInv
<1>2. /\ Local(now)' = Local(now) /\ \A t : IsQuiet(t)' <=> IsQuiet(t)
      /\ lastDigest <= lastDigest' /\ lastDigest \in Int /\ lastDigest' \in Int
      /\ \A i \in Waiting' : i \in Waiting /\ Since(i)' = Since(i)
  BY DecidedDay DEF WaitInv
<1>3. ASSUME NEW i \in Waiting'
      PROVE  /\ \A t \in DigestHour(Since(i)) + SlotsPerDay .. Local(now)' - 1 : IsQuiet(t)'
             /\ outbox'[i].route = "digest" /\ i \in Season
                  /\ lastDigest' < DigestHour(Since(i) + 2)
                  => \A t \in DigestHour(Since(i) + 2) .. Local(now)' - 1 : IsQuiet(t)'
  <2> DEFINE evening == DigestHour(Since(i) + 2)
  <2>1. i \in Waiting
    BY <1>2
  <2>2. /\ QuietSince(DigestHour(Since(i)) + SlotsPerDay)
        /\ outbox[i].route = "digest" /\ i \in Season /\ lastDigest < evening => QuietSince(evening)
    BY <2>1 DEF NoLongWait, Since
  <2>3. /\ i \in Season => outbox[i].route = "digest"
        /\ Since(i) \in Nat
    BY <2>1, WaitingFacts DEF WaitInv
  <2>4. evening \in Int
    <3>1. Since(i) + 2 \in Nat
      BY <2>3
    <3> QED  BY <3>1, HoursApart
  <2>5. lastDigest' < evening => lastDigest < evening
    BY <1>2, <2>4
  <2> QED  BY <1>2, <2>2, <2>3, <2>5 DEF QuietSince
<1>4. \A i \in Waiting' : Since(i)' = Since(i)
  BY <1>2
<1> QED  BY <1>1, <1>3, <1>4 DEF NoLongWait, QuietSince, Since

\* The steps that decide nothing leave what waits as it was, and add what was
\* queued in this tick or the one before.
LEMMA StillWait ==
    ASSUME Steady, TypeOK, WaitInv, NoLongWait,
           UNCHANGED <<now, user, rule, emailed, lastDigest>>,
           \A s \in Senders : sender'[s].now <= now,
           \A i \in Waiting' :
              \/ i \in Waiting /\ outbox'[i] = outbox[i]
              \/ /\ outbox'[i].queued \in Ticks \cap {now, now - 1}
                 /\ outbox'[i].route = IF i \in Season THEN "digest" ELSE "instant"
    PROVE  WaitInv' /\ NoLongWait'
<1> DEFINE n == Local(now)
<1>1. /\ n' = n /\ Tonight' = Tonight /\ Today' = Today /\ Morning(n)' = Morning(n)
      /\ \A t : IsQuiet(t)' <=> IsQuiet(t)
  BY DEF Local, Tonight, Today, Morning, Day, IsQuiet
<1>2. /\ n \in Nat /\ now \in Nat /\ user.zone \in Int /\ n = now + user.zone /\ lastDigest \in Int
      /\ now \in Ticks
  BY Locals
<1>3. /\ Morning(n) \in Int /\ Morning(n) <= n /\ n < Morning(n) + SlotsPerDay
      /\ Tonight = Morning(n) + DigestAt
  BY <1>2, Mornings DEF Tonight
<1>4. lastDigest <= n
  BY DEF WaitInv, Settling
<1>5. Settling'
  <2>1. \A i \in Waiting' :
          /\ outbox'[i].queued \in Ticks /\ outbox'[i].queued <= now
          /\ outbox'[i].route = IF i \in Season THEN "digest" ELSE outbox'[i].route
          /\ outbox'[i].route \in {"instant", "digest"}
    <3> TAKE i \in Waiting'
    <3>1. CASE i \in Waiting /\ outbox'[i] = outbox[i]
      BY <3>1 DEF WaitInv, Settling
    <3>2. CASE /\ outbox'[i].queued \in Ticks \cap {now, now - 1}
               /\ outbox'[i].route = IF i \in Season THEN "digest" ELSE "instant"
      BY <1>2, <3>2
    <3> QED  BY <3>1, <3>2
  <2> QED  BY <1>1, <1>4, <2>1 DEF WaitInv, Settling
<1>6. Loud'
  BY <1>1 DEF WaitInv, Loud
<1>7. \A i \in Waiting' :
        \/ i \in Waiting /\ outbox'[i] = outbox[i] /\ Since(i)' = Since(i)
        \/ Since(i)' \in Nat /\ Since(i)' >= n - 1
  <2> TAKE i \in Waiting'
  <2>1. Since(i)' = outbox'[i].queued + user.zone
    BY DEF Since, Local
  <2>2. CASE i \in Waiting /\ outbox'[i] = outbox[i]
    BY <2>2 DEF Since, Local
  <2>3. CASE outbox'[i].queued \in Ticks \cap {now, now - 1}
    <3>1. outbox'[i].queued + user.zone \in Nat
      BY <2>3, Locals
    <3> QED  BY <1>2, <2>1, <2>3, <3>1
  <2> QED  BY <2>2, <2>3
<1>8. \A route : By(route)' \subseteq Waiting'
  BY DEF By
<1> HIDE DEF n
<1>9. \A i \in Waiting' : Since(i)' >= n - 1 /\ Since(i)' \in Nat =>
         /\ ~(Since(i)' + 2 <= n) /\ ~(Since(i)' + SlotsPerDay <= Tonight)
         /\ lastDigest <= Since(i)' + 1 /\ \A t \in Since(i)' + 1 .. n - 1 : FALSE
         /\ ~(Since(i)' + 2 <= Tonight /\ Tonight <= n)
         /\ lastDigest < DigestHour(Since(i)') + SlotsPerDay
         /\ \A t \in DigestHour(Since(i)') + SlotsPerDay .. n - 1 : FALSE
         /\ \A t \in DigestHour(Since(i)' + 2) .. n - 1 : FALSE
  <2> SUFFICES ASSUME NEW q \in Nat, q >= n - 1
               PROVE  /\ ~(q + 2 <= n) /\ ~(q + SlotsPerDay <= Tonight)
                      /\ lastDigest <= q + 1 /\ \A t \in q + 1 .. n - 1 : FALSE
                      /\ ~(q + 2 <= Tonight /\ Tonight <= n)
                      /\ lastDigest < DigestHour(q) + SlotsPerDay
                      /\ \A t \in DigestHour(q) + SlotsPerDay .. n - 1 : FALSE
                      /\ \A t \in DigestHour(q + 2) .. n - 1 : FALSE
    OBVIOUS
  <2>1. /\ DigestHour(q) \in Int /\ q <= DigestHour(q)
        /\ DigestHour(q + 2) \in Int /\ q + 2 <= DigestHour(q + 2)
    <3>1. q + 2 \in Nat
      OBVIOUS
    <3> QED  BY <3>1, HoursApart
  <2> QED  BY <1>2, <1>3, <1>4, <2>1, SteadyFacts
<1>10. BatchWaits'
  <2>1. \A i \in By("instant") : /\ \A t \in Since(i) + 1 .. n - 1 : IsQuiet(t)
                                 /\ lastDigest <= Since(i) + 1
                                 /\ Since(i) + 2 <= n /\ Since(i) < Morning(n) => Today = 0
    BY DEF WaitInv, BatchWaits, n
  <2>2. \A i \in By("instant")' : /\ \A t \in Since(i)' + 1 .. n' - 1 : IsQuiet(t)'
                                  /\ lastDigest' <= Since(i)' + 1
                                  /\ Since(i)' + 2 <= n' /\ Since(i)' < Morning(n)' => Today' = 0
    BY <1>1, <1>7, <1>8, <1>9, <2>1 DEF By
  <2> QED  BY <2>2 DEF BatchWaits, n
<1>11. DigestTaken'
  <2>1. \A i \in By("digest") : lastDigest < DigestHour(Since(i)) + SlotsPerDay
    BY DEF WaitInv, DigestTaken
  <2>2. \A i \in By("digest")' : lastDigest' < DigestHour(Since(i)') + SlotsPerDay
    BY <1>7, <1>8, <1>9, <2>1 DEF By
  <2> QED  BY <2>2 DEF DigestTaken
<1>12. RoomBefore'
  BY <1>1 DEF WaitInv, RoomBefore, n
<1>13. RoomAfter'
  <2>1. \A i \in By("digest") : Since(i) + SlotsPerDay <= Tonight => Today < EmailsPerDay
    BY DEF WaitInv, RoomAfter
  <2>2. \A i \in By("digest")' : Since(i)' + SlotsPerDay <= Tonight => Today < EmailsPerDay
    BY <1>7, <1>8, <1>9, <2>1 DEF By
  <2> QED  BY <1>1, <2>2 DEF RoomAfter
<1>14. RoomAt' /\ RoomLate'
  <2>1. \A i \in Waiting :
          /\ Since(i) + 2 <= Tonight /\ Tonight <= n /\ lastDigest < Tonight => Today < EmailsPerDay
          /\ Since(i) + SlotsPerDay <= Tonight /\ lastDigest + SlotsPerDay < Tonight => Today = 0
    BY DEF WaitInv, RoomAt, RoomLate, n
  <2>2. \A i \in Waiting' :
          /\ Since(i)' + 2 <= Tonight /\ Tonight <= n /\ lastDigest < Tonight => Today < EmailsPerDay
          /\ Since(i)' + SlotsPerDay <= Tonight /\ lastDigest + SlotsPerDay < Tonight => Today = 0
    BY <1>7, <1>9, <2>1
  <2> QED  BY <1>1, <2>2 DEF RoomAt, RoomLate, n
<1>15. NoLongWait'
  <2>1. \A i \in Waiting :
          /\ \A t \in DigestHour(Since(i)) + SlotsPerDay .. n - 1 : IsQuiet(t)
          /\ outbox[i].route = "digest" /\ i \in Season /\ lastDigest < DigestHour(Since(i) + 2)
               => \A t \in DigestHour(Since(i) + 2) .. n - 1 : IsQuiet(t)
    BY DEF NoLongWait, QuietSince, Since, n
  <2>2. \A i \in Waiting' :
          /\ \A t \in DigestHour(Since(i)') + SlotsPerDay .. n - 1 : IsQuiet(t)'
          /\ outbox'[i].route = "digest" /\ i \in Season /\ lastDigest' < DigestHour(Since(i)' + 2)
               => \A t \in DigestHour(Since(i)' + 2) .. n - 1 : IsQuiet(t)'
    BY <1>1, <1>7, <1>9, <2>1
  <2> QED  BY <1>1, <2>2 DEF NoLongWait, QuietSince, Since, n
<1> QED  BY <1>5, <1>6, <1>10, <1>11, <1>12, <1>13, <1>14, <1>15 DEF WaitInv

\* Time goes on when the hours are quiet or nothing is due: an email of the day
\* is then missing to what waits, or its digest has gone.
LEMMA TickWait ==
    ASSUME Steady, TypeOK, WaitInv, NoLongWait, Tick
    PROVE  WaitInv' /\ NoLongWait'
<1> DEFINE n == Local(now)
<1>1. /\ now < LastTick /\ now' = now + 1 /\ NothingToDecide(now)
      /\ UNCHANGED <<user, rule, outbox, emailed, lastDigest, sender>>
  BY DEF Tick, Steady
<1>2. /\ n \in Nat /\ now \in Nat /\ now \in Ticks /\ user.zone \in Int /\ n = now + user.zone
      /\ lastDigest \in Int /\ Today \in Int /\ Today >= 0
      /\ now + 1 \in Ticks /\ Day(Local(now + 1)) \in Days /\ Local(now + 1) = n + 1
  <2>1. now + 1 \in Ticks
    <3>1. now \in Ticks
      BY Locals
    <3> QED  BY <1>1, <3>1, ClockAssumption DEF Ticks, Start
  <2>2. /\ n \in Nat /\ now \in Nat /\ now \in Ticks /\ user.zone \in Int /\ n = now + user.zone
        /\ lastDigest \in Int /\ Today \in Int /\ Today >= 0
    BY Locals
  <2>3. Day(Local(now + 1)) \in Days /\ Local(now + 1) = now + 1 + user.zone
    BY <2>1, Locals
  <2> HIDE DEF n
  <2> QED  BY <2>1, <2>2, <2>3
<1>3. /\ n' = n + 1 /\ \A t : IsQuiet(t)' <=> IsQuiet(t)
      /\ Today' = emailed[Day(n + 1)] /\ Tonight' = Morning(n + 1) + DigestAt
      /\ Waiting' = Waiting /\ \A route : By(route)' = By(route)
      /\ \A i : Since(i)' = Since(i)
  <2>1. n' = n + 1
    BY <1>1, <1>2 DEF Local
  <2>2. Today' = emailed[Day(n + 1)] /\ Tonight' = Morning(n + 1) + DigestAt
    BY <1>1, <2>1 DEF Today, Tonight
  <2>3. Waiting' = Waiting
    BY <1>1 DEF Waiting, Queued
  <2>4. \A i : Since(i)' = Since(i)
    BY <1>1 DEF Since, Local
  <2>5. \A t : IsQuiet(t)' <=> IsQuiet(t)
    BY <1>1 DEF IsQuiet
  <2>6. \A route : By(route)' = By(route)
    BY <1>1, <2>3 DEF By
  <2> QED  BY <2>1, <2>2, <2>3, <2>4, <2>5, <2>6
<1>4. \A i \in Waiting : Since(i) \in Nat /\ Since(i) <= n
  BY WaitingFacts DEF WaitInv
<1>5. \A i \in Waiting : i \in By("instant") \/ i \in By("digest")
  BY DEF WaitInv, Settling, By
<1>6. ~IsQuiet(n) => /\ \A i \in By("instant") : Since(i) >= n
                     /\ \A i \in By("digest") : Since(i) <= LastDigestTime(n) =>
                          lastDigest >= LastDigestTime(n) \/ Today >= EmailsPerDay
  <2> SUFFICES ASSUME ~IsQuiet(n)
               PROVE  /\ \A i \in By("instant") : Since(i) >= n
                      /\ \A i \in By("digest") : Since(i) <= LastDigestTime(n) =>
                           lastDigest >= LastDigestTime(n) \/ Today >= EmailsPerDay
    OBVIOUS
  <2>1. /\ BatchDue(now) <=> \E i \in By("instant") : Since(i) + BatchWindow <= n
        /\ lastDigest < LastDigestTime(n) /\ emailed[Day(n)] < EmailsPerDay
             => \A i \in By("digest") : Since(i) <= LastDigestTime(n) => i \in Digest(now)
    BY <1>2, Choices DEF WaitInv
  <2>2. ~BatchDue(now) /\ Digest(now) = {} /\ Today = emailed[Day(n)]
    BY <1>1 DEF NothingToDecide, Today
  <2>3. LastDigestTime(n) \in Int
    BY <1>2, HoursApart
  <2>4. By("instant") \subseteq Waiting
    BY DEF By
  <2> HIDE DEF n
  <2> QED  BY <1>2, <1>4, <2>1, <2>2, <2>3, <2>4, SteadyFacts
<1>7. /\ Morning(n) \in Int /\ Morning(n) <= n /\ n < Morning(n) + SlotsPerDay
      /\ Morning(n + 1) \in Int
      /\ Tonight = Morning(n) + DigestAt /\ Today = emailed[Day(n)]
      /\ \/ Day(n + 1) = Day(n) /\ Morning(n + 1) = Morning(n)
         \/ Day(n + 1) # Day(n) /\ Morning(n + 1) = n + 1
  <2>1. n + 1 \in Nat
    BY <1>2
  <2>2. /\ Morning(n + 1) \in Int /\ Morning(n + 1) <= n + 1
        /\ n + 1 < Morning(n + 1) + SlotsPerDay
        /\ \/ Day(n + 1) = Day(n) /\ Morning(n + 1) = Morning(n)
           \/ Day(n + 1) # Day(n) /\ Morning(n + 1) + SlotsPerDay <= Morning(n)
           \/ Day(n + 1) # Day(n) /\ Morning(n) + SlotsPerDay <= Morning(n + 1)
    BY <1>2, <2>1, Mornings
  <2>3. Morning(n) \in Int /\ Morning(n) <= n /\ n < Morning(n) + SlotsPerDay
    BY <1>2, Mornings
  <2>4. Tonight = Morning(n) + DigestAt /\ Today = emailed[Day(n)]
    BY DEF Tonight, Today
  <2> HIDE DEF n
  <2> QED  BY <1>2, <2>2, <2>3, <2>4, SteadyFacts
\* A new day has no email yet, nor one that has been quiet.
<1>8. \/ Morning(n + 1) = Morning(n) /\ Tonight' = Tonight /\ Today' = Today
      \/ Morning(n + 1) = n + 1 /\ Tonight' = n + 1 + DigestAt /\ Today' = 0
  <2>1. CASE Day(n + 1) = Day(n) /\ Morning(n + 1) = Morning(n)
    BY <1>3, <1>7, <2>1
  <2>2. CASE Day(n + 1) # Day(n) /\ Morning(n + 1) = n + 1
    <3>1. ASSUME emailed[Day(n + 1)] # 0 PROVE FALSE
      <4>1. PICK t \in LocalTimes : t <= n /\ Day(t) = Day(n + 1)
        BY <1>2, <3>1 DEF WaitInv, Loud
      <4>2. t \in Nat /\ n + 1 \in Nat
        BY <1>2, ClockAssumption DEF LocalTimes
      <4>3. Morning(t) = Morning(n + 1) /\ Morning(n + 1) = n + 1 /\ Morning(t) <= t
        BY <2>2, <4>1, <4>2, Mornings DEF Morning
      <4> HIDE DEF n
      <4> QED  BY <1>2, <4>1, <4>2, <4>3
    <3> QED  BY <1>3, <2>2, <3>1
  <2> QED  BY <1>7, <2>1, <2>2
<1>9. IsQuiet(n) /\ Morning(n) = n => Today = 0
  <2> SUFFICES ASSUME IsQuiet(n), Morning(n) = n, emailed[Day(n)] # 0 PROVE FALSE
    BY <1>7
  <2>1. Day(n) \in Days
    BY <1>2, Locals
  <2>2. PICK t \in LocalTimes : t <= n /\ Day(t) = Day(n) /\ ~IsQuiet(t)
    BY <2>1 DEF WaitInv, Loud
  <2>3. t \in Nat
    BY ClockAssumption DEF LocalTimes
  <2>4. Morning(t) = Morning(n) /\ Morning(t) <= t
    BY <2>2, <2>3, Mornings DEF Morning
  <2>5. t = n
    <3> HIDE DEF n
    <3> QED  BY <1>2, <2>2, <2>3, <2>4
  <2> QED  BY <2>2, <2>5
<1>10. Settling'
  <2>1. lastDigest <= n /\ \A s \in Senders : sender[s].now <= now
    BY DEF WaitInv, Settling
  <2>2. \A s \in Senders : sender[s].now \in Nat
    BY TypeFacts
  <2>3. lastDigest' <= n' /\ \A s \in Senders : sender'[s].now <= now'
    <3> HIDE DEF n
    <3> QED  BY <1>1, <1>2, <1>3, <2>1, <2>2
  <2>4. \A i \in Waiting : outbox[i].queued \in Nat
    BY WaitingFacts DEF WaitInv
  <2>5. \A i \in Waiting :
          /\ outbox[i].queued \in Ticks /\ outbox[i].queued <= now + 1
          /\ outbox[i].route = IF i \in Season THEN "digest" ELSE outbox[i].route
          /\ outbox[i].route \in {"instant", "digest"}
    BY <1>2, <2>4 DEF WaitInv, Settling
  <2> QED  BY <1>1, <1>3, <2>3, <2>5 DEF WaitInv, Settling
<1>11. Loud'
  <2>1. \A d \in Days : emailed[d] # 0 =>
            \E t \in LocalTimes : t <= n + 1 /\ Day(t) = d /\ ~IsQuiet(t)
    <3>1. LocalTimes \subseteq Nat
      BY ClockAssumption DEF LocalTimes
    <3> QED  BY <1>2, <3>1 DEF WaitInv, Loud
  <2> QED  BY <1>1, <1>3, <2>1 DEF Loud
<1>12. By("instant") \subseteq Waiting /\ By("digest") \subseteq Waiting
  BY DEF By
<1>13. BatchWaits'
  <2>1. ASSUME NEW i \in By("instant")
        PROVE  /\ \A t \in Since(i) + 1 .. n : IsQuiet(t)
               /\ Since(i) + 2 <= n + 1 /\ Since(i) < Morning(n + 1) => Today' = 0
    <3>1. /\ \A t \in Since(i) + 1 .. n - 1 : IsQuiet(t)
          /\ Since(i) + 2 <= n /\ Since(i) < Morning(n) => Today = 0
      BY DEF WaitInv, BatchWaits
    <3>2. Since(i) \in Nat
      BY <1>4, <1>12
    <3> HIDE DEF n
    <3>3. \A t \in Since(i) + 1 .. n : IsQuiet(t)
      BY <1>2, <1>6, <3>1, <3>2
    <3>4. Since(i) < n => IsQuiet(n)
      BY <1>2, <3>2, <3>3
    <3>5. Since(i) + 2 <= n + 1 /\ Since(i) < Morning(n + 1) => Today' = 0
      BY <1>2, <1>7, <1>8, <1>9, <3>1, <3>2, <3>4
    <3> QED  BY <3>3, <3>5
  <2>2. \A i \in By("instant") : lastDigest <= Since(i) + 1
    BY DEF WaitInv, BatchWaits
  <2>3. n' - 1 = n /\ Morning(n)' = Morning(n + 1)
    BY <1>2, <1>3
  <2> QED  BY <1>1, <1>3, <2>1, <2>2, <2>3 DEF BatchWaits
<1>14. DigestTaken'
  BY <1>1, <1>3 DEF WaitInv, DigestTaken
<1>15. RoomBefore' /\ RoomAfter' /\ RoomLate'
  <2>1. /\ n < Tonight => Today < EmailsPerDay
        /\ \A i \in By("digest") : Since(i) + SlotsPerDay <= Tonight => Today < EmailsPerDay
        /\ \A i \in Waiting :
             Since(i) + SlotsPerDay <= Tonight /\ lastDigest + SlotsPerDay < Tonight => Today = 0
    BY DEF WaitInv, RoomBefore, RoomAfter, RoomLate
  <2>2. Tonight \in Int
    BY <1>7, ClockAssumption
  <2> HIDE DEF n
  <2>3. n + 1 < Tonight' => Today' < EmailsPerDay
    BY <1>2, <1>8, <2>1, <2>2, SteadyFacts
  <2>4. \A i \in By("digest") : Since(i) + SlotsPerDay <= Tonight' => Today' < EmailsPerDay
    BY <1>8, <2>1, SteadyFacts
  <2>5. \A i \in Waiting :
             Since(i) + SlotsPerDay <= Tonight' /\ lastDigest + SlotsPerDay < Tonight' => Today' = 0
    BY <1>8, <2>1
  <2> QED  BY <1>1, <1>3, <2>3, <2>4, <2>5 DEF RoomBefore, RoomAfter, RoomLate, n
<1>16. RoomAt'
  <2>1. n < Tonight => Today < EmailsPerDay
    BY DEF WaitInv, RoomBefore
  <2>2. \A i \in Waiting :
          Since(i) + 2 <= Tonight /\ Tonight <= n /\ lastDigest < Tonight => Today < EmailsPerDay
    BY DEF WaitInv, RoomAt
  <2>3. Tonight \in Int
    BY <1>7, ClockAssumption
  <2> HIDE DEF n
  <2>4. \A i \in Waiting :
          Since(i) + 2 <= Tonight' /\ Tonight' <= n + 1 /\ lastDigest < Tonight' => Today' < EmailsPerDay
    BY <1>2, <1>8, <2>1, <2>2, <2>3, SteadyFacts
  <2> QED  BY <1>1, <1>3, <2>4 DEF RoomAt, n
<1>17. ASSUME NEW i \in Waiting, ~IsQuiet(n)
       PROVE  /\ ~(DigestHour(Since(i)) + SlotsPerDay <= n)
              /\ i \in By("digest") /\ lastDigest < DigestHour(Since(i) + 2)
                   => ~(DigestHour(Since(i) + 2) <= n)
  <2> DEFINE q == Since(i)
  <2> DEFINE second == DigestHour(q + 2)
  <2>1. q \in Nat /\ q + 2 \in Nat /\ q <= n
    BY <1>4
  <2>2. /\ DigestHour(q) \in Int /\ q <= DigestHour(q)
        /\ LastDigestTime(n) \in Int
        /\ LastDigestTime(n) = IF n < Morning(n) + DigestAt
                               THEN Morning(n) + DigestAt - SlotsPerDay
                               ELSE Morning(n) + DigestAt
        /\ Apart(DigestHour(q), LastDigestTime(n)) /\ Apart(DigestHour(q), Tonight)
    BY <1>2, <1>7, <2>1, HoursApart
  <2>3. /\ second \in Int /\ q + 2 <= second
        /\ Apart(second, LastDigestTime(n)) /\ Apart(second, Tonight)
    BY <1>2, <1>7, <2>1, HoursApart
  <2>4. i \in By("digest") =>
          /\ lastDigest < DigestHour(q) + SlotsPerDay
          /\ q + SlotsPerDay <= Tonight => Today < EmailsPerDay
          /\ q + 2 <= Tonight /\ Tonight <= n /\ lastDigest < Tonight => Today < EmailsPerDay
    BY DEF WaitInv, DigestTaken, RoomAfter, RoomAt
  <2>5. LastDigestTime(n) <= n /\ n < LastDigestTime(n) + SlotsPerDay
    BY <1>2, <1>7, <2>2, SteadyFacts
  <2>6. /\ i \in By("instant") => q >= n
        /\ i \in By("digest") /\ q <= LastDigestTime(n) =>
             lastDigest >= LastDigestTime(n) \/ Today >= EmailsPerDay
    BY <1>6, <1>17
  <2> HIDE DEF n, q, second
  <2>7. Tonight \in Int
    BY <1>7, SteadyFacts
  <2>8. ~(DigestHour(q) + SlotsPerDay <= n)
    <3> SUFFICES ASSUME DigestHour(q) + SlotsPerDay <= n PROVE FALSE
      OBVIOUS
    <3>1. i \in By("digest")
      BY <1>2, <1>5, <2>1, <2>2, <2>6, SteadyFacts
    <3>2. DigestHour(q) + SlotsPerDay <= LastDigestTime(n)
      BY <1>2, <2>2, <2>5, SteadyFacts DEF Apart
    <3>3. q + SlotsPerDay <= Tonight
      BY <1>2, <1>7, <2>1, <2>2, <2>7, <3>2, SteadyFacts
    <3> QED  BY <1>2, <2>1, <2>2, <2>4, <2>6, <3>1, <3>2, <3>3, SteadyFacts
  <2>9. ASSUME i \in By("digest"), lastDigest < second, second <= n
        PROVE  FALSE
    <3>1. second <= LastDigestTime(n)
      BY <1>2, <2>2, <2>3, <2>5, <2>9, SteadyFacts DEF Apart
    <3>2. q <= LastDigestTime(n) /\ lastDigest < LastDigestTime(n)
      BY <1>2, <2>1, <2>2, <2>3, <2>9, <3>1, SteadyFacts
    <3>3. Today >= EmailsPerDay
      BY <1>2, <2>2, <2>6, <2>9, <3>2
    <3>4. ~(q + SlotsPerDay <= Tonight)
      BY <1>2, <2>4, <2>9, <3>3, SteadyFacts
    <3>5. second = Tonight
      BY <1>2, <1>7, <2>1, <2>3, <2>7, <2>9, <3>4, SteadyFacts DEF Apart
    <3> QED  BY <1>2, <2>1, <2>3, <2>4, <2>9, <3>3, <3>5, SteadyFacts
  <2> QED  BY <2>8, <2>9 DEF n, q, second
<1>18. NoLongWait'
  <2>1. ASSUME NEW i \in Waiting
        PROVE  /\ \A t \in DigestHour(Since(i)) + SlotsPerDay .. n : IsQuiet(t)
               /\ outbox[i].route = "digest" /\ i \in Season /\ lastDigest < DigestHour(Since(i) + 2)
                    => \A t \in DigestHour(Since(i) + 2) .. n : IsQuiet(t)
    <3>1. /\ \A t \in DigestHour(Since(i)) + SlotsPerDay .. n - 1 : IsQuiet(t)
          /\ outbox[i].route = "digest" /\ i \in Season /\ lastDigest < DigestHour(Since(i) + 2)
               => \A t \in DigestHour(Since(i) + 2) .. n - 1 : IsQuiet(t)
      BY DEF NoLongWait, QuietSince, Since
    <3>2. outbox[i].route = "digest" => i \in By("digest")
      BY DEF By
    <3>3. DigestHour(Since(i)) + SlotsPerDay \in Int /\ DigestHour(Since(i) + 2) \in Int
      <4>1. Since(i) \in Nat /\ Since(i) + 2 \in Nat
        BY <1>4
      <4> QED  BY <4>1, HoursApart, SteadyFacts
    <3> HIDE DEF n
    <3>4. \A x \in Int : (~IsQuiet(n) => ~(x <= n)) /\ (\A t \in x .. n - 1 : IsQuiet(t))
              => \A t \in x .. n : IsQuiet(t)
      BY <1>2
    <3> QED  BY <1>17, <3>1, <3>2, <3>3, <3>4
  <2>2. n' - 1 = n
    BY <1>2, <1>3
  <2> HIDE DEF n
  <2>3. \A i \in Waiting' :
          /\ \A t \in DigestHour(Since(i)') + SlotsPerDay .. n' - 1 : IsQuiet(t)'
          /\ outbox'[i].route = "digest" /\ i \in Season /\ lastDigest' < DigestHour(Since(i)' + 2)
               => \A t \in DigestHour(Since(i)' + 2) .. n' - 1 : IsQuiet(t)'
    BY <1>1, <1>3, <2>1, <2>2
  <2> QED  BY <2>3 DEF NoLongWait, QuietSince, Since, n
<1> QED  BY <1>10, <1>11, <1>13, <1>14, <1>15, <1>16, <1>18 DEF WaitInv

LEMMA EmitWait ==
    ASSUME Steady, TypeOK, WaitInv, NoLongWait, Emit
    PROVE  WaitInv' /\ NoLongWait'
<1>1. PICK at \in {now, now - 1} \cap Ticks : \E events \in SUBSET {i \in Items : IsFresh(i, at)} :
        outbox' = [i \in Items |->
                IF i \in ToQueue(events)
                THEN [route |-> IF i \in Season THEN "digest" ELSE "instant",
                      queued |-> at, settled |-> 0, delivered |-> FALSE]
                ELSE outbox[i]]
  BY DEF Emit
<1>2. \A i \in Items : \/ outbox'[i] = outbox[i]
                       \/ /\ outbox'[i].queued = at
                          /\ outbox'[i].route = IF i \in Season THEN "digest" ELSE "instant"
  BY <1>1
<1>3. UNCHANGED <<now, user, rule, emailed, lastDigest, sender>>
  BY DEF Emit
<1>4. \A i \in Waiting' :
         \/ i \in Waiting /\ outbox'[i] = outbox[i]
         \/ /\ outbox'[i].queued \in Ticks \cap {now, now - 1}
            /\ outbox'[i].route = IF i \in Season THEN "digest" ELSE "instant"
  <2> TAKE i \in Waiting'
  <2>1. i \in Items
    BY DEF Waiting
  <2>2. CASE outbox'[i] = outbox[i]
    BY <2>1, <2>2 DEF Waiting, Queued
  <2>3. CASE /\ outbox'[i].queued = at
             /\ outbox'[i].route = IF i \in Season THEN "digest" ELSE "instant"
    BY <1>1, <2>3
  <2> QED  BY <1>2, <2>1, <2>2, <2>3
<1>5. \A s \in Senders : sender'[s].now <= now
  BY <1>3 DEF WaitInv, Settling
<1> QED  BY <1>3, <1>4, <1>5, StillWait

LEMMA ForgetWait ==
    ASSUME Steady, TypeOK, WaitInv, NoLongWait, NEW s \in Senders, Forget(s)
    PROVE  WaitInv' /\ NoLongWait'
<1>1. /\ UNCHANGED <<now, user, rule, emailed, lastDigest>>
      /\ \A i \in Items : outbox'[i] = outbox[i] \/ outbox'[i] = NoRow
      /\ sender' = [sender EXCEPT ![s] = IF @.due = {} THEN Resting ELSE [@ EXCEPT !.phase = "sending"]]
  BY DEF Forget
<1>2. \A i \in Waiting' : i \in Waiting /\ outbox'[i] = outbox[i]
  BY <1>1 DEF Waiting, Queued
<1>3. Start <= now /\ sender \in [Senders -> Runs]
  BY ClockAssumption DEF TypeOK, Ticks, Start
<1>4. \A t \in Senders : sender'[t].now <= now
  <2> TAKE t \in Senders
  <2>1. sender[t].now <= now
    BY DEF WaitInv, Settling
  <2>2. sender'[t].now \in {sender[t].now, Start}
    BY <1>1, <1>3 DEF Resting, Runs
  <2> QED  BY <1>3, <2>1, <2>2
<1> QED  BY <1>1, <1>2, <1>4, StillWait

LEMMA RestWait ==
    ASSUME Steady, TypeOK, WaitInv, NoLongWait, UNCHANGED <<now, user, rule, outbox, emailed, lastDigest>>,
           \A t \in Senders : sender'[t].now \in {sender[t].now, now, Start}
    PROVE  WaitInv' /\ NoLongWait'
<1>1. \A i \in Waiting' : i \in Waiting /\ outbox'[i] = outbox[i]
  BY DEF Waiting, Queued
<1>2. Start <= now /\ now \in Nat
  BY ClockAssumption DEF TypeOK, Ticks, Start
<1>3. \A t \in Senders : sender'[t].now <= now
  BY <1>2 DEF WaitInv, Settling
<1> QED  BY <1>1, <1>3, StillWait

\* No edits of the user's, and so no more of the steps.
LEMMA WaitStep ==
    ASSUME Steady, TypeOK, WaitInv, NoLongWait, [Next]_vars
    PROVE  WaitInv' /\ NoLongWait'
<1>1. ASSUME NEW i \in Items, File(i) \/ Restate(i)
      PROVE  WaitInv' /\ NoLongWait'
  BY <1>1, RestWait DEF File, Restate
<1>2. ASSUME NEW s \in Senders, Begin(s) \/ Skip(s) \/ Send(s) \/ Kill(s)
      PROVE  WaitInv' /\ NoLongWait'
  <2>1. UNCHANGED <<now, user, rule, outbox, emailed, lastDigest>>
    BY <1>2 DEF Begin, Skip, Send, Kill
  <2>2. sender \in [Senders -> Runs]
    BY DEF TypeOK
  <2>3. \A t \in Senders : sender'[t].now \in {sender[t].now, now, Start}
    BY <1>2, <2>2 DEF Begin, Skip, Send, Kill, AfterEmail, Resting, Runs
  <2> QED  BY <2>1, <2>3, RestWait
<1>3. ASSUME NEW s \in Senders, Decide(s) \/ Forget(s)
      PROVE  WaitInv' /\ NoLongWait'
  BY <1>3, DecideWait, ForgetWait
<1>4. ~(\E k \in Lists : DeleteRule(k) \/ MakeRule(k) \/ EditRule(k)) /\ ~EditAccount /\ ~Move
  BY DEF Steady, DeleteRule, MakeRule, EditRule, EditAccount, Move
<1>5. CASE UNCHANGED vars
  BY <1>5, RestWait DEF vars
<1> QED  BY <1>1, <1>2, <1>3, <1>4, <1>5, EmitWait, TickWait DEF Next

\* For a steady user, in a filing window, nothing waits past its second digest
\* but for quiet hours, however long the day, however many the items and whatever
\* the quiet hours: the batches leave the digest its email of the day, and a batch
\* put off into the digest was queued within a day of it.  With one email a day it
\* fails, and with the digest in the day's last tick.
THEOREM ShortWait ==
    ASSUME Steady
    PROVE  Spec => []NoLongWait
<1> DEFINE Inv == TypeOK /\ WaitInv /\ NoLongWait
<1>1. Init => Inv
  <2> SUFFICES ASSUME Init PROVE Inv
    OBVIOUS
  <2>1. TypeOK
    BY InitFacts
  <2>2. Waiting = {} /\ (\A route : By(route) = {}) /\ \A d \in Days : emailed[d] = 0
    BY DEF Init, Waiting, Queued, By
  <2>3. now \in Ticks /\ Start <= now
    BY ClockAssumption DEF Init, Ticks, Start
  <2>4. Local(now) \in Nat /\ Today = 0 /\ lastDigest = 0
    BY <2>1, <2>2, <2>3, Locals DEF Today, Init
  <2>5. Settling
    <3>1. user.verified /\ user.instant /\ ~user.deleted
      BY DEF Init
    <3>2. \A k \in Lists : rule[k].on /\ rule[k].email
      BY DEF Init
    <3>3. \A s \in Senders : sender[s].now <= now
      BY <2>3 DEF Init, Resting
    <3> QED  BY <2>2, <2>4, <3>1, <3>2, <3>3 DEF Settling
  <2>6. RoomBefore
    BY <2>4, SteadyFacts DEF RoomBefore
  <2> QED  BY <2>1, <2>2, <2>5, <2>6
           DEF WaitInv, Loud, BatchWaits, DigestTaken, RoomAfter, RoomAt, RoomLate, NoLongWait
<1>2. Inv /\ [Next]_vars => Inv'
  BY TypeStep, WaitStep
<1>3. Inv => NoLongWait
  OBVIOUS
<1> QED  BY <1>1, <1>2, <1>3, PTL DEF Spec
=============================================================================

----------------------------- MODULE Login_proofs -----------------------------
(***************************************************************************)
(* Proofs about Login, for any addresses, any number of accounts,          *)
(* challenges and concurrent requests.                                     *)
(*                                                                         *)
(* Two facts carry the first part: a challenge keeps its address and stays *)
(* consumed, and a link never moves (Evolves, LinksStand).  What a request *)
(* read once (Knows) therefore still holds when it acts on it, whatever    *)
(* other requests did meanwhile.  The second part counts requests.         *)
(***************************************************************************)
EXTENDS Login, FiniteSetTheorems, SequenceTheorems, TLAPS

\* What a request relies on at each of its steps.
Knows(h) ==
    /\ pc[h] = "idle" => hCaller[h] = NULL /\ hGoal[h] = "login"
    /\ pc[h] # "idle" => hSubject[h] \in Subject
    /\ pc[h] = "create" => hSubject[h] \in Address
    /\ pc[h] \in {"miss", "consume", "grant"} =>
          hCh[h] \in DOMAIN challenge /\ challenge[hCh[h]].addr = hSubject[h]
    /\ pc[h] \in {"consume", "grant"} /\ hGoal[h] = "stepup" =>
          hCaller[h] \in User /\ link[hSubject[h]] = hCaller[h]
    /\ pc[h] = "grant" => hGoal[h] = "stepup" /\ challenge[hCh[h]].consumed
    /\ pc[h] \in {"consume", "resolve"} /\ hGoal[h] = "login" =>
          hSubject[h] \in Phone \/ hCaller[h] = NULL
    /\ pc[h] = "resolve" => hGoal[h] = "login"
    /\ pc[h] = "account" => hCaller[h] = NULL
    /\ pc[h] \in {"link", "issue"} => hUser[h] \in User /\ hCaller[h] \in {NULL, hUser[h]}
    /\ pc[h] = "issue" => link[hSubject[h]] = hUser[h]

IInv ==
    /\ TypeOK
    /\ \A h \in Handler : Knows(h)
    /\ SessionsGoToOwner /\ GrantProvesOwner /\ ExportWasProven

\* A step leaves the request g alone.
Apart(g) ==
    /\ pc'[g] = pc[g] /\ hSubject'[g] = hSubject[g] /\ hCh'[g] = hCh[g]
    /\ hCaller'[g] = hCaller[g] /\ hGoal'[g] = hGoal[g] /\ hUser'[g] = hUser[g]

Frame(h) == \A g \in Handler \ {h} : Apart(g)

\* Challenges are added and never forget an address or a consumption.
Evolves ==
    /\ challenge' \in Seq(Challenge)
    /\ Len(challenge') <= MaxChallenge
    /\ DOMAIN challenge \subseteq DOMAIN challenge'
    /\ \A c \in DOMAIN challenge :
         /\ challenge'[c].addr = challenge[c].addr
         /\ challenge[c].consumed => challenge'[c].consumed

LinksStand == \A s \in Subject : link[s] # NULL => link'[s] = link[s]

-----------------------------------------------------------------------------
\* What the UPDATEs make of a challenge.
LEMMA UpdatedChallenge ==
  ASSUME NEW x \in Challenge
  PROVE  /\ LET e == [x EXCEPT !.attempts = @ + 1]
            IN  e \in Challenge /\ e.addr = x.addr /\ e.consumed = x.consumed
         /\ LET e == [x EXCEPT !.consumed = TRUE]
            IN  e \in Challenge /\ e.addr = x.addr /\ e.consumed
         /\ \A a \in Age : LET e == [x EXCEPT !.age = a]
                         IN  e \in Challenge /\ e.addr = x.addr /\ e.consumed = x.consumed
  <1>1. [x EXCEPT !.attempts = @ + 1] \in Challenge
    BY DEF Challenge
  <1>2. [x EXCEPT !.consumed = TRUE] \in Challenge
    BY DEF Challenge
  <1>3. ASSUME NEW a \in Age PROVE [x EXCEPT !.age = a] \in Challenge
    BY DEF Challenge
  <1> QED
    BY <1>1, <1>2, <1>3 DEF Challenge

\* A challenge that is updated in place stays what it is to everybody else.
LEMMA UpdateEvolves ==
  ASSUME TypeOK, NEW c \in DOMAIN challenge, NEW e \in Challenge,
         challenge' = [challenge EXCEPT ![c] = e],
         e.addr = challenge[c].addr, challenge[c].consumed => e.consumed
  PROVE  Evolves
  <1>1. challenge \in Seq(Challenge) /\ c \in 1..Len(challenge)
    BY DEF TypeOK
  <1>2. challenge' \in Seq(Challenge) /\ Len(challenge') = Len(challenge)
    BY <1>1, ExceptSeq
  <1>3. \A d \in DOMAIN challenge : challenge'[d] = IF d = c THEN e ELSE challenge[d]
    BY <1>1
  <1> QED
    BY <1>1, <1>2, <1>3 DEF Evolves, TypeOK

\* A new challenge changes nothing about the old ones.
LEMMA AppendEvolves ==
  ASSUME TypeOK, NEW e \in Challenge, Len(challenge) < MaxChallenge,
         challenge' = Append(challenge, e)
  PROVE  Evolves
  <1>1. challenge \in Seq(Challenge) /\ Len(challenge) \in Nat
    BY DEF TypeOK
  <1>2. /\ challenge' \in Seq(Challenge) /\ Len(challenge') = Len(challenge) + 1
        /\ \A i \in 1..Len(challenge) : challenge'[i] = challenge[i]
    BY <1>1, AppendProperties
  <1> QED
    BY <1>1, <1>2, BoundAssumption DEF Evolves, TypeOK

\* A step that leaves the challenges alone.
LEMMA SameEvolves == TypeOK /\ UNCHANGED challenge => Evolves
  BY DEF Evolves, TypeOK

\* What a request knows survives every step of the others.
LEMMA KnowledgeLasts ==
  ASSUME TypeOK, Evolves, LinksStand, NEW g \in Handler, Knows(g), Apart(g)
  PROVE  Knows(g)'
  <1> USE NullAssumption, AddressAssumption
  <1>1. \A s \in Subject : link[s] \in User => link'[s] = link[s]
    BY DEF LinksStand
  <1>2. Address \subseteq Subject
    BY DEF Subject
  <1> QED
    BY <1>1, <1>2 DEF Knows, Apart, Evolves, TypeOK, Address, Subject

\* Sessions, grants and exports that are out stay justified.
LEMMA OutcomesLast ==
  ASSUME IInv, Evolves, LinksStand
  PROVE  /\ \A s \in issued : link'[s.subject] = s.user /\ s.caller \in {NULL, s.user}
         /\ \A g \in grants :
              /\ g.ch \in DOMAIN challenge'
              /\ challenge'[g.ch].consumed
              /\ link'[challenge'[g.ch].addr] = g.user
         /\ \A u \in exported :
              \E c \in DOMAIN challenge' :
                 challenge'[c].consumed /\ link'[challenge'[c].addr] = u
  <1> USE NullAssumption
  <1>0. challenge \in Seq(Challenge)
    BY DEF IInv, TypeOK
  <1>1. \A c \in DOMAIN challenge : challenge[c].addr \in Subject
    <2> TAKE c \in DOMAIN challenge
    <2>1. challenge[c] \in Challenge
      BY <1>0
    <2> QED
      BY <2>1 DEF Challenge, Subject
  <1>2. \A s \in Subject : link[s] \in User => link'[s] = link[s]
    BY DEF LinksStand
  <1>3. \A s \in issued : link'[s.subject] = s.user /\ s.caller \in {NULL, s.user}
    BY <1>2 DEF IInv, TypeOK, SessionsGoToOwner
  <1>4. ASSUME NEW g \in grants
        PROVE  /\ g.ch \in DOMAIN challenge'
               /\ challenge'[g.ch].consumed
               /\ link'[challenge'[g.ch].addr] = g.user
    <2>1. g.user \in User
      BY DEF IInv, TypeOK
    <2>2. g.ch \in DOMAIN challenge /\ challenge[g.ch].consumed
          /\ link[challenge[g.ch].addr] = g.user
      BY DEF IInv, GrantProvesOwner
    <2> QED
      BY <1>1, <1>2, <2>1, <2>2 DEF Evolves
  <1>5. ASSUME NEW u \in exported
        PROVE  \E c \in DOMAIN challenge' :
                 challenge'[c].consumed /\ link'[challenge'[c].addr] = u
    <2>1. u \in User
      BY DEF IInv, TypeOK
    <2>2. PICK c \in DOMAIN challenge : challenge[c].consumed /\ link[challenge[c].addr] = u
      BY DEF IInv, ExportWasProven
    <2> QED
      BY <1>1, <1>2, <2>1, <2>2 DEF Evolves
  <1> QED
    BY <1>3, <1>4, <1>5

\* A step of one request, which leaves it with what its next step relies on.
LEMMA RequestsKnow ==
  ASSUME IInv, Evolves, LinksStand, NEW h \in Handler, Frame(h), Knows(h)'
  PROVE  \A g \in Handler : Knows(g)'
  <1>1. ASSUME NEW g \in Handler, g # h PROVE Knows(g)'
    <2>1. Apart(g)
      BY <1>1 DEF Frame
    <2> QED
      BY <2>1, KnowledgeLasts DEF IInv
  <1> QED
    BY <1>1

\* A step that gives nothing out.
LEMMA QuietStep ==
  ASSUME IInv, Evolves, LinksStand, UNCHANGED outVars
  PROVE  SessionsGoToOwner' /\ GrantProvesOwner' /\ ExportWasProven'
  BY OutcomesLast DEF outVars, SessionsGoToOwner, GrantProvesOwner, ExportWasProven

\* The invariant holds before the first request.
LEMMA InitIInv == Init => IInv
  BY NullAssumption, BoundAssumption
  DEF Init, IInv, TypeOK, Knows, SessionsGoToOwner, GrantProvesOwner, ExportWasProven,
      Step, ChId

\* Every step, one case per action of the specification, keeps the invariant.
LEMMA NextIInv == IInv /\ [Next]_vars => IInv'
  <1> SUFFICES ASSUME IInv, [Next]_vars PROVE IInv'
    OBVIOUS
  <1> USE NullAssumption, AddressAssumption, BoundAssumption
  <1>0. /\ TypeOK
        /\ \A h \in Handler : Knows(h)
        /\ challenge \in Seq(Challenge) /\ Len(challenge) \in 0..MaxChallenge
        /\ DOMAIN challenge = 1..Len(challenge)
        /\ \A c \in DOMAIN challenge :
             challenge[c] \in Challenge /\ challenge[c].addr \in Address
    <2>1. TypeOK /\ \A h \in Handler : Knows(h)
      BY DEF IInv
    <2>2. challenge \in Seq(Challenge) /\ Len(challenge) \in 0..MaxChallenge
          /\ DOMAIN challenge = 1..Len(challenge)
      BY <2>1 DEF TypeOK
    <2>3. \A c \in DOMAIN challenge : challenge[c] \in Challenge
      BY <2>2
    <2> QED
      BY <2>1, <2>2, <2>3 DEF Challenge
  <1>1. ASSUME NEW h \in Handler, NEW a \in Address, RequestCode(h, a) PROVE IInv'
    <2>1. Evolves /\ LinksStand
      BY <1>0, <1>1, SameEvolves DEF RequestCode, LinksStand, linkVars
    <2>2. TypeOK' /\ Frame(h) /\ Knows(h)'
      BY <1>0, <1>1 DEF RequestCode, Goto, TypeOK, Step, Frame, Apart, Knows, Subject,
         linkVars, outVars
    <2> QED
      BY <1>1, <2>1, <2>2, RequestsKnow, QuietStep DEF IInv, RequestCode
  <1>2. ASSUME NEW h \in Handler, CreateChallenge(h) PROVE IInv'
    <2> DEFINE e == [addr |-> hSubject[h], attempts |-> 0, consumed |-> FALSE, age |-> "fresh"]
    <2>1. e \in Challenge
      BY <1>0, <1>2 DEF CreateChallenge, Knows, Challenge, Age
    <2>2. Evolves /\ LinksStand
      BY <1>0, <1>2, <2>1, AppendEvolves DEF CreateChallenge, LinksStand, linkVars
    <2>3. TypeOK' /\ Frame(h) /\ Knows(h)'
      BY <1>0, <1>2, <2>2 DEF CreateChallenge, Return, Goto, TypeOK, Step, Frame, Apart,
         Knows, Evolves, linkVars, outVars
    <2> QED
      BY <1>2, <2>2, <2>3, RequestsKnow, QuietStep DEF IInv, CreateChallenge
  <1>3. ASSUME NEW c \in DOMAIN challenge, GrowOld(c) PROVE IInv'
    <2> DEFINE next == IF challenge[c].age = "fresh" THEN "settled" ELSE "expired"
               e == [challenge[c] EXCEPT !.age = next]
    <2>1. e \in Challenge /\ e.addr = challenge[c].addr
          /\ (challenge[c].consumed => e.consumed)
      <3>1. challenge[c] \in Challenge /\ next \in Age
        BY <1>0 DEF Age
      <3> HIDE DEF next
      <3> QED
        BY <3>1, UpdatedChallenge
    <2>2. challenge' = [challenge EXCEPT ![c] = e]
      BY <1>3 DEF GrowOld
    <2> HIDE DEF e
    <2>3. Evolves
      BY <1>0, <2>1, <2>2, UpdateEvolves
    <2>4. LinksStand
      BY <1>3 DEF GrowOld, LinksStand, linkVars
    <2>5. TypeOK' /\ \A g \in Handler : Apart(g)
      BY <1>0, <1>3, <2>3 DEF GrowOld, TypeOK, Apart, Evolves, localVars, linkVars,
         outVars
    <2>6. \A g \in Handler : Knows(g)'
      BY <1>0, <2>3, <2>4, <2>5, KnowledgeLasts
    <2> QED
      BY <1>3, <2>3, <2>4, <2>5, <2>6, QuietStep DEF IInv, GrowOld
  <1>4. ASSUME NEW h \in Handler, NEW a \in Address, NEW goal \in {"login", "stepup"},
               NEW caller \in User \cup {NULL}, NEW right \in BOOLEAN,
               VerifyCode(h, a, goal, caller, right),
               goal = "stepup" => caller \in User /\ link[a] = caller,
               goal = "login" => a \in Phone \/ caller = NULL
        PROVE  IInv'
    <2>1. Evolves /\ LinksStand
      BY <1>0, <1>4, SameEvolves DEF VerifyCode, LinksStand, linkVars
    <2>2. PICK c \in ActiveChallenge(a) :
            hCh' = [hCh EXCEPT ![h] = c]
      BY <1>4 DEF VerifyCode
    <2>3. c \in DOMAIN challenge /\ c \in ChId /\ challenge[c].addr = a
      BY <1>0, <2>2 DEF ActiveChallenge, IsActive, ChId
    <2>4. TypeOK' /\ Frame(h)
      BY <1>0, <1>4, <2>2, <2>3 DEF VerifyCode, Goto, TypeOK, Step, Frame, Apart, Subject,
         linkVars, outVars
    <2>5. Knows(h)'
      BY <1>0, <1>4, <2>2, <2>3 DEF VerifyCode, Goto, TypeOK, Knows, Subject, linkVars
    <2> QED
      BY <1>4, <2>1, <2>4, <2>5, RequestsKnow, QuietStep DEF IInv, VerifyCode
  <1>5. ASSUME NEW h \in Handler, Increment(h) PROVE IInv'
    <2> DEFINE c == hCh[h]
               e == [challenge[c] EXCEPT !.attempts = @ + 1]
    <2>0. c \in DOMAIN challenge
      BY <1>0, <1>5 DEF Increment, Knows
    <2>1. e \in Challenge /\ e.addr = challenge[c].addr
          /\ (challenge[c].consumed => e.consumed)
      <3>1. challenge[c] \in Challenge
        BY <1>0, <2>0
      <3> QED
        BY <3>1, UpdatedChallenge
    <2>2. challenge' = [challenge EXCEPT ![c] = e]
      BY <1>5 DEF Increment
    <2>3. Evolves
      <3> HIDE DEF e, c
      <3> QED BY <1>0, <2>0, <2>1, <2>2, UpdateEvolves
    <2>4. LinksStand
      BY <1>5 DEF Increment, LinksStand, linkVars
    <2>5. TypeOK' /\ Frame(h) /\ Knows(h)'
      <3> HIDE DEF e
      <3> QED
        BY <1>0, <1>5, <2>3 DEF Increment, Return, Goto, TypeOK, Step, Frame, Apart,
           Knows, Evolves, linkVars, outVars
    <2> QED
      BY <1>5, <2>3, <2>4, <2>5, RequestsKnow, QuietStep DEF IInv, Increment
  <1>6. ASSUME NEW h \in Handler, Consume(h) PROVE IInv'
    <2> DEFINE c == hCh[h]
               e == [challenge[c] EXCEPT !.consumed = TRUE]
    <2>0. c \in DOMAIN challenge /\ c \in ChId
      BY <1>0, <1>6 DEF Consume, Knows, ChId
    <2>1. e \in Challenge /\ e.addr = challenge[c].addr /\ e.consumed
      <3>1. challenge[c] \in Challenge
        BY <1>0, <2>0
      <3> QED
        BY <3>1, UpdatedChallenge
    <2>2. challenge' = [challenge EXCEPT ![c] = e]
      BY <1>6 DEF Consume
    <2>3. Evolves /\ challenge'[c].consumed
      <3> HIDE DEF e, c
      <3> QED BY <1>0, <2>0, <2>1, <2>2, UpdateEvolves
    <2>4. LinksStand
      BY <1>6 DEF Consume, LinksStand, linkVars
    <2> HIDE DEF e
    <2>5. TypeOK' /\ Frame(h)
      BY <1>0, <1>6, <2>0, <2>3 DEF Consume, Goto, TypeOK, Step, Frame, Apart,
         Evolves, localVars, linkVars, outVars
    <2>6. Knows(h)'
      BY <1>0, <1>6, <2>0, <2>3 DEF Consume, Goto, TypeOK, Knows, Evolves, localVars,
         linkVars
    <2> QED
      BY <1>6, <2>3, <2>4, <2>5, <2>6, RequestsKnow, QuietStep DEF IInv, Consume
  <1>7. ASSUME NEW h \in Handler, CreateStepUpGrant(h) PROVE IInv'
    <2>1. Evolves /\ LinksStand
      BY <1>0, <1>7, SameEvolves DEF CreateStepUpGrant, LinksStand, linkVars
    <2>2. /\ hCh[h] \in ChId /\ hCh[h] \in DOMAIN challenge /\ hCaller[h] \in User
          /\ challenge[hCh[h]].consumed /\ link[challenge[hCh[h]].addr] = hCaller[h]
      BY <1>0, <1>7 DEF CreateStepUpGrant, Knows, ChId
    <2>3. [user |-> hCaller[h], ch |-> hCh[h], live |-> TRUE]
            \in [user : User, ch : ChId, live : BOOLEAN]
      BY <2>2
    <2>4. TypeOK'
      BY <1>0, <1>7, <2>3 DEF CreateStepUpGrant, Return, Goto, TypeOK, Step, linkVars
    <2>5. Frame(h) /\ Knows(h)'
      BY <1>0, <1>7 DEF CreateStepUpGrant, Return, Goto, TypeOK, Frame, Apart, Knows
    <2>6. SessionsGoToOwner' /\ GrantProvesOwner' /\ ExportWasProven'
      BY <1>7, <2>1, <2>2, OutcomesLast DEF CreateStepUpGrant, SessionsGoToOwner,
         GrantProvesOwner, ExportWasProven, linkVars
    <2> QED
      BY <2>1, <2>4, <2>5, <2>6, RequestsKnow DEF IInv
  <1>8. ASSUME NEW g \in grants, ExpireGrant(g) PROVE IInv'
    <2>1. Evolves /\ LinksStand /\ \A h \in Handler : Apart(h)
      BY <1>0, <1>8, SameEvolves DEF ExpireGrant, LinksStand, linkVars, Apart, localVars
    <2>2. \A h \in Handler : Knows(h)'
      BY <1>0, <2>1, KnowledgeLasts
    <2>3. g \in [user : User, ch : ChId, live : BOOLEAN]
      BY <1>0 DEF TypeOK
    <2>4. TypeOK'
      BY <1>0, <1>8, <2>3 DEF ExpireGrant, TypeOK, linkVars, localVars
    <2>5. SessionsGoToOwner' /\ GrantProvesOwner' /\ ExportWasProven'
      BY <1>8, <2>1, <2>3, OutcomesLast DEF ExpireGrant, SessionsGoToOwner,
         GrantProvesOwner, ExportWasProven, linkVars
    <2> QED
      BY <2>2, <2>4, <2>5 DEF IInv
  <1>9. ASSUME NEW u \in User, DataExport(u) PROVE IInv'
    <2>1. Evolves /\ LinksStand /\ \A h \in Handler : Apart(h)
      BY <1>0, <1>9, SameEvolves DEF DataExport, LinksStand, linkVars, Apart, localVars
    <2>2. \A h \in Handler : Knows(h)'
      BY <1>0, <2>1, KnowledgeLasts
    <2>3. PICK g \in grants : g.user = u
      BY <1>9 DEF DataExport, ValidGrant
    <2>4. TypeOK'
      BY <1>0, <1>9 DEF DataExport, Export, TypeOK, linkVars, localVars
    <2>5. SessionsGoToOwner' /\ GrantProvesOwner'
      BY <1>9, <2>1, OutcomesLast DEF DataExport, SessionsGoToOwner, GrantProvesOwner,
         linkVars
    <2>6. ExportWasProven'
      BY <1>9, <2>1, <2>3, OutcomesLast DEF DataExport, Export, ExportWasProven
    <2> QED
      BY <2>2, <2>4, <2>5, <2>6 DEF IInv
  <1>10. ASSUME NEW h \in Handler, NEW s \in Federated, FederatedCallback(h, s) PROVE IInv'
    <2>1. Evolves /\ LinksStand
      BY <1>0, <1>10, SameEvolves DEF FederatedCallback, LinksStand, linkVars
    <2>2. TypeOK' /\ Frame(h) /\ Knows(h)'
      BY <1>0, <1>10 DEF FederatedCallback, Goto, TypeOK, Step, Frame, Apart, Knows, Subject,
         linkVars, outVars
    <2> QED
      BY <1>10, <2>1, <2>2, RequestsKnow, QuietStep DEF IInv, FederatedCallback
  <1>11. ASSUME NEW h \in Handler, NEW S, Lookup(h, S),
                S \cap Phone = {} \/ ~Conflict(h)
         PROVE  IInv'
    <2>1. Evolves /\ LinksStand
      BY <1>0, <1>11, SameEvolves DEF Lookup, LinksStand, linkVars
    <2>2. hSubject[h] \in Subject /\ link[hSubject[h]] \in User \cup {NULL}
          /\ hCaller[h] \in User \cup {NULL}
      BY <1>0, <1>11 DEF Lookup, Knows, TypeOK
    <2>3. TypeOK' /\ Frame(h)
      BY <1>0, <1>11, <2>2 DEF Lookup, UseLinked, NewOwner, Goto, TypeOK, Step, Frame, Apart,
         linkVars, outVars
    <2>4. Knows(h)'
      <3>1. hSubject[h] \in Phone \/ hCaller[h] = NULL
        BY <1>0, <1>11 DEF Lookup, Knows
      <3>2. CASE link[hSubject[h]] # NULL
        <4>1. hCaller[h] \in {NULL, link[hSubject[h]]}
          BY <1>11, <3>1, <3>2 DEF Lookup, Conflict
        <4> QED
          BY <1>0, <1>11, <2>2, <3>2, <4>1 DEF Lookup, UseLinked, Goto, TypeOK, Knows,
             linkVars
      <3>3. CASE link[hSubject[h]] = NULL
        BY <1>0, <1>11, <2>2, <3>3 DEF Lookup, NewOwner, Goto, TypeOK, Knows, linkVars
      <3> QED
        BY <3>2, <3>3
    <2> QED
      BY <1>11, <2>1, <2>3, <2>4, RequestsKnow, QuietStep DEF IInv, Lookup
  <1>12. ASSUME NEW h \in Handler, PhoneRefused(h) PROVE IInv'
    <2>1. Evolves /\ LinksStand
      BY <1>0, <1>12, SameEvolves DEF PhoneRefused, LinksStand, linkVars
    <2>2. TypeOK' /\ Frame(h) /\ Knows(h)'
      BY <1>0, <1>12 DEF PhoneRefused, Return, Goto, TypeOK, Step, Frame, Apart, Knows,
         linkVars, outVars
    <2> QED
      BY <1>12, <2>1, <2>2, RequestsKnow, QuietStep DEF IInv, PhoneRefused
  <1>13. ASSUME NEW h \in Handler, NEW u \in User, NewPendingUser(h, u) PROVE IInv'
    <2>1. Evolves /\ LinksStand
      BY <1>0, <1>13, SameEvolves DEF NewPendingUser, LinksStand
    <2>2. TypeOK' /\ Frame(h) /\ Knows(h)'
      BY <1>0, <1>13 DEF NewPendingUser, Goto, TypeOK, Step, Frame, Apart, Knows, outVars
    <2> QED
      BY <1>13, <2>1, <2>2, RequestsKnow, QuietStep DEF IInv, NewPendingUser
  <1>14. ASSUME NEW h \in Handler, LinkIdentity(h) PROVE IInv'
    <2>1. hSubject[h] \in Subject /\ hUser[h] \in User
      BY <1>0, <1>14 DEF LinkIdentity, Knows
    <2>2. Evolves /\ LinksStand
      BY <1>0, <1>14, <2>1, SameEvolves DEF LinkIdentity, LinksStand, TypeOK
    <2>3. TypeOK' /\ Frame(h)
      BY <1>0, <1>14, <2>1 DEF LinkIdentity, Return, Goto, TypeOK, Step, Frame, Apart,
         localVars, outVars
    <2>4. Knows(h)'
      BY <1>0, <1>14, <2>1 DEF LinkIdentity, Return, Goto, TypeOK, Knows, localVars
    <2> QED
      BY <1>14, <2>2, <2>3, <2>4, RequestsKnow, QuietStep DEF IInv, LinkIdentity
  <1>15. ASSUME NEW h \in Handler, IssueSession(h) PROVE IInv'
    <2>1. Evolves /\ LinksStand
      BY <1>0, <1>15, SameEvolves DEF IssueSession, LinksStand, linkVars
    <2>2. /\ hUser[h] \in User /\ hSubject[h] \in Subject /\ hCaller[h] \in User \cup {NULL}
          /\ hCaller[h] \in {NULL, hUser[h]} /\ link[hSubject[h]] = hUser[h]
      BY <1>0, <1>15 DEF IssueSession, Knows, TypeOK
    <2>3. [user |-> hUser[h], subject |-> hSubject[h], caller |-> hCaller[h]]
            \in [user : User, subject : Subject, caller : User \cup {NULL}]
      BY <2>2
    <2>4. TypeOK'
      BY <1>0, <1>15, <2>3 DEF IssueSession, Return, Goto, TypeOK, Step, linkVars
    <2>5. Frame(h) /\ Knows(h)'
      BY <1>0, <1>15 DEF IssueSession, Return, Goto, TypeOK, Frame, Apart, Knows
    <2>6. SessionsGoToOwner' /\ GrantProvesOwner' /\ ExportWasProven'
      BY <1>15, <2>1, <2>2, OutcomesLast DEF IssueSession, SessionsGoToOwner,
         GrantProvesOwner, ExportWasProven, linkVars
    <2> QED
      BY <2>1, <2>4, <2>5, <2>6, RequestsKnow DEF IInv
  <1>16. ASSUME NEW h \in Handler, Fail(h) PROVE IInv'
    <2>1. Evolves /\ LinksStand
      BY <1>0, <1>16, SameEvolves DEF Fail, LinksStand, linkVars
    <2>2. TypeOK' /\ Frame(h) /\ Knows(h)'
      BY <1>0, <1>16 DEF Fail, Return, Goto, TypeOK, Step, Frame, Apart, Knows, linkVars,
         outVars
    <2> QED
      BY <1>16, <2>1, <2>2, RequestsKnow, QuietStep DEF IInv, Fail
  <1>17. CASE UNCHANGED vars
    <2>1. Evolves /\ LinksStand /\ \A h \in Handler : Apart(h)
      BY <1>0, <1>17, SameEvolves DEF vars, LinksStand, linkVars, Apart, localVars
    <2>2. TypeOK' /\ \A h \in Handler : Knows(h)'
      BY <1>0, <1>17, <2>1, KnowledgeLasts DEF vars, TypeOK, linkVars, outVars, localVars
    <2> QED
      BY <1>17, <2>1, <2>2, QuietStep DEF IInv, vars
  <1>18. \A u, S : \A a \in Channel(u, S) : a \in Address /\ link[a] = u
    BY DEF Channel, OnFile, Address
  <1>19. accounts \subseteq User
    BY <1>0 DEF TypeOK
  <1>20. ASSUME NEW h \in Handler, Request(h) PROVE IInv'
    <2>1. CASE EmailRequest(h) \/ PhoneRequest(h) \/ StepUpRequest(h)
      BY <1>1, <1>18, <2>1 DEF EmailRequest, PhoneRequest, StepUpRequest, Address
    <2>2. ASSUME NEW right \in BOOLEAN, EmailVerify(h, right) PROVE IInv'
      BY <1>4, <2>2 DEF EmailVerify, Address
    <2>3. ASSUME NEW right \in BOOLEAN, PhoneVerify(h, right) PROVE IInv'
      BY <1>4, <1>19, <2>3 DEF PhoneVerify, Address
    <2>4. ASSUME NEW right \in BOOLEAN, StepUpVerify(h, right) PROVE IInv'
      BY <1>4, <1>18, <1>19, <2>4 DEF StepUpVerify
    <2> QED
      BY <1>10, <1>20, <2>1, <2>2, <2>3, <2>4 DEF Request
  <1>21. ASSUME NEW h \in Handler, HandlerStep(h) PROVE IInv'
    <2>1. CASE EmailResolve(h) \/ FederatedResolve(h)
      BY <1>11, <2>1 DEF EmailResolve, FederatedResolve
    <2>2. CASE PhoneResolve(h)
      BY <1>11, <2>2 DEF PhoneResolve
    <2> QED
      BY <1>2, <1>5, <1>6, <1>7, <1>12, <1>13, <1>14, <1>15, <1>21, <2>1, <2>2
      DEF HandlerStep
  <1> QED
    BY <1>3, <1>8, <1>9, <1>16, <1>17, <1>20, <1>21 DEF Next

-----------------------------------------------------------------------------
(* Counting                                                                *)

Missing(c) == {h \in Handler : pc[h] = "miss" /\ hCh[h] = c}
Using(c) == {h \in Handler : pc[h] = "consume" /\ hCh[h] = c}
Sending(a) == {h \in Handler : pc[h] = "create" /\ hSubject[h] = a}
Mailed(a) == {c \in DOMAIN challenge : IsActive(c, a) /\ challenge[c].age = "fresh"}

\* A challenge is used up by the requests that read it before it was consumed.
UsesInv ==
    /\ \A c \in DOMAIN challenge :
         /\ uses[c] + Cardinality(Using(c)) <= Cardinality(Handler)
         /\ ~challenge[c].consumed => uses[c] = 0
    /\ \A c \in ChId \ DOMAIN challenge : uses[c] = 0

\* Older challenges are older.
AgesInv ==
    \A c, d \in DOMAIN challenge : c < d =>
        /\ challenge[d].age # "fresh" => challenge[c].age # "fresh"
        /\ challenge[d].age = "expired" => challenge[c].age = "expired"

CInv == GuessBound /\ UsesInv /\ ResendBound /\ AgesInv

\* Sets of requests are counted.
LEMMA CountRequests ==
  ASSUME NEW A \in SUBSET Handler
  PROVE  /\ IsFiniteSet(A) /\ Cardinality(A) \in Nat /\ Cardinality(Handler) \in Nat
         /\ Cardinality(A) <= Cardinality(Handler)
         /\ \A B \in SUBSET A : Cardinality(B) \in Nat /\ Cardinality(B) <= Cardinality(A)
         /\ \A h \in Handler \ A :
              /\ Cardinality(A \cup {h}) = Cardinality(A) + 1
              /\ Cardinality(A) + 1 <= Cardinality(Handler)
         /\ \A h \in A : Cardinality(A \ {h}) = Cardinality(A) - 1
  <1>1. IsFiniteSet(A) /\ Cardinality(A) <= Cardinality(Handler)
    BY HandlerAssumption, FS_Subset
  <1>2. Cardinality(A) \in Nat /\ Cardinality(Handler) \in Nat
    BY <1>1, HandlerAssumption, FS_CardinalityType
  <1>3. ASSUME NEW B \in SUBSET A
        PROVE  Cardinality(B) \in Nat /\ Cardinality(B) <= Cardinality(A)
    BY <1>1, FS_Subset, FS_CardinalityType
  <1>4. ASSUME NEW h \in Handler \ A
        PROVE  /\ Cardinality(A \cup {h}) = Cardinality(A) + 1
               /\ Cardinality(A) + 1 <= Cardinality(Handler)
    <2>1. Cardinality(A \cup {h}) = Cardinality(A) + 1
      BY <1>1, FS_AddElement
    <2>2. A \cup {h} \in SUBSET Handler
      OBVIOUS
    <2>3. Cardinality(A \cup {h}) <= Cardinality(Handler)
      BY <2>2, HandlerAssumption, FS_Subset
    <2> QED
      BY <2>1, <2>3
  <1>5. ASSUME NEW h \in A PROVE Cardinality(A \ {h}) = Cardinality(A) - 1
    BY <1>1, FS_RemoveElement
  <1> QED
    BY <1>1, <1>2, <1>3, <1>4, <1>5

\* So are the codes on their way to an address.
LEMMA CountMailed ==
  ASSUME TypeOK, NEW a
  PROVE  /\ IsFiniteSet(Mailed(a)) /\ Cardinality(Mailed(a)) \in Nat
         /\ \A B \in SUBSET Mailed(a) :
              Cardinality(B) \in Nat /\ Cardinality(B) <= Cardinality(Mailed(a))
         /\ \A n : n \notin Mailed(a) =>
              Cardinality(Mailed(a) \cup {n}) = Cardinality(Mailed(a)) + 1
  <1>0. Len(challenge) \in Nat /\ DOMAIN challenge = 1..Len(challenge)
    BY DEF TypeOK
  <1>1. IsFiniteSet(1..Len(challenge)) /\ Mailed(a) \in SUBSET (1..Len(challenge))
    BY <1>0, FS_Interval DEF Mailed
  <1>2. IsFiniteSet(Mailed(a))
    BY <1>1, FS_Subset
  <1>3. ASSUME NEW B \in SUBSET Mailed(a)
        PROVE  Cardinality(B) \in Nat /\ Cardinality(B) <= Cardinality(Mailed(a))
    BY <1>2, FS_Subset, FS_CardinalityType
  <1> QED
    BY <1>2, <1>3, FS_CardinalityType, FS_AddElement

\* A step that lets no request in and no challenge grow younger.
Calm ==
    /\ DOMAIN challenge' = DOMAIN challenge
    /\ \A c \in DOMAIN challenge :
         /\ challenge'[c].addr = challenge[c].addr
         /\ challenge'[c].attempts = challenge[c].attempts
         /\ challenge'[c].consumed = challenge[c].consumed
         /\ challenge'[c].age = "fresh" => challenge[c].age = "fresh"
    /\ uses' = uses
    /\ \A g \in Handler : pc'[g] \in {"create", "miss", "consume"} =>
         pc'[g] = pc[g] /\ hCh'[g] = hCh[g] /\ hSubject'[g] = hSubject[g]

\* The bound on guesses, where no more of them are on the way.
LEMMA FewerGuesses ==
  ASSUME TypeOK, GuessBound, NEW c \in DOMAIN challenge, NEW M \in SUBSET Missing(c)
  PROVE  challenge[c].attempts + Cardinality(M) <= maxCodeAttempts + Cardinality(Handler) - 1
  <1>1. Missing(c) \in SUBSET Handler
    BY DEF Missing
  <1>2. /\ Cardinality(M) \in Nat /\ Cardinality(M) <= Cardinality(Missing(c))
        /\ Cardinality(Missing(c)) \in Nat /\ Cardinality(Handler) \in Nat
    BY <1>1, CountRequests
  <1>3. challenge[c].attempts \in Nat
    <2>1. challenge \in Seq(Challenge)
      BY DEF TypeOK
    <2>2. challenge[c] \in Challenge
      BY <2>1
    <2> QED
      BY <2>2 DEF Challenge
  <1> QED
    BY <1>2, <1>3, BoundAssumption DEF GuessBound, Missing

\* The bound on uses, where no more of them are on the way.
LEMMA FewerUses ==
  ASSUME TypeOK, UsesInv, NEW c \in DOMAIN challenge, NEW M \in SUBSET Using(c)
  PROVE  uses[c] + Cardinality(M) <= Cardinality(Handler)
  <1>1. Using(c) \in SUBSET Handler
    BY DEF Using
  <1>2. /\ Cardinality(M) \in Nat /\ Cardinality(M) <= Cardinality(Using(c))
        /\ Cardinality(Using(c)) \in Nat /\ Cardinality(Handler) \in Nat
    BY <1>1, CountRequests
  <1>3. uses[c] \in Nat
    <2>1. challenge \in Seq(Challenge) /\ Len(challenge) <= MaxChallenge
      BY DEF TypeOK
    <2>2. c \in ChId
      BY <2>1, BoundAssumption DEF ChId
    <2> QED
      BY <2>2 DEF TypeOK
  <1> QED
    BY <1>2, <1>3 DEF UsesInv

\* The bound on codes, where no more of them are on the way or in the mail.
LEMMA FewerCodes ==
  ASSUME TypeOK, ResendBound, NEW a \in Address,
         NEW M \in SUBSET Mailed(a), NEW S \in SUBSET Sending(a)
  PROVE  Cardinality(M) + Cardinality(S) <= Cardinality(Handler)
  <1>1. Sending(a) \in SUBSET Handler
    BY DEF Sending
  <1>2. /\ Cardinality(S) \in Nat /\ Cardinality(S) <= Cardinality(Sending(a))
        /\ Cardinality(Sending(a)) \in Nat /\ Cardinality(Handler) \in Nat
    BY <1>1, CountRequests
  <1>3. /\ Cardinality(M) \in Nat /\ Cardinality(M) <= Cardinality(Mailed(a))
        /\ Cardinality(Mailed(a)) \in Nat
    BY CountMailed
  <1>4. Cardinality(Mailed(a)) + Cardinality(Sending(a)) <= Cardinality(Handler)
    BY DEF ResendBound, Mailed, Sending
  <1> QED
    BY <1>2, <1>3, <1>4

\* A calm step keeps every bound.
LEMMA CalmStep ==
  ASSUME TypeOK, CInv, Calm
  PROVE  GuessBound' /\ UsesInv' /\ ResendBound'
  <1>1. ASSUME NEW c \in DOMAIN challenge'
        PROVE  challenge'[c].attempts + Cardinality(Missing(c)')
                 <= maxCodeAttempts + Cardinality(Handler) - 1
    <2>1. Missing(c)' \in SUBSET Missing(c)
      BY DEF Missing, Calm
    <2> QED
      BY <2>1, FewerGuesses DEF CInv, Calm
  <1>2. ASSUME NEW c \in DOMAIN challenge'
        PROVE  /\ uses'[c] + Cardinality(Using(c)') <= Cardinality(Handler)
               /\ ~challenge'[c].consumed => uses'[c] = 0
    <2>1. Using(c)' \in SUBSET Using(c)
      BY DEF Using, Calm
    <2>2. uses[c] + Cardinality(Using(c)') <= Cardinality(Handler)
      BY <2>1, FewerUses DEF CInv, Calm
    <2> QED
      BY <2>2 DEF CInv, UsesInv, Calm
  <1>3. ASSUME NEW a \in Address
        PROVE  Cardinality(Mailed(a)') + Cardinality(Sending(a)') <= Cardinality(Handler)
    <2>1. Mailed(a)' \in SUBSET Mailed(a) /\ Sending(a)' \in SUBSET Sending(a)
      BY DEF Mailed, Sending, IsActive, Calm
    <2> QED
      BY <2>1, FewerCodes DEF CInv
  <1>4. GuessBound'
    BY <1>1 DEF GuessBound, Missing
  <1>5. UsesInv'
    BY <1>2 DEF UsesInv, CInv, Calm
  <1>6. ResendBound'
    BY <1>3 DEF ResendBound, Mailed, Sending
  <1> QED
    BY <1>4, <1>5, <1>6

\* A finite set of numbers has a greatest one.
LEMMA GreatestExists ==
  ASSUME NEW A \in SUBSET Int, IsFiniteSet(A), A # {}
  PROVE  \E m \in A : \A d \in A : d <= m
  <1> DEFINE From(c) == {d \in A : c <= d}
             T == {From(c) : c \in A}
             R == StrictSubsetOrdering(A)
  <1>1. IsWellFoundedOn(R, SUBSET A)
    <2>1. FiniteSubsetsOf(A) = SUBSET A
      BY FS_FiniteSubsetsOfFinite
    <2>2. IsWellFoundedOn(R, FiniteSubsetsOf(A))
      BY FS_StrictSubsetOrderingWellFounded
    <2> QED
      BY <2>1, <2>2
  <1>2. T \subseteq SUBSET A /\ T # {}
    OBVIOUS
  <1>3. PICK X \in T : \A Y \in T : ~(<<Y, X>> \in R)
    <2> HIDE DEF T, R
    <2> QED
      BY <1>1, <1>2, WFMin
  <1>4. PICK m \in A : X = From(m)
    OBVIOUS
  <1>5. ASSUME NEW d \in A, ~(d <= m) PROVE FALSE
    <2>0. d \in Int /\ m \in Int /\ m < d
      BY <1>5
    <2>1. From(d) \in T /\ From(d) \subseteq X /\ m \in X /\ m \notin From(d)
      <3>1. From(d) \in T
        OBVIOUS
      <3>2. \A e \in A : d <= e => m <= e
        BY <2>0
      <3>3. From(d) \subseteq From(m)
        BY <3>2
      <3>4. m \in From(m) /\ m \notin From(d)
        BY <2>0
      <3> QED
        BY <1>4, <3>1, <3>3, <3>4
    <2>2. <<From(d), X>> \in R
      BY <1>2, <2>1 DEF StrictSubsetOrdering
    <2> QED
      BY <1>3, <2>1, <2>2
  <1> QED
    BY <1>5

\* The bounds hold before the first request.
LEMMA InitCInv == Init => CInv
  <1> SUFFICES ASSUME Init PROVE CInv
    OBVIOUS
  <1>1. DOMAIN challenge = {}
    BY DEF Init
  <1>2. GuessBound /\ UsesInv /\ AgesInv
    BY <1>1 DEF Init, GuessBound, UsesInv, AgesInv
  <1>3. ASSUME NEW a \in Address
        PROVE  Cardinality(Mailed(a)) + Cardinality(Sending(a)) <= Cardinality(Handler)
    <2>1. Mailed(a) = {} /\ Sending(a) = {}
      BY <1>1 DEF Init, Mailed, Sending
    <2> QED
      BY <2>1, FS_EmptySet, HandlerAssumption, FS_CardinalityType
  <1>4. ResendBound
    BY <1>3 DEF ResendBound, Mailed, Sending
  <1> QED
    BY <1>2, <1>4 DEF CInv

\* Every step keeps the bounds.
LEMMA NextCInv == IInv /\ CInv /\ [Next]_vars => CInv'
  <1> SUFFICES ASSUME IInv, CInv, [Next]_vars PROVE CInv'
    OBVIOUS
  <1> USE BoundAssumption
  <1>0. /\ TypeOK
        /\ challenge \in Seq(Challenge) /\ Len(challenge) \in 0..MaxChallenge
        /\ DOMAIN challenge = 1..Len(challenge)
        /\ \A c \in DOMAIN challenge : challenge[c] \in Challenge
    <2>1. TypeOK
      BY DEF IInv
    <2>2. challenge \in Seq(Challenge) /\ Len(challenge) \in 0..MaxChallenge
          /\ DOMAIN challenge = 1..Len(challenge)
      BY <2>1 DEF TypeOK
    <2> QED
      BY <2>1, <2>2
  <1>a. Cardinality(Handler) \in Nat
    BY HandlerAssumption, FS_CardinalityType
  <1>1. ASSUME NEW h \in Handler, NEW a \in Address, RequestCode(h, a) PROVE CInv'
    <2>1. AgesInv' /\ GuessBound' /\ UsesInv'
      <3>1. \A c : Missing(c)' = Missing(c) /\ Using(c)' = Using(c)
        BY <1>0, <1>1 DEF RequestCode, Goto, TypeOK, Missing, Using
      <3> QED
        BY <1>1, <3>1 DEF RequestCode, CInv, AgesInv, GuessBound, UsesInv, Missing
    <2>2. Mailed(a) = {}
      <3> SUFFICES ASSUME NEW c \in Mailed(a) PROVE FALSE
        OBVIOUS
      <3>1. c \in DOMAIN challenge /\ IsActive(c, a) /\ challenge[c].age = "fresh"
        BY DEF Mailed
      <3> DEFINE A == {d \in DOMAIN challenge : IsActive(d, a)}
      <3>2. A \in SUBSET Int /\ IsFiniteSet(A) /\ A # {}
        <4>1. IsFiniteSet(1..Len(challenge)) /\ A \in SUBSET (1..Len(challenge))
          BY <1>0, FS_Interval
        <4> QED
          BY <3>1, <4>1, FS_Subset
      <3>3. PICK m \in A : \A d \in A : d <= m
        BY <3>2, GreatestExists
      <3>4. m \in ActiveChallenge(a)
        BY <3>3 DEF ActiveChallenge
      <3>5. challenge[m].age # "fresh"
        BY <1>1, <3>4 DEF RequestCode, MaySend
      <3> QED
        BY <1>0, <3>1, <3>3, <3>5 DEF CInv, AgesInv
    <2>3. ASSUME NEW b \in Address
          PROVE  Cardinality(Mailed(b)') + Cardinality(Sending(b)') <= Cardinality(Handler)
      <3>1. Mailed(b)' = Mailed(b)
        BY <1>1 DEF RequestCode, Mailed, IsActive
      <3>2. CASE b = a
        <4>1. Cardinality(Mailed(b)') = 0
          BY <2>2, <3>1, <3>2, FS_EmptySet
        <4>2. Sending(b)' \in SUBSET Handler
          BY DEF Sending
        <4> QED
          BY <4>1, <4>2, CountRequests
      <3>3. CASE b # a
        <4>1. Sending(b)' \in SUBSET Sending(b)
          BY <1>0, <1>1, <3>3 DEF RequestCode, Goto, TypeOK, Sending
        <4> QED
          BY <1>0, <3>1, <4>1, FewerCodes DEF CInv
      <3> QED
        BY <3>2, <3>3
    <2> QED
      BY <2>1, <2>3 DEF CInv, ResendBound, Mailed, Sending
  <1>2. ASSUME NEW h \in Handler, CreateChallenge(h) PROVE CInv'
    <2> DEFINE e == [addr |-> hSubject[h], attempts |-> 0, consumed |-> FALSE, age |-> "fresh"]
    <2>0. PICK n \in Nat : n = Len(challenge) + 1
      BY <1>0
    <2>1. e \in Challenge
      BY <1>2 DEF CreateChallenge, IInv, Knows, Challenge, Age
    <2>2. /\ challenge' \in Seq(Challenge) /\ Len(challenge') = n
          /\ \A i \in 1..Len(challenge) : challenge'[i] = challenge[i]
          /\ challenge'[n] = e
      BY <1>0, <1>2, <2>0, <2>1, AppendProperties DEF CreateChallenge
    <2>3. /\ n \in Nat /\ n \in ChId /\ n \notin DOMAIN challenge
          /\ DOMAIN challenge' = DOMAIN challenge \cup {n}
      BY <1>0, <1>2, <2>0, <2>2 DEF CreateChallenge, ChId
    <2>4. \A c \in DOMAIN challenge : challenge'[c] = challenge[c]
      BY <1>0, <2>2
    <2>5. \A c : /\ Missing(c)' \in SUBSET Missing(c) /\ Using(c)' \in SUBSET Using(c)
      BY <1>0, <1>2 DEF CreateChallenge, Return, Goto, TypeOK, Missing, Using
    <2>6. Missing(n) = {} /\ Using(n) = {}
      BY <2>3 DEF IInv, Knows, Missing, Using
    <2>7. Cardinality(Missing(n)') = 0 /\ Cardinality(Using(n)') = 0
      <3>1. Missing(n)' \in SUBSET Missing(n) /\ Using(n)' \in SUBSET Using(n)
        BY <2>5
      <3>2. Missing(n)' = {} /\ Using(n)' = {}
        BY <2>6, <3>1
      <3> QED
        BY <3>2, FS_EmptySet
    <2>8. Cardinality(Handler) >= 1
      <3>1. {h} \in SUBSET Handler /\ Cardinality({h}) = 1
        BY FS_Singleton
      <3> QED
        BY <1>a, <3>1, CountRequests
    <2>9. GuessBound'
      <3>1. ASSUME NEW c \in DOMAIN challenge
            PROVE  challenge'[c].attempts + Cardinality(Missing(c)')
                     <= maxCodeAttempts + Cardinality(Handler) - 1
        BY <1>0, <2>4, <2>5, FewerGuesses DEF CInv
      <3>2. challenge'[n].attempts + Cardinality(Missing(n)')
              <= maxCodeAttempts + Cardinality(Handler) - 1
        BY <1>a, <2>2, <2>7, <2>8
      <3>3. \A c \in DOMAIN challenge' : challenge'[c].attempts + Cardinality(Missing(c)')
                     <= maxCodeAttempts + Cardinality(Handler) - 1
        BY <2>3, <3>1, <3>2
      <3> QED
        BY <3>3 DEF GuessBound, Missing
    <2>10. UsesInv'
      <3>1. ASSUME NEW c \in DOMAIN challenge
            PROVE  uses[c] + Cardinality(Using(c)') <= Cardinality(Handler)
        BY <1>0, <2>5, FewerUses DEF CInv
      <3>2. uses[n] = 0 /\ uses[n] + Cardinality(Using(n)') <= Cardinality(Handler)
        BY <1>a, <2>3, <2>7 DEF CInv, UsesInv
      <3>3. uses' = uses
        BY <1>2 DEF CreateChallenge
      <3>4. \A c \in DOMAIN challenge :
                 uses[c] + Cardinality(Using(c)') <= Cardinality(Handler)
        BY <3>1
      <3>5. \A c \in DOMAIN challenge' :
              /\ uses'[c] + Cardinality(Using(c)') <= Cardinality(Handler)
              /\ ~challenge'[c].consumed => uses'[c] = 0
        BY <2>3, <2>4, <3>2, <3>3, <3>4 DEF CInv, UsesInv
      <3>6. \A c \in ChId \ DOMAIN challenge' : uses'[c] = 0
        BY <2>3, <3>3 DEF CInv, UsesInv
      <3> QED
        BY <3>5, <3>6 DEF UsesInv
    <2>11. ASSUME NEW b \in Address
           PROVE  Cardinality(Mailed(b)') + Cardinality(Sending(b)') <= Cardinality(Handler)
      <3>1. CASE b = hSubject[h]
        <4>1. Mailed(b)' = Mailed(b) \cup {n} /\ n \notin Mailed(b)
          BY <2>2, <2>3, <2>4, <3>1 DEF Mailed, IsActive
        <4>2. Sending(b)' = Sending(b) \ {h} /\ h \in Sending(b)
          BY <1>0, <1>2, <3>1 DEF CreateChallenge, Return, Goto, TypeOK, Sending
        <4>3. Sending(b) \in SUBSET Handler
          BY DEF Sending
        <4>4. /\ Cardinality(Sending(b)') = Cardinality(Sending(b)) - 1
              /\ Cardinality(Sending(b)) \in Nat
          BY <4>2, <4>3, CountRequests
        <4>5. /\ Cardinality(Mailed(b)') = Cardinality(Mailed(b)) + 1
              /\ Cardinality(Mailed(b)) \in Nat
          BY <1>0, <4>1, CountMailed
        <4>6. Cardinality(Mailed(b)) + Cardinality(Sending(b)) <= Cardinality(Handler)
          BY DEF CInv, ResendBound, Mailed, Sending
        <4> QED
          BY <1>a, <4>4, <4>5, <4>6
      <3>2. CASE b # hSubject[h]
        <4>1. Mailed(b)' \in SUBSET Mailed(b) /\ Sending(b)' \in SUBSET Sending(b)
          BY <1>0, <1>2, <2>2, <2>3, <2>4, <3>2
          DEF CreateChallenge, Return, Goto, TypeOK, Mailed, Sending, IsActive
        <4> QED
          BY <1>0, <4>1, FewerCodes DEF CInv
      <3> QED
        BY <3>1, <3>2
    <2>12. AgesInv'
      BY <1>0, <2>0, <2>2, <2>3, <2>4 DEF CInv, AgesInv
    <2> QED
      BY <2>9, <2>10, <2>11, <2>12 DEF CInv, ResendBound, Mailed, Sending
  <1>3. ASSUME NEW h \in Handler, NEW a \in Address, NEW goal, NEW caller, NEW right \in BOOLEAN,
               VerifyCode(h, a, goal, caller, right)
        PROVE  CInv'
    <2>1. PICK c \in ActiveChallenge(a) : AttemptsLeft(c) /\ hCh' = [hCh EXCEPT ![h] = c]
      BY <1>3 DEF VerifyCode
    <2>2. /\ c \in DOMAIN challenge /\ ~challenge[c].consumed
          /\ challenge[c].attempts \in Nat /\ challenge[c].attempts < maxCodeAttempts
      BY <1>0, <2>1 DEF ActiveChallenge, IsActive, AttemptsLeft, Challenge
    <2>3. challenge' = challenge /\ uses' = uses
      BY <1>3 DEF VerifyCode
    <2>4. \A d : d # c => Missing(d)' \in SUBSET Missing(d) /\ Using(d)' \in SUBSET Using(d)
      BY <1>0, <1>3, <2>1 DEF VerifyCode, Goto, TypeOK, Missing, Using
    <2>5. Missing(c)' \in SUBSET Handler /\ Using(c)' \in SUBSET Handler
      BY DEF Missing, Using
    <2>6. /\ Cardinality(Missing(c)') \in Nat /\ Cardinality(Missing(c)') <= Cardinality(Handler)
          /\ Cardinality(Using(c)') \in Nat /\ Cardinality(Using(c)') <= Cardinality(Handler)
      BY <2>5, CountRequests
    <2>7. ASSUME NEW d \in DOMAIN challenge
          PROVE  /\ challenge[d].attempts + Cardinality(Missing(d)')
                      <= maxCodeAttempts + Cardinality(Handler) - 1
                 /\ uses[d] + Cardinality(Using(d)') <= Cardinality(Handler)
      <3>1. CASE d = c
        <4>1. uses[c] = 0
          BY <2>2 DEF CInv, UsesInv
        <4> QED
          BY <1>a, <2>2, <2>6, <3>1, <4>1
      <3>2. CASE d # c
        BY <1>0, <2>4, <3>2, FewerGuesses, FewerUses DEF CInv
      <3> QED
        BY <3>1, <3>2
    <2>8. GuessBound'
      BY <2>3, <2>7 DEF GuessBound, Missing
    <2>9. UsesInv'
      BY <2>3, <2>7 DEF CInv, UsesInv
    <2>10. ASSUME NEW b \in Address
           PROVE  Cardinality(Mailed(b)') + Cardinality(Sending(b)') <= Cardinality(Handler)
      <3>1. Mailed(b)' = Mailed(b) /\ Sending(b)' \in SUBSET Sending(b)
        BY <1>0, <1>3, <2>3 DEF VerifyCode, Goto, TypeOK, Mailed, Sending, IsActive
      <3> QED
        BY <1>0, <3>1, FewerCodes DEF CInv
    <2>11. AgesInv'
      BY <2>3 DEF CInv, AgesInv
    <2> QED
      BY <2>8, <2>9, <2>10, <2>11 DEF CInv, ResendBound, Mailed, Sending
  <1>4. ASSUME NEW h \in Handler, Increment(h) PROVE CInv'
    <2>0. PICK c \in ChId \cup {0} : c = hCh[h]
      BY <1>0 DEF TypeOK
    <2>1. c \in DOMAIN challenge /\ challenge[c].attempts \in Nat
      BY <1>0, <1>4, <2>0 DEF Increment, IInv, Knows, Challenge
    <2>2. /\ DOMAIN challenge' = DOMAIN challenge /\ uses' = uses
          /\ challenge'[c].attempts = challenge[c].attempts + 1
          /\ \A d \in DOMAIN challenge : d # c => challenge'[d].attempts = challenge[d].attempts
          /\ \A d \in DOMAIN challenge : /\ challenge'[d].addr = challenge[d].addr
                                         /\ challenge'[d].consumed = challenge[d].consumed
                                         /\ challenge'[d].age = challenge[d].age
      BY <1>0, <1>4, <2>0, <2>1 DEF Increment, Challenge
    <2>3. /\ Missing(c)' = Missing(c) \ {h} /\ h \in Missing(c)
          /\ \A d : d # c => Missing(d)' \in SUBSET Missing(d)
          /\ \A d : Using(d)' \in SUBSET Using(d)
      BY <1>0, <1>4, <2>0 DEF Increment, Return, Goto, TypeOK, Missing, Using
    <2>4. Missing(c) \in SUBSET Handler
      BY DEF Missing
    <2>5. Cardinality(Missing(c)') = Cardinality(Missing(c)) - 1 /\ Cardinality(Missing(c)) \in Nat
      BY <2>3, <2>4, CountRequests
    <2>6. ASSUME NEW d \in DOMAIN challenge
          PROVE  /\ challenge'[d].attempts + Cardinality(Missing(d)')
                      <= maxCodeAttempts + Cardinality(Handler) - 1
                 /\ uses[d] + Cardinality(Using(d)') <= Cardinality(Handler)
      <3>1. uses[d] + Cardinality(Using(d)') <= Cardinality(Handler)
        BY <1>0, <2>3, FewerUses DEF CInv
      <3>2. CASE d = c
        <4>1. challenge[c].attempts + Cardinality(Missing(c))
                <= maxCodeAttempts + Cardinality(Handler) - 1
          BY <1>0, <2>1, FewerGuesses DEF CInv
        <4> QED
          BY <1>a, <2>1, <2>2, <2>5, <3>1, <3>2, <4>1
      <3>3. CASE d # c
        BY <1>0, <2>2, <2>3, <3>1, <3>3, FewerGuesses DEF CInv
      <3> QED
        BY <3>2, <3>3
    <2>7. GuessBound'
      BY <2>2, <2>6 DEF GuessBound, Missing
    <2>8. UsesInv'
      BY <2>2, <2>6 DEF CInv, UsesInv
    <2>9. ASSUME NEW b \in Address
          PROVE  Cardinality(Mailed(b)') + Cardinality(Sending(b)') <= Cardinality(Handler)
      <3>1. Mailed(b)' \in SUBSET Mailed(b)
        BY <2>2 DEF Mailed, IsActive
      <3>2. Sending(b)' \in SUBSET Sending(b)
        BY <1>0, <1>4 DEF Increment, Return, Goto, TypeOK, Sending
      <3> QED
        BY <1>0, <3>1, <3>2, FewerCodes DEF CInv
    <2>10. AgesInv'
      BY <2>2 DEF CInv, AgesInv
    <2> QED
      BY <2>7, <2>8, <2>9, <2>10 DEF CInv, ResendBound, Mailed, Sending
  <1>5. ASSUME NEW h \in Handler, Consume(h) PROVE CInv'
    <2>0. PICK c \in ChId \cup {0} : c = hCh[h]
      BY <1>0 DEF TypeOK
    <2>1. c \in DOMAIN challenge /\ c \in ChId /\ uses[c] \in Nat
      BY <1>0, <1>5, <2>0 DEF Consume, IInv, Knows, ChId, TypeOK
    <2>2. /\ DOMAIN challenge' = DOMAIN challenge
          /\ \A d \in DOMAIN challenge : /\ challenge'[d].addr = challenge[d].addr
                                         /\ challenge'[d].attempts = challenge[d].attempts
                                         /\ challenge'[d].age = challenge[d].age
                                         /\ challenge[d].consumed => challenge'[d].consumed
          /\ challenge'[c].consumed
      BY <1>0, <1>5, <2>0, <2>1 DEF Consume, Challenge
    <2>3. /\ Using(c)' = Using(c) \ {h} /\ h \in Using(c)
          /\ \A d : d # c => Using(d)' \in SUBSET Using(d)
          /\ \A d : Missing(d)' \in SUBSET Missing(d)
      BY <1>0, <1>5, <2>0 DEF Consume, Goto, localVars, TypeOK, Missing, Using
    <2>4. uses'[c] = uses[c] + 1 /\ \A d \in ChId : d # c => uses'[d] = uses[d]
      BY <1>0, <1>5, <2>0, <2>1 DEF Consume, TypeOK
    <2>5. Using(c) \in SUBSET Handler
      BY DEF Using
    <2>6. Cardinality(Using(c)') = Cardinality(Using(c)) - 1 /\ Cardinality(Using(c)) \in Nat
      BY <2>3, <2>5, CountRequests
    <2>7. DOMAIN challenge \subseteq ChId
      BY <1>0 DEF ChId
    <2>8. ASSUME NEW d \in DOMAIN challenge
          PROVE  /\ challenge'[d].attempts + Cardinality(Missing(d)')
                      <= maxCodeAttempts + Cardinality(Handler) - 1
                 /\ uses'[d] + Cardinality(Using(d)') <= Cardinality(Handler)
                 /\ ~challenge'[d].consumed => uses'[d] = 0
      <3>1. challenge'[d].attempts + Cardinality(Missing(d)')
              <= maxCodeAttempts + Cardinality(Handler) - 1
        BY <1>0, <2>2, <2>3, FewerGuesses DEF CInv
      <3>2. CASE d = c
        <4>1. uses[c] + Cardinality(Using(c)) <= Cardinality(Handler)
          BY <1>0, <2>1, FewerUses DEF CInv
        <4> QED
          BY <1>a, <2>1, <2>2, <2>4, <2>6, <3>1, <3>2, <4>1
      <3>3. CASE d # c
        <4>1. uses[d] + Cardinality(Using(d)') <= Cardinality(Handler)
          BY <1>0, <2>3, <3>3, FewerUses DEF CInv
        <4> QED
          BY <2>2, <2>4, <2>7, <3>1, <3>3, <4>1 DEF CInv, UsesInv
      <3> QED
        BY <3>2, <3>3
    <2>9. GuessBound'
      BY <2>2, <2>8 DEF GuessBound, Missing
    <2>10. UsesInv'
      <3>1. \A d \in ChId \ DOMAIN challenge' : uses'[d] = 0
        BY <2>1, <2>2, <2>4 DEF CInv, UsesInv
      <3> QED
        BY <2>2, <2>8, <3>1 DEF UsesInv
    <2>11. ASSUME NEW b \in Address
           PROVE  Cardinality(Mailed(b)') + Cardinality(Sending(b)') <= Cardinality(Handler)
      <3>1. Mailed(b)' \in SUBSET Mailed(b)
        BY <2>2 DEF Mailed, IsActive
      <3>2. Sending(b)' \in SUBSET Sending(b)
        BY <1>0, <1>5 DEF Consume, Goto, localVars, TypeOK, Sending
      <3> QED
        BY <1>0, <3>1, <3>2, FewerCodes DEF CInv
    <2>12. AgesInv'
      BY <2>2 DEF CInv, AgesInv
    <2> QED
      BY <2>9, <2>10, <2>11, <2>12 DEF CInv, ResendBound, Mailed, Sending
  <1>6. ASSUME NEW c \in DOMAIN challenge, GrowOld(c) PROVE CInv'
    <2> DEFINE next == IF challenge[c].age = "fresh" THEN "settled" ELSE "expired"
    <2>1. /\ DOMAIN challenge' = DOMAIN challenge
          /\ \A d \in DOMAIN challenge : /\ challenge'[d].addr = challenge[d].addr
                                         /\ challenge'[d].attempts = challenge[d].attempts
                                         /\ challenge'[d].consumed = challenge[d].consumed
                                         /\ d # c => challenge'[d].age = challenge[d].age
          /\ challenge'[c].age = next /\ challenge[c].age # "expired"
          /\ \A d \in 1..(c - 1) : challenge[d].age \in {next, "expired"}
      BY <1>0, <1>6 DEF GrowOld, Challenge
    <2>2. Calm
      BY <1>6, <2>1 DEF Calm, GrowOld, localVars
    <2>3. AgesInv'
      <3> SUFFICES ASSUME NEW d \in DOMAIN challenge, NEW e \in DOMAIN challenge, d < e
                   PROVE  /\ challenge'[e].age # "fresh" => challenge'[d].age # "fresh"
                          /\ challenge'[e].age = "expired" => challenge'[d].age = "expired"
        BY <2>1 DEF AgesInv
      <3>1. /\ challenge[e].age # "fresh" => challenge[d].age # "fresh"
            /\ challenge[e].age = "expired" => challenge[d].age = "expired"
        BY DEF CInv, AgesInv
      <3>2. CASE e = c
        <4>1. d \in 1..(c - 1) /\ d # c
          BY <1>0, <3>2
        <4> QED
          BY <2>1, <3>2, <4>1
      <3>3. CASE d = c
        BY <1>0, <2>1, <3>1, <3>3
      <3>4. CASE d # c /\ e # c
        BY <2>1, <3>1, <3>4
      <3> QED
        BY <3>2, <3>3, <3>4
    <2> QED
      BY <1>0, <2>2, <2>3, CalmStep DEF CInv
  <1>7. ASSUME challenge' = challenge, uses' = uses,
               \A g \in Handler : pc'[g] \in {"create", "miss", "consume"} =>
                 pc'[g] = pc[g] /\ hCh'[g] = hCh[g] /\ hSubject'[g] = hSubject[g]
        PROVE  CInv'
    <2>1. Calm
      BY <1>7 DEF Calm
    <2>2. AgesInv'
      BY <1>7 DEF CInv, AgesInv
    <2> QED
      BY <1>0, <2>1, <2>2, CalmStep DEF CInv
  <1>8. ASSUME NEW h \in Handler,
               \/ CreateStepUpGrant(h) \/ PhoneRefused(h) \/ IssueSession(h) \/ Fail(h)
               \/ LinkIdentity(h)
        PROVE  CInv'
    BY <1>0, <1>7, <1>8 DEF CreateStepUpGrant, PhoneRefused, IssueSession, Fail, LinkIdentity,
       Return, Goto, TypeOK, localVars
  <1>9. ASSUME NEW h \in Handler, NEW S, Lookup(h, S) PROVE CInv'
    BY <1>0, <1>7, <1>9 DEF Lookup, UseLinked, NewOwner, Goto, TypeOK
  <1>10. ASSUME NEW h \in Handler, NEW u \in User, NewPendingUser(h, u) PROVE CInv'
    BY <1>0, <1>7, <1>10 DEF NewPendingUser, Goto, TypeOK
  <1>11. ASSUME NEW h \in Handler, NEW s \in Federated, FederatedCallback(h, s) PROVE CInv'
    BY <1>0, <1>7, <1>11 DEF FederatedCallback, Goto, TypeOK
  <1>12. ASSUME NEW g \in grants, ExpireGrant(g) PROVE CInv'
    BY <1>7, <1>12 DEF ExpireGrant, localVars
  <1>13. ASSUME NEW u \in User, DataExport(u) PROVE CInv'
    BY <1>7, <1>13 DEF DataExport, localVars
  <1>14. CASE UNCHANGED vars
    BY <1>7, <1>14 DEF vars, localVars
  <1>15. \A u, S : Channel(u, S) \subseteq Address
    BY DEF Channel, OnFile, Address
  <1>16. ASSUME NEW h \in Handler, Request(h) PROVE CInv'
    <2>1. CASE EmailRequest(h) \/ PhoneRequest(h) \/ StepUpRequest(h)
      BY <1>1, <1>15, <2>1 DEF EmailRequest, PhoneRequest, StepUpRequest, Address
    <2>2. ASSUME NEW right \in BOOLEAN, EmailVerify(h, right) PROVE CInv'
      BY <1>3, <2>2 DEF EmailVerify, Address
    <2>3. ASSUME NEW right \in BOOLEAN, PhoneVerify(h, right) PROVE CInv'
      BY <1>3, <2>3 DEF PhoneVerify, Address
    <2>4. ASSUME NEW right \in BOOLEAN, StepUpVerify(h, right) PROVE CInv'
      BY <1>3, <1>15, <2>4 DEF StepUpVerify
    <2> QED
      BY <1>11, <1>16, <2>1, <2>2, <2>3, <2>4 DEF Request
  <1>17. ASSUME NEW h \in Handler, HandlerStep(h) PROVE CInv'
    <2>1. CASE EmailResolve(h) \/ FederatedResolve(h) \/ PhoneResolve(h)
      BY <1>9, <2>1 DEF EmailResolve, FederatedResolve, PhoneResolve
    <2> QED
      BY <1>2, <1>4, <1>5, <1>8, <1>10, <1>17, <2>1 DEF HandlerStep
  <1> QED
    BY <1>6, <1>8, <1>12, <1>13, <1>14, <1>16, <1>17 DEF Next

-----------------------------------------------------------------------------
(* The theorems                                                            *)

\* Whatever the requests do, what each of them read still holds when it acts on it.
THEOREM Invariance == Spec => []IInv
  BY InitIInv, NextIInv, PTL DEF Spec

\* The state has its type in every reachable state.
THEOREM TypeCorrect == Spec => []TypeOK
  BY Invariance, PTL DEF IInv

\* A proven address or federated pair opens the one account it is linked to, however
\* first logins and phone bindings race (Resolve of the three resolvers).
THEOREM OwnersGetSessions == Spec => []SessionsGoToOwner
  BY Invariance, PTL DEF IInv

\* No step-up grant and no export without a code that went to an address of the very
\* account (StepUp.Verify, handleDataExport).
THEOREM StepUpProven == Spec => []StepUpProvesOwner
  BY Invariance, PTL DEF IInv, StepUpProvesOwner

\* The link tables are only added to (LinkEmailIdentity, LinkPhoneIdentity,
\* LinkFederatedIdentity).
THEOREM LinksStay == Spec => LinksNeverMove
  <1>1. IInv /\ [Next]_vars => [LinksStand]_vars
    <2> SUFFICES ASSUME IInv, Next PROVE LinksStand
      BY DEF IInv
    <2>1. link' = link \/ \E h \in Handler : LinkIdentity(h)
      BY DEF Next, Request, HandlerStep, EmailRequest, PhoneRequest, StepUpRequest, RequestCode,
         EmailVerify, PhoneVerify, StepUpVerify, VerifyCode, FederatedCallback, CreateChallenge,
         Increment, Consume, CreateStepUpGrant, EmailResolve, PhoneResolve, FederatedResolve,
         Lookup, PhoneRefused, NewPendingUser, IssueSession, Fail, GrowOld, ExpireGrant,
         DataExport, linkVars
    <2>2. ASSUME NEW h \in Handler, LinkIdentity(h) PROVE LinksStand
      BY <2>2 DEF LinkIdentity, LinksStand, IInv, TypeOK
    <2> QED
      BY <2>1, <2>2 DEF LinksStand
  <1> QED
    BY <1>1, Invariance, PTL DEF Spec, LinksNeverMove, LinksStand

\* Limits that are checked in one statement and counted in another are overrun by no
\* more than the requests that run at once, for any number of them (VerifyCode,
\* IncrementLoginAttempts, ConsumeLoginChallenge, RequestCode).
THEOREM LimitsHold == Spec => []OverrunBound
  <1>1. Spec => []CInv
    BY InitCInv, NextCInv, Invariance, PTL DEF Spec
  <1>2. IInv /\ CInv => OverrunBound
    <2> SUFFICES ASSUME IInv, CInv PROVE UseBound
      BY DEF CInv, OverrunBound
    <2>1. TypeOK /\ Cardinality(Handler) \in Nat
      BY HandlerAssumption, FS_CardinalityType DEF IInv
    <2>2. ASSUME NEW c \in ChId PROVE uses[c] <= Cardinality(Handler)
      <3>1. CASE c \in DOMAIN challenge
        <4>1. Using(c) \in SUBSET Handler
          BY DEF Using
        <4>2. Cardinality(Using(c)) \in Nat
          BY <4>1, CountRequests
        <4>3. uses[c] \in Nat /\ uses[c] + Cardinality(Using(c)) <= Cardinality(Handler)
          BY <2>1, <3>1 DEF TypeOK, CInv, UsesInv
        <4> QED
          BY <2>1, <4>2, <4>3
      <3>2. CASE c \notin DOMAIN challenge
        BY <2>1, <3>2 DEF CInv, UsesInv
      <3> QED
        BY <3>1, <3>2
    <2> QED
      BY <2>2 DEF UseBound
  <1> QED
    BY <1>1, <1>2, Invariance, PTL
=============================================================================

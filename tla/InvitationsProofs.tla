--------------------------- MODULE InvitationsProofs ---------------------------
(***************************************************************************)
(* The link has one taker and the match one rematch, for any number of     *)
(* visitors, lost responses and matches.                                   *)
(*                                                                         *)
(* That two requests cannot both be told yes is decided by one UPDATE;     *)
(* that the one that was is held by a browser whose session is the user    *)
(* of that UPDATE takes more: no user belongs to two browsers (Owned), and *)
(* a request keeps its user to the end.                                    *)
(***************************************************************************)
EXTENDS Invitations, TLAPS

\* The user a visitor is, or will be when the response arrives.
known(v) == request[v].stage \in {"known", "won", "beaten"}

\* A visitor's users were made for it, and for no other.
Owned ==
  /\ \A v \in Visitor : cookie[v] # Host /\ request[v].user # Host
  /\ \A v, w \in Visitor :
       v # w =>
         /\ cookie[v] # Nobody => cookie[v] # cookie[w] /\ cookie[v] # request[w].user
         /\ request[v].user # Nobody => request[v].user # request[w].user

Taken ==
  /\ consumedBy # Host
  /\ \A v \in Visitor :
       /\ known(v) => request[v].user # Nobody
       /\ ~known(v) => request[v].user = Nobody
       /\ cookie[v] # Nobody /\ known(v) => cookie[v] = request[v].user
       /\ request[v].stage = "won" => request[v].user = consumedBy
  /\ \A v \in toldOk : cookie[v] = consumedBy /\ consumedBy # Nobody

Agreed ==
  /\ \A u \in Person : toldRematch[u] # Nobody => toldRematch[u] = rematch
  /\ \A u \in Person : asking[u] = "creating" => u \in Member

IInv == TypeOK /\ Owned /\ Taken /\ Agreed
------------------------------------------------------------------------------
LEMMA InitInv == Init => IInv
<1> SUFFICES ASSUME Init PROVE IInv
  OBVIOUS
<1> USE InvitationAssumption
<1>1. TypeOK
  <2>1. cookie \in [Browser -> 0 .. users]
    BY DEF Init, Nobody, Host
  <2>2. /\ request \in [Visitor -> [stage : {"none", "loaded", "known", "won", "beaten"},
                                   user : 0 .. users]]
        /\ toldRematch \in [Person -> 0 .. users]
    BY DEF Init, NoRequest, Request, Nobody
  <2>3. /\ users \in Person /\ consumedBy \in 0 .. users
        /\ started \in 0 .. MaxMatches /\ lost \in 0 .. MaxLost
    BY DEF Init, Person, Nobody
  <2>4. /\ rematch \in {Nobody} \cup Member
        /\ asking \in [Person -> {"none", "creating"}]
        /\ toldOk \subseteq Visitor /\ intent \subseteq Member
        /\ allowGuest \in BOOLEAN /\ expired \in BOOLEAN /\ playing \in BOOLEAN
    BY DEF Init
  <2> QED
    BY <2>1, <2>2, <2>3, <2>4 DEF TypeOK
<1>2. Owned
  BY DEF Init, Owned, Browser, NoRequest, Request, Nobody, Host
<1>3. Taken
  BY DEF Init, Taken, known, Browser, NoRequest, Request, Nobody, Host
<1>4. Agreed
  BY DEF Init, Agreed, Nobody
<1> QED
  BY <1>1, <1>2, <1>3, <1>4 DEF IInv

\* A request that only changes its stage and user keeps everything else.
LEMMA LoadInv == ASSUME IInv, NEW v \in Visitor, Load(v) PROVE IInv'
<1> USE InvitationAssumption DEF IInv, Load, Set, Request, rematches, play
<1>1. TypeOK'
  BY DEF TypeOK, Person, Nobody, Member
<1>2. Owned'
  BY DEF TypeOK, Owned, Nobody, Host
<1>3. Taken'
  BY DEF TypeOK, Taken, known, Nobody, Host
<1>4. Agreed'
  BY DEF Agreed, Member
<1> QED
  BY <1>1, <1>2, <1>3, <1>4

\* A guest is a new user, so nobody else's.
LEMMA IdentifyInv == ASSUME IInv, NEW v \in Visitor, Identify(v) PROVE IInv'
<1> USE InvitationAssumption DEF IInv
<1>0. Visitor \subseteq Browser
  BY DEF Browser
<1>1. UNCHANGED <<allowGuest, expired, consumedBy, cookie, toldOk, lost, rematches, play>>
  BY DEF Identify
<1>2. PICK stage \in {"none", "known"}, user \in 0 .. users' :
        /\ request' = [request EXCEPT ![v] = Request(stage, user)]
        /\ users' \in Person /\ users <= users'
        /\ \/ stage = "none" /\ user = Nobody
           \/ stage = "known" /\ user # Nobody /\ user = cookie[v]
           \/ stage = "known" /\ user > users /\ cookie[v] = Nobody
  <2>1. CASE cookie[v] # Nobody
    <3>1. /\ request' = [request EXCEPT ![v] = Request("known", cookie[v])]
          /\ users' = users
      BY <2>1 DEF Identify, Set
    <3>2. cookie[v] \in 0 .. users' /\ users' \in Person /\ users <= users'
      BY <1>0, <3>1 DEF TypeOK, Person
    <3> QED
      BY <2>1, <3>1, <3>2
  <2>2. CASE cookie[v] = Nobody /\ allowGuest
    <3>1. users' = users + 1 /\ users < MaxUsers /\ Set(v, "known", users + 1)
      BY <2>2 DEF Identify
    <3>2. request' = [request EXCEPT ![v] = Request("known", users')]
      BY <3>1 DEF Set
    <3>3. /\ users' \in Person /\ users <= users' /\ users' \in 0 .. users'
          /\ users' > users /\ users' # Nobody
      BY <3>1 DEF TypeOK, Person, Nobody
    <3> QED
      BY <2>2, <3>2, <3>3
  <2>3. CASE cookie[v] = Nobody /\ ~allowGuest
    BY <2>3 DEF Identify, NoRequest, TypeOK, Person, Nobody
  <2> QED
    BY <2>1, <2>2, <2>3 DEF TypeOK
<1>3. /\ request[v].stage = "loaded"
      /\ request \in [Visitor -> [stage : {"none", "loaded", "known", "won", "beaten"},
                                 user : 0 .. users]]
      /\ cookie \in [Browser -> 0 .. users] /\ users \in Nat \ {0}
  BY DEF Identify, TypeOK, Person
<1>4. /\ request'[v].stage = stage /\ request'[v].user = user
      /\ \A w \in Visitor : w # v => request'[w] = request[w]
  BY <1>2, <1>3 DEF Request
<1>5. TypeOK'
  <2>1. request' \in [Visitor -> [stage : {"none", "loaded", "known", "won", "beaten"},
                                 user : 0 .. users']]
    BY <1>2, <1>3 DEF Request, TypeOK, Person
  <2>2. Member' = Member
    BY <1>1 DEF Member
  <2> QED
    BY <1>1, <1>2, <2>1, <2>2 DEF TypeOK, Person, rematches, play
<1>6. \A w \in Visitor :
        cookie[w] <= users /\ request[w].user <= users /\ cookie[w] \in Nat
        /\ request[w].user \in Nat
  BY <1>0, <1>3
<1>7. Owned'
  BY <1>1, <1>2, <1>3, <1>4, <1>6, SMTT(30) DEF Owned, Nobody, Host
<1>8. Taken'
  BY <1>1, <1>2, <1>3, <1>4 DEF Taken, known, Nobody
<1>9. Agreed'
  BY <1>1 DEF Agreed, Member, rematches
<1> QED
  BY <1>5, <1>7, <1>8, <1>9

LEMMA TakeInv == ASSUME IInv, NEW v \in Visitor, Take(v) PROVE IInv'
<1> USE InvitationAssumption DEF IInv, Take, Set, Request, rematches, play
<1>0. Visitor \subseteq Browser
  BY DEF Browser
<1>1. TypeOK'
  <2>1. consumedBy' \in 0 .. users /\ Member \subseteq Member'
    BY DEF TypeOK, Member, Nobody
  <2>2. request' \in [Visitor -> [stage : {"none", "loaded", "known", "won", "beaten"},
                                 user : 0 .. users]]
    BY DEF TypeOK
  <2> QED
    BY <2>1, <2>2 DEF TypeOK, Person
<1>2. Owned'
  BY DEF TypeOK, Owned, Nobody, Host
<1>3. Taken'
  BY <1>0 DEF TypeOK, Taken, Owned, known, Nobody, Host
<1>4. Agreed'
  BY DEF Agreed, Member, Nobody
<1> QED
  BY <1>1, <1>2, <1>3, <1>4

LEMMA AnswerInv == ASSUME IInv, NEW v \in Visitor, Answer(v) PROVE IInv'
<1> USE InvitationAssumption DEF IInv, Answer, NoRequest, Request, rematches, play
<1>0. v \in Browser /\ Visitor \subseteq Browser
  BY DEF Browser
<1>1. TypeOK'
  BY <1>0 DEF TypeOK, Person, Nobody, Host, Member
<1>2. Owned'
  BY <1>0 DEF TypeOK, Owned, Taken, known, Nobody, Host
<1>3. Taken'
  BY <1>0 DEF TypeOK, Taken, known, Nobody, Host
<1>4. Agreed'
  BY DEF Agreed, Member
<1> QED
  BY <1>1, <1>2, <1>3, <1>4

LEMMA LoseAnswerInv == ASSUME IInv, NEW v \in Visitor, LoseAnswer(v) PROVE IInv'
<1> USE InvitationAssumption DEF IInv, LoseAnswer, NoRequest, Request, rematches, play
<1>0. Visitor \subseteq Browser
  BY DEF Browser
<1>1. TypeOK'
  BY DEF TypeOK, Person, Nobody, Host, Member
<1>2. Owned'
  BY DEF TypeOK, Owned, Nobody, Host
<1>3. Taken'
  BY DEF TypeOK, Taken, known, Nobody, Host
<1>4. Agreed'
  BY DEF Agreed, Member
<1> QED
  BY <1>1, <1>2, <1>3, <1>4

LEMMA JoinInv == ASSUME IInv, NEW b \in Browser, Join(b) PROVE IInv'
<1> USE DEF IInv, Join, mayJoin, web, rematches
<1>1. TypeOK'
  <2>1. Member' = Member
    BY DEF Member
  <2>2. intent' \subseteq Member
    BY DEF TypeOK
  <2>3. started' \in 0 .. MaxMatches
    BY InvitationAssumption, SMT DEF TypeOK
  <2>4. playing' \in BOOLEAN
    BY DEF TypeOK
  <2> QED
    BY <2>1, <2>2, <2>3, <2>4 DEF TypeOK
<1>2. Owned' /\ Taken' /\ Agreed'
  BY DEF Owned, Taken, Agreed, known, Member
<1> QED
  BY <1>1, <1>2

LEMMA RematchInv ==
  ASSUME IInv, NEW u \in Person, AskRematch(u) \/ CreateRematch(u)
  PROVE  IInv'
<1> USE DEF IInv, AskRematch, CreateRematch, Tell, web, play
<1>0. u # Nobody
  BY InvitationAssumption DEF Person, Nobody
<1>1. TypeOK'
  <2>1. Member' = Member
    BY DEF Member
  <2>2. rematch' \in {Nobody} \cup Member
    BY DEF TypeOK, Agreed
  <2>3. asking' \in [Person -> {"none", "creating"}]
    BY DEF TypeOK
  <2>4. rematch \in 0 .. users /\ rematch' \in 0 .. users
    BY <2>2, InvitationAssumption DEF TypeOK, Member, Person, Nobody, Host
  <2>5. toldRematch' \in [Person -> 0 .. users]
    BY <2>4 DEF TypeOK
  <2> QED
    BY <2>1, <2>2, <2>3, <2>5 DEF TypeOK
<1>2. Owned' /\ Taken'
  BY DEF Owned, Taken, known
<1>3. Agreed'
  BY <1>0 DEF TypeOK, Agreed, Member, Nobody
<1> QED
  BY <1>1, <1>2, <1>3

LEMMA NextInv == IInv /\ [Next]_vars => IInv'
<1> SUFFICES ASSUME IInv, [Next]_vars PROVE IInv'
  OBVIOUS
<1>1. CASE Expire \/ Finish
  <2>1. /\ UNCHANGED <<web, rematches, allowGuest, intent, started>>
        /\ expired' \in BOOLEAN /\ playing' \in BOOLEAN
    BY <1>1 DEF IInv, TypeOK, Expire, Finish, play
  <2> QED
    BY <2>1 DEF IInv, TypeOK, Owned, Taken, Agreed, known, Member, web, rematches
<1>2. ASSUME NEW v \in Visitor,
             Load(v) \/ Identify(v) \/ Take(v) \/ Answer(v) \/ LoseAnswer(v)
      PROVE  IInv'
  BY <1>2, LoadInv, IdentifyInv, TakeInv, AnswerInv, LoseAnswerInv
<1>3. ASSUME NEW b \in Browser, Join(b) PROVE IInv'
  BY <1>3, JoinInv
<1>4. ASSUME NEW u \in Person, AskRematch(u) \/ CreateRematch(u) PROVE IInv'
  BY <1>4, RematchInv
<1>5. CASE UNCHANGED vars
  BY <1>5 DEF IInv, TypeOK, Owned, Taken, Agreed, known, Member, vars, web, rematches, play
<1> QED
  BY <1>1, <1>2, <1>3, <1>4, <1>5 DEF Next

LEMMA InvHolds == Spec => []IInv
<1> QED
  BY InitInv, NextInv, PTL DEF Spec
------------------------------------------------------------------------------
\* Type correctness; the members who wait in the gateway are members by the row.
THEOREM TypeCorrect == Spec => []TypeOK
<1>1. IInv => TypeOK
  BY DEF IInv
<1> QED
  BY <1>1, InvHolds, PTL

\* Whoever is told that the challenge is theirs can join it, and one visitor at most is
\* told: two who press at once, and one whose answer was lost and who presses again.
THEOREM OneTaker == Spec => []ToldOkIsMember
<1>1. IInv => ToldOkIsMember
  BY DEF IInv, TypeOK, Taken, Owned, ToldOkIsMember
<1> QED
  BY <1>1, InvHolds, PTL

\* Both players who ask for a rematch are sent to one challenge.
THEOREM RematchesAgree == Spec => []OneRematch
<1>1. IInv => OneRematch
  BY DEF IInv, Agreed, OneRematch
<1> QED
  BY <1>1, InvHolds, PTL
==============================================================================

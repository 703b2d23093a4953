-------------------------- MODULE ComponentsProofs --------------------------
(***************************************************************************)
(* Proofs about the components of one call, for any values of their        *)
(* parameters.  Each section is about one component: its inductive         *)
(* invariant, the proof that its steps preserve it, and the theorem that   *)
(* the property holds of every behaviour of Components.                    *)
(***************************************************************************)
EXTENDS Components, UnitsProofs, SequenceTheorems

-----------------------------------------------------------------------------
(***************************************************************************)
(* Requests to a provider.  The invariant measures, at every step of the   *)
(* three nested loops, how much of the bound the finished iterations have  *)
(* used up: an iteration of an outer loop is charged in full as soon as it *)
(* is over, so a retry at any level always finds the room that its own     *)
(* iterations need.                                                        *)
(***************************************************************************)

\* Requests that t whole attempts of the fallback loop and r whole dispatches
\* of the next one may send.
Room(t, r) == t * (2 * (MaxRetries + 1)) + r * (MaxRetries + 1)

ClientCounters ==
    /\ try \in 0..FallbackRetries /\ round \in 0..1
    /\ attempt \in 0..MaxRetries /\ sends \in Nat

ClientCharged ==
    /\ clientPc \in {"entry", "admit"} => sends <= Room(try, 0)
    /\ clientPc = "prepare" => sends <= Room(try, round)
    /\ clientPc \in {"authorize", "acquire", "send"} => sends <= Room(try, round) + attempt
    /\ clientPc \in {"headers", "body"} => sends <= Room(try, round) + attempt + 1
    /\ clientPc = "validate" => sends <= Room(try, round + 1)
    /\ sends <= Room(try, 2)
    /\ clientPc = "entry" => sends = 0

ClientInv == ClientCounters /\ ClientCharged

\* The retry limits are numbers.
LEMMA Retries == FallbackRetries \in Nat /\ MaxRetries \in Nat
  BY ComponentsAssumption DEF ComponentsAssumption

\* The arithmetic of the bound.
LEMMA RoomNat ==
  ASSUME NEW t \in Nat, NEW r \in Nat
  PROVE  Room(t, r) \in Nat
  BY Retries DEF Room

\* A further round adds one request and its retries to what a try may send.
LEMMA RoomNext ==
  ASSUME NEW t \in Nat, NEW r \in Nat
  PROVE  Room(t, r + 1) = Room(t, r) + MaxRetries + 1
  BY Retries DEF Room

\* A new try begins where the last one's rounds end.
LEMMA RoomWhole ==
  ASSUME NEW t \in Nat
  PROVE  Room(t + 1, 0) = Room(t, 2)
  BY Retries DEF Room

\* No try has more room than the last one.
LEMMA RoomGrows ==
  ASSUME NEW t \in 0..FallbackRetries
  PROVE  Room(t, 2) <= Room(FallbackRetries, 2)
<1> DEFINE m == 2 * (MaxRetries + 1)
<1>1. m \in Nat /\ t \in Nat /\ t <= FallbackRetries BY Retries
<1>2. t * m <= FallbackRetries * m BY <1>1, Scaled, Retries
<1>3. t * m \in Nat /\ FallbackRetries * m \in Nat BY <1>1, Retries
<1> HIDE DEF m
<1>4. Room(t, 2) = t * m + m /\ Room(FallbackRetries, 2) = FallbackRetries * m + m
  BY <1>1, Retries DEF Room, m
<1> QED BY <1>1, <1>2, <1>3, <1>4

\* The invariant holds before a call is made.
LEMMA InitClient == Client!Init => ClientInv
  BY RoomNat, Retries DEF Client!Init, ClientInv, ClientCounters, ClientCharged

\* What the loops are charged for at the present place, one after the other.
LEMMA Rooms ==
  ASSUME ClientCounters
  PROVE  /\ Room(try, 0) \in Nat /\ Room(try, 1) \in Nat /\ Room(try, 2) \in Nat
         /\ Room(try, 1) = Room(try, 0) + MaxRetries + 1
         /\ Room(try, 2) = Room(try, 1) + MaxRetries + 1
         /\ Room(try + 1, 0) = Room(try, 2)
         /\ Room(try + 1, 1) = Room(try, 2) + MaxRetries + 1
         /\ Room(try + 1, 2) = Room(try, 2) + MaxRetries + 1 + MaxRetries + 1
         /\ Room(0, 0) = 0 /\ Room(0, 2) \in Nat
         /\ round = 0 \/ round = 1
<1>1. try \in Nat /\ try + 1 \in Nat /\ 0 \in Nat /\ 1 \in Nat /\ 2 \in Nat
      /\ (round = 0 \/ round = 1)
  BY Retries DEF ClientCounters
<1>2. Room(try, 0) \in Nat /\ Room(try, 1) \in Nat /\ Room(try, 2) \in Nat
      /\ Room(0, 2) \in Nat
  BY <1>1, RoomNat
<1>3. Room(try, 0 + 1) = Room(try, 0) + MaxRetries + 1
      /\ Room(try, 1 + 1) = Room(try, 1) + MaxRetries + 1
  BY <1>1, RoomNext
<1>4. Room(try + 1, 0) = Room(try, 2) BY <1>1, RoomWhole
<1>5. Room(try + 1, 0 + 1) = Room(try + 1, 0) + MaxRetries + 1
      /\ Room(try + 1, 1 + 1) = Room(try + 1, 1) + MaxRetries + 1
  BY <1>1, RoomNext
<1>6. 0 + 1 = 1 /\ 1 + 1 = 2 OBVIOUS
<1>7. Room(0, 0) = 0 BY Retries, SMTT(30) DEF Room
<1> QED BY <1>1, <1>2, <1>3, <1>4, <1>5, <1>6, <1>7

\* Every step of a call keeps the invariant.
LEMMA NextClient ==
  ASSUME ClientInv, [Client!Next]_(Client!vars)
  PROVE  ClientInv'
<1> USE Rooms, Retries DEF ClientInv, ClientCounters, ClientCharged
<1>1. ASSUME Client!EntrySkipped PROVE ClientInv'
  BY <1>1 DEF Client!EntrySkipped, Client!NextEntry
<1>2. ASSUME Client!EntryBegins PROVE ClientInv'
  BY <1>2 DEF Client!EntryBegins
<1>3. ASSUME Client!BreakerRefuses PROVE ClientInv'
  BY <1>3 DEF Client!BreakerRefuses, Client!NextEntry
<1>4. ASSUME Client!BreakerAdmits PROVE ClientInv'
  BY <1>4 DEF Client!BreakerAdmits
<1>5. ASSUME Client!EntryFails PROVE ClientInv'
  BY <1>5 DEF Client!EntryFails, Client!NextEntry
<1>6. ASSUME Client!ChainEnds PROVE ClientInv'
  BY <1>6 DEF Client!ChainEnds, Client!loops
<1>7. ASSUME Client!Prepares PROVE ClientInv'
  BY <1>7 DEF Client!Prepares, Client!Fails, Client!loops
<1>8. ASSUME Client!Authorizes PROVE ClientInv'
  BY <1>8 DEF Client!Authorizes, Client!Fails, Client!loops
<1>9. ASSUME Client!Acquires PROVE ClientInv'
  BY <1>9 DEF Client!Acquires, Client!Fails, Client!loops
<1>10. ASSUME Client!Sends PROVE ClientInv'
  BY <1>10 DEF Client!Sends, Client!loops
<1>11. ASSUME Client!SendTooLate PROVE ClientInv'
  BY <1>11 DEF Client!SendTooLate, Client!Fails, Client!loops
<1>12. ASSUME Client!SignFails PROVE ClientInv'
  BY <1>12 DEF Client!SignFails, Client!ClosesAndFails, Client!Fails, Client!loops
<1>13. ASSUME Client!HeadersTimeOut PROVE ClientInv'
  BY <1>13 DEF Client!HeadersTimeOut, Client!RetriesOr, Client!ClosesAndRetries, Client!ClosesAndFails, Client!Fails, Client!loops
<1>14. ASSUME Client!TransportFails PROVE ClientInv'
  BY <1>14 DEF Client!TransportFails, Client!RetriesOr, Client!ClosesAndRetries, Client!ClosesAndFails, Client!Fails, Client!loops
<1>15. ASSUME Client!ObservationFails PROVE ClientInv'
  BY <1>15 DEF Client!ObservationFails, Client!Fails, Client!loops
<1>16. ASSUME NEW s, Client!RetryableStatus(s) PROVE ClientInv'
  BY <1>16 DEF Client!RetryableStatus, Client!RetriesOr, Client!ClosesAndRetries, Client!ClosesAndFails, Client!Fails, Client!loops
<1>17. ASSUME NEW s, Client!FinalStatus(s) PROVE ClientInv'
  BY <1>17 DEF Client!FinalStatus, Client!ClosesAndFails, Client!Fails, Client!loops
<1>18. ASSUME Client!Refreshes PROVE ClientInv'
  BY <1>18 DEF Client!Refreshes
<1>19. ASSUME Client!Succeeds PROVE ClientInv'
  BY <1>19 DEF Client!Succeeds, Client!loops
<1>20. ASSUME NEW f, Client!BodyFails(f) PROVE ClientInv'
  BY <1>20 DEF Client!BodyFails, Client!ClosesAndFails, Client!Fails, Client!loops
<1>21. ASSUME Client!BodyComplete PROVE ClientInv'
  BY <1>21 DEF Client!BodyComplete, Client!loops
<1>22. ASSUME Client!Accepted PROVE ClientInv'
  BY <1>22 DEF Client!Accepted, Client!loops
<1>23. ASSUME Client!Repairs PROVE ClientInv'
  BY <1>23 DEF Client!Repairs
<1>24. ASSUME Client!Rejected PROVE ClientInv'
  BY <1>24 DEF Client!Rejected, Client!Fails, Client!loops
<1>25. ASSUME Client!CallerDrops PROVE ClientInv'
  BY <1>25 DEF Client!CallerDrops, Client!loops
<1>26. ASSUME Client!LogicalDeadlinePasses PROVE ClientInv'
  BY <1>26 DEF Client!LogicalDeadlinePasses, Client!loops
<1>27. CASE UNCHANGED Client!vars
  BY <1>27 DEF Client!vars, Client!loops
<1> QED
  BY <1>1, <1>2, <1>3, <1>4, <1>5, <1>6, <1>7, <1>8, <1>9, <1>10, <1>11, <1>12, <1>13,
     <1>14, <1>15, <1>16, <1>17, <1>18, <1>19, <1>20, <1>21, <1>22, <1>23, <1>24, <1>25, <1>26, <1>27
  DEF Client!Next, Client!Falls, Client!Transports, Client!Validates

\* For every chain and every number of retries, one entry of the chain causes
\* at most (fallback attempts) x (answer and repair) x (transport attempts)
\* requests (fallback.rs over client.rs).
THEOREM SendsBoundedHolds == Spec => []SendsBounded
<1> DEFINE Inv == component = "client" => ClientInv
<1>1. Init => Inv
  BY InitClient DEF Init
<1>2. Inv /\ [Next]_vars => Inv'
  <2> SUFFICES ASSUME ClientInv, component = "client", [Next]_vars PROVE ClientInv'
    BY DEF Next, vars
  <2>1. [Client!Next]_(Client!vars)
    BY DEF Next, vars, clientVars, Client!vars, Client!loops, Client!policy
  <2> QED BY <2>1, NextClient
<1>3. Inv => SendsBounded
  <2> SUFFICES ASSUME ClientInv PROVE Client!SendsBounded
    BY DEF SendsBounded
  <2>1. sends <= Room(try, 2) /\ Room(try, 2) <= Room(FallbackRetries, 2)
    BY RoomGrows DEF ClientInv, ClientCounters, ClientCharged
  <2>2. Room(FallbackRetries, 2) = (FallbackRetries + 1) * 2 * (MaxRetries + 1)
    BY Retries DEF Room
  <2>3. Room(try, 2) \in Nat /\ Room(FallbackRetries, 2) \in Nat /\ sends \in Nat
    BY RoomNat, Rooms, Retries DEF ClientInv, ClientCounters
  <2> QED BY <2>1, <2>2, <2>3 DEF Client!SendsBounded
<1> QED BY <1>1, <1>2, <1>3, PTL DEF Spec

-----------------------------------------------------------------------------
(***************************************************************************)
(* The shared login file.  A refresh token is in play in three places: the *)
(* file, the hands of the lock's holder, and the hands of logins that      *)
(* still wait for the lock.  The invariant says that the file's token was  *)
(* presented only by an exchange still under way, or excused since; and    *)
(* that a login's token is nobody else's.                                  *)
(***************************************************************************)

OAuthToken == [refresh : Nat, usable : BOOLEAN]
OAuthTask == {"idle", "refresh", "login", "logout", "reread", "exchange", "save",
         "store", "remove"}
Critical == {"reread", "exchange", "save", "store", "remove"}
Exchanging == {"exchange", "save"}
LoggingIn == {"login", "store"}

OAuthType ==
    /\ file \in OAuthToken /\ tokens \in [Process -> OAuthToken]
    /\ task \in [Process -> OAuthTask]
    /\ grants \in Nat /\ presented \subseteq 1..grants /\ excused \subseteq Nat

\* Whoever is past lock() holds it.
LockHeld == \A p \in Process : task[p] \in Critical => lock = p

\* Every token that may still come into the file was granted.
Granted ==
    /\ file.refresh <= grants
    /\ \A p \in Process : tokens[p].refresh <= grants

\* An exchange works on the file's token.
OnFile ==
    /\ \A p \in Process : task[p] = "exchange" =>
          file.refresh = tokens[p].refresh /\ file.refresh \in presented
    /\ \A p \in Process : task[p] = "save" =>
          /\ file.refresh \in presented
          /\ tokens[p].refresh \in presented => tokens[p].refresh \in excused

\* The file's token is fresh, excused, or being exchanged.
FileFresh ==
    file.refresh \in presented =>
        file.refresh \in excused \/ \E p \in Process : task[p] \in Exchanging

\* A login's token is its own.
LoginFresh ==
    \A p \in Process : task[p] \in LoggingIn =>
        /\ tokens[p].refresh \notin presented \cup {0, file.refresh}
        /\ \A q \in Process : q # p /\ task[q] \in LoggingIn \cup {"save"} =>
              tokens[q].refresh # tokens[p].refresh

NeverAgain == again = FALSE

OAuthCore == OAuthType /\ LockHeld /\ Granted
OAuthInv == OAuthCore /\ OnFile /\ FileFresh /\ LoginFresh /\ NeverAgain

\* The tokens the module makes.
LEMMA NothingToken == OAuth!Nothing \in OAuthToken /\ OAuth!Nothing.refresh = 0
  BY DEF OAuth!Nothing, OAuthToken

\* Refresh tokens are numbered.
LEMMA TokenNat == ASSUME NEW t \in OAuthToken PROVE t.refresh \in Nat
  BY DEF OAuthToken

\* A token that was just granted is well typed.
LEMMA NewToken ==
  ASSUME NEW n \in Nat
  PROVE  [refresh |-> n, usable |-> TRUE] \in OAuthToken
  BY DEF OAuthToken

\* A token kept in force keeps its number.
LEMMA TokenUsable ==
  ASSUME NEW t \in OAuthToken
  PROVE  /\ [t EXCEPT !.usable = TRUE] \in OAuthToken
         /\ [t EXCEPT !.usable = TRUE].refresh = t.refresh
  BY DEF OAuthToken

\* A token that lapses keeps its number.
LEMMA TokenLapsed ==
  ASSUME NEW t \in OAuthToken
  PROVE  /\ [t EXCEPT !.usable = FALSE] \in OAuthToken
         /\ [t EXCEPT !.usable = FALSE].refresh = t.refresh
  BY DEF OAuthToken

\* The invariant holds of the first login.
LEMMA InitOAuth == OAuth!Init => OAuthInv
  BY NothingToken
  DEF OAuth!Init, OAuthInv, OAuthCore, OAuthType, LockHeld, Granted, OnFile, FileFresh, LoginFresh,
      NeverAgain, OAuthTask, Critical, Exchanging, LoggingIn

\* Every step of a process or of the server keeps the invariant.
LEMMA NextOAuth ==
  ASSUME OAuthInv, [OAuth!Next]_(OAuth!vars)
  PROVE  OAuthInv'
<1>0. OAuth!Nobody \notin Process
  BY ComponentsAssumption DEF ComponentsAssumption
<1> USE <1>0, NothingToken, TokenNat DEF OAuthInv, OAuthCore, OAuthType, OAuthTask, Critical, Exchanging, LoggingIn
<1>1. ASSUME NEW p \in Process, OAuth!Credentials(p) PROVE OAuthInv'
  <2> USE <1>1 DEF OAuth!Credentials, OAuth!Goes, OAuth!Holds, OAuth!server
  <2>1. OAuthCore' BY DEF LockHeld, Granted
  <2>2. OnFile' BY DEF OnFile
  <2>3. FileFresh' BY DEF FileFresh
  <2>4. LoginFresh' BY DEF LoginFresh
  <2>5. NeverAgain' BY DEF NeverAgain
  <2> QED BY <2>1, <2>2, <2>3, <2>4, <2>5
<1>2. ASSUME NEW p \in Process, OAuth!LoginGranted(p) PROVE OAuthInv'
  <2> USE <1>2, NewToken DEF OAuth!LoginGranted, OAuth!Goes, OAuth!Holds
  <2>1. OAuthCore' BY DEF LockHeld, Granted
  <2>2. OnFile' BY DEF OnFile
  <2>3. FileFresh' BY DEF FileFresh
  <2>4. LoginFresh' BY DEF LoginFresh, Granted
  <2>5. NeverAgain' BY DEF NeverAgain
  <2> QED BY <2>1, <2>2, <2>3, <2>4, <2>5
<1>3. ASSUME NEW p \in Process, OAuth!Logout(p) PROVE OAuthInv'
  <2> USE <1>3 DEF OAuth!Logout, OAuth!Goes, OAuth!server
  <2>1. OAuthCore' BY DEF LockHeld, Granted
  <2>2. OnFile' BY DEF OnFile
  <2>3. FileFresh' BY DEF FileFresh
  <2>4. LoginFresh' BY DEF LoginFresh
  <2>5. NeverAgain' BY DEF NeverAgain
  <2> QED BY <2>1, <2>2, <2>3, <2>4, <2>5
<1>4. ASSUME NEW p \in Process, OAuth!Locks(p) PROVE OAuthInv'
  <2> USE <1>4 DEF OAuth!Locks, OAuth!Goes, OAuth!server
  <2>1. OAuthCore' BY DEF LockHeld, Granted
  <2>2. OnFile' BY DEF OnFile
  <2>3. FileFresh' BY DEF FileFresh
  <2>4. LoginFresh' BY DEF LoginFresh
  <2>5. NeverAgain' BY DEF NeverAgain
  <2> QED BY <2>1, <2>2, <2>3, <2>4, <2>5
<1>5. ASSUME NEW p \in Process, OAuth!LockTimesOut(p) PROVE OAuthInv'
  <2> USE <1>5 DEF OAuth!LockTimesOut, OAuth!Ends, OAuth!Goes, OAuth!Holds, OAuth!server
  <2>1. OAuthCore' BY DEF LockHeld, Granted
  <2>2. OnFile' BY DEF OnFile
  <2>3. FileFresh' BY DEF FileFresh
  <2>4. LoginFresh' BY DEF LoginFresh
  <2>5. NeverAgain' BY DEF NeverAgain
  <2> QED BY <2>1, <2>2, <2>3, <2>4, <2>5
<1>6. ASSUME NEW p \in Process, OAuth!Reread(p) PROVE OAuthInv'
  <2> USE <1>6 DEF OAuth!Reread, OAuth!Ends, OAuth!Goes, OAuth!Holds
  <2>0. \A q \in Process : q # p => task[q] \notin Critical
    BY DEF LockHeld
  <2>1. OAuthCore'
    <3>1. file.refresh \in Nat /\ (file.refresh # 0 => file.refresh \in 1..grants)
      BY DEF Granted
    <3>2. OAuthType' BY <3>1
    <3>3. LockHeld' BY <2>0 DEF LockHeld
    <3>4. Granted' BY <3>1 DEF Granted
    <3> QED BY <3>2, <3>3, <3>4
  <2>2. OnFile' BY <2>0 DEF OnFile
  <2>3. FileFresh' BY <2>0 DEF FileFresh
  <2>4. LoginFresh' BY DEF LoginFresh
  <2>5. NeverAgain' BY <2>0 DEF NeverAgain, FileFresh
  <2> QED BY <2>1, <2>2, <2>3, <2>4, <2>5
<1>7. ASSUME NEW p \in Process, OAuth!Exchanged(p) PROVE OAuthInv'
  <2> USE <1>7, NewToken, TokenUsable DEF OAuth!Exchanged, OAuth!Goes, OAuth!Holds
  <2>0. grants + 1 \in Nat /\ grants + 1 \notin presented /\ grants' \in Nat
        /\ grants <= grants'
    OBVIOUS
  <2>a. \/ tokens'[p].refresh = grants + 1 /\ grants' = grants + 1
        \/ tokens'[p].refresh = tokens[p].refresh /\ grants' = grants
    <3>1. tokens[p] \in OAuthToken OBVIOUS
    <3>2. \/ tokens'[p] = [refresh |-> grants + 1, usable |-> TRUE] /\ grants' = grants + 1
          \/ tokens'[p] = [tokens[p] EXCEPT !.usable = TRUE] /\ grants' = grants
      OBVIOUS
    <3>3. [refresh |-> grants + 1, usable |-> TRUE].refresh = grants + 1 OBVIOUS
    <3>4. [tokens[p] EXCEPT !.usable = TRUE].refresh = tokens[p].refresh
      BY <3>1, TokenUsable
    <3> HIDE <1>7
    <3> QED BY <3>2, <3>3, <3>4
  <2>b. \A q \in Process : q # p => task'[q] = task[q] /\ tokens'[q] = tokens[q]
    OBVIOUS
  <2>1. OAuthCore'
    <3>1. tokens' \in [Process -> OAuthToken] BY <2>0
    <3>2. presented' \subseteq 1..grants' BY <2>0
    <3>3. excused' \subseteq Nat OBVIOUS
    <3>4. OAuthType' BY <2>0, <3>1, <3>2, <3>3
    <3>5. LockHeld' BY DEF LockHeld
    <3>6. Granted'
      <4>1. file'.refresh <= grants' BY <2>0 DEF Granted
      <4>2. tokens'[p].refresh <= grants' BY <2>0, <2>a DEF Granted
      <4>3. \A q \in Process : q # p => tokens'[q].refresh <= grants'
        BY <2>0, <2>b DEF Granted
      <4> QED BY <4>1, <4>2, <4>3 DEF Granted
    <3> QED BY <3>4, <3>5, <3>6
  <2>2. OnFile'
    <3>1. file.refresh = tokens[p].refresh /\ file.refresh \in presented
      BY DEF OnFile
    <3>2. tokens'[p].refresh \in presented => tokens'[p].refresh \in excused'
      BY <2>0, ZenonT(40)
    <3> QED BY <3>1, <3>2 DEF OnFile
  <2>3. FileFresh' BY DEF FileFresh
  <2>4. LoginFresh'
    <3>1. file.refresh = tokens[p].refresh BY DEF OnFile
    <3>2. \A q \in Process : tokens[q].refresh # grants + 1 BY DEF Granted
    <3> QED BY <3>1, <2>a, <2>b, <3>2 DEF LoginFresh
  <2>5. NeverAgain' BY DEF NeverAgain
  <2> QED BY <2>1, <2>2, <2>3, <2>4, <2>5
<1>8. ASSUME NEW p \in Process, OAuth!ExchangeFails(p) PROVE OAuthInv'
  <2> USE <1>8 DEF OAuth!ExchangeFails, OAuth!Ends, OAuth!Goes, OAuth!Holds
  <2>1. OAuthCore'
    <3>1. excused' \subseteq Nat OBVIOUS
    <3>2. OAuthType' BY <3>1
    <3>3. LockHeld' BY DEF LockHeld
    <3>4. Granted' BY DEF Granted
    <3> QED BY <3>2, <3>3, <3>4
  <2>2. OnFile' BY DEF OnFile
  <2>3. FileFresh' BY DEF FileFresh, OnFile
  <2>4. LoginFresh' BY DEF LoginFresh
  <2>5. NeverAgain' BY DEF NeverAgain
  <2> QED BY <2>1, <2>2, <2>3, <2>4, <2>5
<1>9. ASSUME NEW p \in Process, OAuth!Save(p) PROVE OAuthInv'
  <2> USE <1>9 DEF OAuth!Save, OAuth!Ends, OAuth!Goes, OAuth!Holds, OAuth!server
  <2>0. \A q \in Process : q # p => task[q] \notin Critical
    BY DEF LockHeld
  <2>1. OAuthCore' BY <2>0 DEF LockHeld, Granted
  <2>2. OnFile' BY <2>0 DEF OnFile
  <2>3. FileFresh' BY DEF FileFresh, OnFile, LoginFresh
  <2>4. LoginFresh' BY DEF LoginFresh
  <2>5. NeverAgain' BY DEF NeverAgain
  <2> QED BY <2>1, <2>2, <2>3, <2>4, <2>5
<1>10. ASSUME NEW p \in Process, OAuth!Remove(p) PROVE OAuthInv'
  <2> USE <1>10 DEF OAuth!Remove, OAuth!Ends, OAuth!Goes, OAuth!Holds, OAuth!server
  <2>0. \A q \in Process : q # p => task[q] \notin Critical
    BY DEF LockHeld
  <2>1. OAuthCore' BY <2>0 DEF LockHeld, Granted
  <2>2. OnFile' BY <2>0 DEF OnFile
  <2>3. FileFresh' BY DEF FileFresh
  <2>4. LoginFresh' BY DEF LoginFresh
  <2>5. NeverAgain' BY DEF NeverAgain
  <2> QED BY <2>1, <2>2, <2>3, <2>4, <2>5
<1>11. ASSUME NEW p \in Process, OAuth!Crash(p) PROVE OAuthInv'
  <2> USE <1>11 DEF OAuth!Crash, OAuth!Ends, OAuth!Goes, OAuth!Holds
  <2>1. OAuthCore'
    <3>1. excused' \subseteq Nat OBVIOUS
    <3>2. OAuthType' BY <3>1
    <3>3. LockHeld' BY DEF LockHeld
    <3>4. Granted' BY DEF Granted
    <3> QED BY <3>2, <3>3, <3>4
  <2>2. OnFile' BY DEF OnFile
  <2>3. FileFresh' BY DEF FileFresh
  <2>4. LoginFresh' BY DEF LoginFresh
  <2>5. NeverAgain' BY DEF NeverAgain
  <2> QED BY <2>1, <2>2, <2>3, <2>4, <2>5
<1>12. ASSUME OAuth!Lapses PROVE OAuthInv'
  <2> USE <1>12, TokenLapsed DEF OAuth!Lapses, OAuth!server
  <2>1. OAuthCore' BY DEF LockHeld, Granted
  <2>2. OnFile' BY DEF OnFile
  <2>3. FileFresh' BY DEF FileFresh
  <2>4. LoginFresh' BY DEF LoginFresh
  <2>5. NeverAgain' BY DEF NeverAgain
  <2> QED BY <2>1, <2>2, <2>3, <2>4, <2>5
<1>13. CASE UNCHANGED OAuth!vars
  BY <1>13 DEF OAuth!vars, LockHeld, Granted, OnFile, FileFresh, LoginFresh, NeverAgain
<1> QED
  BY <1>1, <1>2, <1>3, <1>4, <1>5, <1>6, <1>7, <1>8, <1>9, <1>10, <1>11, <1>12, <1>13
  DEF OAuth!Next, OAuth!Uses

\* For any processes, whatever overlaps and crashes, no spent refresh token is
\* presented again and a refresh replaces the very file it read
\* (ChatGptAuth::credentials, poll_login and logout over storage.rs).
THEOREM RefreshExclusiveHolds == Spec => []RefreshExclusive
<1> DEFINE Inv == component = "oauth" => OAuthInv
<1>1. Init => Inv
  BY InitOAuth DEF Init
<1>2. Inv /\ [Next]_vars => Inv'
  <2> SUFFICES ASSUME OAuthInv, component = "oauth", [Next]_vars PROVE OAuthInv'
    BY DEF Next, vars
  <2>1. [OAuth!Next]_(OAuth!vars)
    BY DEF Next, vars, oauthVars, OAuth!vars
  <2> QED BY <2>1, NextOAuth
<1>3. Inv => RefreshExclusive
  BY DEF OAuthInv, OnFile, NeverAgain, RefreshExclusive, OAuth!RefreshExclusive
<1> QED BY <1>1, <1>2, <1>3, PTL DEF Spec

-----------------------------------------------------------------------------
(***************************************************************************)
(* Redis connections.  That the cached connection is a sound one is not    *)
(* inductive by itself: a call that comes to connect must find every       *)
(* earlier generation spoiled, which holds because only the call in the    *)
(* creation mutex connects and nothing is cached while it does.            *)
(***************************************************************************)

ConnStep == {"idle", "creation", "connect", "use"}

ConnType ==
    /\ current \in Nat /\ made \in Nat
    /\ connectionAt \in [Call -> ConnStep] /\ with \in [Call -> Nat]
    /\ spoiled \subseteq 1..made

\* One call at a time connects, and only while nothing is cached.
OneConnects == \A c \in Call : connectionAt[c] = "connect" => creation = c /\ current = 0

\* Calls use, and the cache holds, connections that were made.
UsesMade ==
    /\ current <= made
    /\ \A c \in Call : connectionAt[c] = "use" => with[c] \in 1..made

ConnInv == ConnType /\ OneConnects /\ UsesMade /\ Conn!SoundOneCached

\* The invariant holds before there is a connection.
LEMMA InitConn == Conn!Init => ConnInv
  BY DEF Conn!Init, ConnInv, ConnType, OneConnects, UsesMade, Conn!SoundOneCached, ConnStep

\* Every step of a call or of the connection keeps the invariant.
LEMMA NextConn ==
  ASSUME ConnInv, [Conn!Next]_(Conn!vars)
  PROVE  ConnInv'
<1> USE DEF ConnInv, ConnType, ConnStep
<1>0. Conn!NoCall \notin Call
  BY ComponentsAssumption DEF ComponentsAssumption
<1> USE <1>0
<1>1. ASSUME NEW c \in Call, Conn!Looks(c) PROVE ConnInv'
  <2>1. ConnType' /\ Conn!SoundOneCached' BY <1>1 DEF Conn!Looks, Conn!Uses, Conn!SoundOneCached
  <2>2. OneConnects' BY <1>1 DEF Conn!Looks, Conn!Uses, OneConnects
  <2>3. UsesMade' BY <1>1 DEF Conn!Looks, Conn!Uses, UsesMade
  <2> QED BY <2>1, <2>2, <2>3
<1>2. ASSUME NEW c \in Call, Conn!TakesMutex(c) PROVE ConnInv'
  <2>1. ConnType' /\ Conn!SoundOneCached'
    BY <1>2 DEF Conn!TakesMutex, Conn!LooksAgain, Conn!Uses, Conn!SoundOneCached
  <2>2. OneConnects' BY <1>2 DEF Conn!TakesMutex, Conn!LooksAgain, Conn!Uses, OneConnects
  <2>3. UsesMade' BY <1>2 DEF Conn!TakesMutex, Conn!LooksAgain, Conn!Uses, UsesMade
  <2> QED BY <2>1, <2>2, <2>3
<1>3. ASSUME NEW c \in Call, Conn!Connects(c) PROVE ConnInv'
  <2>1. ConnType' BY <1>3 DEF Conn!Connects, Conn!Uses
  <2>2. OneConnects' BY <1>3 DEF Conn!Connects, Conn!Uses, OneConnects
  <2>3. UsesMade' BY <1>3 DEF Conn!Connects, Conn!Uses, UsesMade
  <2>4. \A g \in 1..made : g \in spoiled
    BY <1>3 DEF Conn!Connects, OneConnects, Conn!SoundOneCached
  <2>5. Conn!SoundOneCached' BY <1>3, <2>4 DEF Conn!Connects, Conn!SoundOneCached
  <2> QED BY <2>1, <2>2, <2>3, <2>5
<1>4. ASSUME NEW c \in Call, Conn!GivesUp(c) PROVE ConnInv'
  <2>1. ConnType' /\ Conn!SoundOneCached' BY <1>4 DEF Conn!GivesUp, Conn!Ends, Conn!SoundOneCached
  <2>2. OneConnects' BY <1>4 DEF Conn!GivesUp, Conn!Ends, OneConnects
  <2>3. UsesMade' BY <1>4 DEF Conn!GivesUp, Conn!Ends, UsesMade
  <2> QED BY <2>1, <2>2, <2>3
<1>5. ASSUME NEW c \in Call, Conn!Answered(c) PROVE ConnInv'
  <2>1. ConnType' /\ Conn!SoundOneCached' BY <1>5 DEF Conn!Answered, Conn!Ends, Conn!SoundOneCached
  <2>2. OneConnects' BY <1>5 DEF Conn!Answered, Conn!Ends, OneConnects
  <2>3. UsesMade' BY <1>5 DEF Conn!Answered, Conn!Ends, UsesMade
  <2> QED BY <2>1, <2>2, <2>3
<1>6. ASSUME NEW c \in Call, Conn!Unanswered(c) PROVE ConnInv'
  <2>1. with[c] \in 1..made BY <1>6 DEF Conn!Unanswered, UsesMade
  <2>2. ConnType' BY <1>6, <2>1 DEF Conn!Unanswered, Conn!Ends, Conn!Retired
  <2>3. OneConnects' BY <1>6 DEF Conn!Unanswered, Conn!Ends, Conn!Retired, OneConnects
  <2>4. UsesMade' BY <1>6 DEF Conn!Unanswered, Conn!Ends, Conn!Retired, UsesMade
  <2>5. Conn!SoundOneCached' BY <1>6, <2>1 DEF Conn!Unanswered, Conn!Retired, Conn!SoundOneCached
  <2> QED BY <2>2, <2>3, <2>4, <2>5
<1>7. CASE UNCHANGED Conn!vars
  BY <1>7 DEF Conn!vars, OneConnects, UsesMade, Conn!SoundOneCached
<1> QED BY <1>1, <1>2, <1>3, <1>4, <1>5, <1>6, <1>7 DEF Conn!Next

\* For any calls, however they fail, are dropped and reconnect, the cached
\* connection is exactly the one of those made that no call was left
\* unanswered on (RedisConnectionManagerCache::run, generation and retire).
THEOREM SoundOneCachedHolds == Spec => []SoundOneCached
<1> DEFINE Inv == component = "connection" => ConnInv
<1>1. Init => Inv
  BY InitConn DEF Init
<1>2. Inv /\ [Next]_vars => Inv'
  <2> SUFFICES ASSUME ConnInv, component = "connection", [Next]_vars PROVE ConnInv'
    BY DEF Next, vars
  <2>1. [Conn!Next]_(Conn!vars)
    BY DEF Next, vars, connectionVars, Conn!vars
  <2> QED BY <2>1, NextConn
<1>3. Inv => SoundOneCached
  BY DEF ConnInv, SoundOneCached
<1> QED BY <1>1, <1>2, <1>3, PTL DEF Spec

-----------------------------------------------------------------------------
(***************************************************************************)
(* A provider stream.  The producer commits to a clean end only behind a   *)
(* finish of every choice, and until the reader drops its guard the two    *)
(* ends have reported nothing but what the callback under way reported;    *)
(* the guard reports nothing after the producer is gone.                   *)
(***************************************************************************)

Whole == streamSeen /\ streamActive = {}
Callback == {"usage", "complete", "fail"}

StreamTypes ==
    /\ gated \in BOOLEAN /\ taken \in BOOLEAN /\ finished \in BOOLEAN
    /\ streamSeen \in BOOLEAN
    /\ streamReader \in {"reading", "closing", "dropped"}
    /\ taken => streamPc \in Callback

\* Where the producer is only with a whole answer.
EndsWhole ==
    /\ streamPc \in {"emitLast", "emitDone", "done", "last", "complete"} => Whole
    /\ streamPc = "usage" /\ after \in {"emitLast", "emitDone", "done", "last", "complete"} => Whole
    /\ streamPc = "usage" => after \in {"emit", "poll", "broken", "emitLast", "last"}
    /\ streamPc = "fail" => after \in {"timeout", "broken"}

\* What was reported while the guard is not dropped.
OneReport ==
    streamPc # "gone" /\ streamReader # "dropped" =>
        /\ ~finished
        /\ taken /\ streamPc = "complete" => reports = <<"completed">>
        /\ ~taken => reports = << >>
        /\ streamPc = "usage" => reports = << >>

\* A clean end, seen or still to be seen; no end is reported after the producer's.
CleanEnd ==
    /\ streamReader = "reading" /\ streamPc = "gone" /\ streamTerminal = "none" /\ saw # "error"
          => Whole /\ (gated => reports = <<"completed">>)
    /\ streamPc = "gone" => finished
    /\ saw = "end" => /\ streamPc = "gone" /\ streamTerminal = "none" /\ Whole
                      /\ gated => reports = <<"completed">>

StreamInv == StreamTypes /\ EndsWhole /\ OneReport /\ CleanEnd

\* The invariant holds when the headers of a stream are there.
LEMMA InitStream == Eager!Init => StreamInv
BY DEF Eager!Init, StreamInv, StreamTypes, EndsWhole, OneReport, CleanEnd, Callback, Whole

\* A failure of the producer while it polls.
LEMMA EndsBroken ==
  ASSUME StreamInv, streamPc = "poll", Eager!FailsWith("broken"),
         UNCHANGED <<gated, streamSeen, streamActive, streamReader, saw>>
  PROVE  StreamInv'
<1> USE DEF StreamInv, StreamTypes, EndsWhole, OneReport, CleanEnd, Callback, Whole
<1>1. CASE gated
  BY <1>1 DEF Eager!FailsWith, Eager!Calls
<1>2. CASE ~gated
  BY <1>2 DEF Eager!FailsWith, Eager!Returns
<1> QED BY <1>1, <1>2

\* Every step of the producer, its reader and the clock keeps the invariant.
LEMMA NextStream ==
  ASSUME StreamInv, [Eager!Next]_(Eager!vars)
  PROVE  StreamInv'
<1> USE DEF StreamInv, StreamTypes, EndsWhole, OneReport, CleanEnd, Callback, Whole,
        Eager!time, Eager!normalizer, Eager!readerVars
<1>1. ASSUME Eager!Stops PROVE StreamInv'
  BY <1>1 DEF Eager!Stops, Eager!Returns, Eager!Cancelled
<1>2. ASSUME Eager!PollTimesOut PROVE StreamInv'
  BY <1>2 DEF Eager!PollTimesOut, Eager!FailsWith, Eager!Calls, Eager!Returns
<1>3. ASSUME Eager!BlankFrame PROVE StreamInv'
  BY <1>3 DEF Eager!BlankFrame
<1>4. ASSUME NEW f, Eager!ContentFrame(f) PROVE StreamInv'
  BY <1>4 DEF Eager!ContentFrame, Eager!SemanticFrame, Eager!Observes, Eager!Calls
<1>5. ASSUME Eager!DoneFrame PROVE StreamInv'
  <2> USE <1>5 DEF Eager!DoneFrame, Eager!Terminal, Eager!SemanticFrame
  <2>1. CASE Whole /\ streamPc' \in {"emitDone", "done"}
             /\ UNCHANGED <<after, taken, streamTerminal, finished, reports>>
    BY <2>1
  <2>2. CASE Eager!FailsWith("broken")
    BY <2>2, EndsBroken
  <2> QED BY <2>1, <2>2
<1>6. ASSUME Eager!BadFrame PROVE StreamInv'
  <2> USE <1>6 DEF Eager!BadFrame, Eager!SemanticFrame
  <2>1. CASE Eager!FailsWith("broken")
    BY <2>1, EndsBroken
  <2>2. CASE Eager!Observes("broken")
    BY <2>2 DEF Eager!Observes, Eager!Calls
  <2> QED BY <2>1, <2>2
<1>7. ASSUME Eager!SourceFails PROVE StreamInv'
  BY <1>7 DEF Eager!SourceFails, Eager!FailsWith, Eager!Calls, Eager!Returns
<1>8. ASSUME Eager!SourceEnds PROVE StreamInv'
  BY <1>8 DEF Eager!SourceEnds, Eager!Terminal, Eager!Observes, Eager!Calls
<1>9. ASSUME Eager!Broken PROVE StreamInv'
  BY <1>9 DEF Eager!Broken, Eager!FailsWith, Eager!Calls, Eager!Returns
<1>10. ASSUME Eager!DoneUsage PROVE StreamInv'
  BY <1>10 DEF Eager!DoneUsage, Eager!Observes, Eager!Calls
<1>11. ASSUME Eager!Emits PROVE StreamInv'
  BY <1>11 DEF Eager!Emits
<1>12. ASSUME Eager!EmitTimesOut PROVE StreamInv'
  BY <1>12 DEF Eager!EmitTimesOut, Eager!FailsWith, Eager!Calls, Eager!Returns
<1>13. ASSUME Eager!Last PROVE StreamInv'
  BY <1>13 DEF Eager!Last, Eager!Completes, Eager!Calls, Eager!Returns
<1>14. ASSUME Eager!CoordinatorTakes PROVE StreamInv'
  <2>1. \A x : Append(<< >>, x) = <<x>> OBVIOUS
  <2> QED BY <1>14, <2>1 DEF Eager!CoordinatorTakes, Eager!Outcome
<1>15. ASSUME Eager!CallbackReturns PROVE StreamInv'
  <2> USE <1>15 DEF Eager!CallbackReturns
  <2>1. CASE streamPc = "usage"
    <3>1. /\ streamPc' = after /\ after' = "none" /\ taken' = FALSE
          /\ UNCHANGED <<gated, streamSeen, streamActive, streamReader, saw>>
          /\ UNCHANGED <<streamTerminal, finished, reports>>
      BY <2>1
    <3>2. after \in {"emit", "poll", "broken", "emitLast", "last"} BY <2>1
    <3>3. StreamTypes' BY <3>1
    <3>4. EndsWhole' BY <2>1, <3>1, <3>2
    <3>5. OneReport' BY <2>1, <3>1, <3>2
    <3>6. CleanEnd' BY <2>1, <3>1, <3>2
    <3> QED BY <3>3, <3>4, <3>5, <3>6
  <2>2. CASE streamPc = "complete"
    <3>1. StreamTypes' /\ EndsWhole' /\ OneReport' BY <2>2
    <3>2. CleanEnd' BY <2>2
    <3> QED BY <3>1, <3>2
  <2>3. CASE streamPc = "fail"
    BY <2>3
  <2> QED BY <2>1, <2>2, <2>3
<1>16. ASSUME Eager!CallbackFails PROVE StreamInv'
  BY <1>16 DEF Eager!CallbackFails, Eager!Returns
<1>17. ASSUME Eager!Reads PROVE StreamInv'
  BY <1>17 DEF Eager!Reads
<1>18. ASSUME Eager!DropsStream PROVE StreamInv'
  BY <1>18 DEF Eager!DropsStream
<1>19. ASSUME Eager!DropsGuard PROVE StreamInv'
  BY <1>19 DEF Eager!DropsGuard
<1>20. ASSUME Eager!Tick PROVE StreamInv'
  BY <1>20 DEF Eager!Tick
<1>21. CASE UNCHANGED Eager!vars
  BY <1>21 DEF Eager!vars
<1> QED
  BY <1>1, <1>2, <1>3, <1>4, <1>5, <1>6, <1>7, <1>8, <1>9, <1>10, <1>11, <1>12, <1>13,
     <1>14, <1>15, <1>16, <1>17, <1>18, <1>19, <1>20, <1>21
  DEF Eager!Next, Eager!Provides, Eager!Produces, Eager!Observed

\* A reader of eager_stream that sees the end and no error has every choice
\* whole, and the attempt is reported once, as completed.
THEOREM CleanEndEarnedHolds == Spec => []CleanEndEarned
<1> DEFINE Inv == component = "stream" => StreamInv
<1>1. Init => Inv
  BY InitStream DEF Init
<1>2. Inv /\ [Next]_vars => Inv'
  <2> SUFFICES ASSUME StreamInv, component = "stream", [Next]_vars PROVE StreamInv'
    BY DEF Next, vars
  <2>1. [Eager!Next]_(Eager!vars)
    BY DEF Next, vars, streamVars, Eager!vars, Eager!time, Eager!normalizer, Eager!readerVars
  <2> QED BY <2>1, NextStream
<1>3. Inv => CleanEndEarned
  BY DEF CleanEndEarned, Eager!CleanEndEarned, Eager!Terminal, StreamInv, CleanEnd, Whole
<1> QED BY <1>1, <1>2, <1>3, PTL DEF Spec

-----------------------------------------------------------------------------
(***************************************************************************)
(* The bearer tokens.  What is cached is the newest token, or nothing, and *)
(* nothing only when there is no token yet or the newest was rejected.     *)
(***************************************************************************)

TokenInv ==
    /\ newest.id \in Nat
    /\ cached = newest \/ cached = Token!NoToken
    /\ cached # newest => newest.id \in refused

\* The invariant holds before there is a token.
LEMMA InitToken == Token!Init => TokenInv
BY DEF Token!Init, TokenInv, Token!NoToken

\* Every step keeps the invariant, and calls the source only when it must.
LEMMA NextToken ==
  ASSUME TokenInv, [Token!Next]_(Token!vars)
  PROVE  TokenInv' /\ (Token!SourceCallJustified \/ UNCHANGED Token!vars)
<1> DEFINE Good == TokenInv' /\ Token!SourceCallJustified
<1> USE DEF TokenInv, Token!SourceCallJustified, Token!Free, Token!Task
<1>1. ASSUME NEW c, Token!HeaderCached(c) PROVE Good
  <2>1. cached = newest
    BY <1>1 DEF Token!HeaderCached, Token!Usable, Token!NoToken
  <2> QED BY <2>1, <1>1 DEF Token!HeaderCached, Token!ClaimsRefresh
<1>2. ASSUME NEW c, Token!HeaderWaits(c) PROVE Good
  BY <1>2 DEF Token!HeaderWaits
<1>3. ASSUME NEW c, Token!TakesMutex(c) PROVE Good
  <2>1. CASE Token!Usable(cached)
    BY <1>3, <2>1 DEF Token!TakesMutex
  <2>2. CASE ~Token!Usable(cached)
    <3>1. newest.id \in refused \/ ~Token!Usable(newest)
      BY <2>2
    <3> QED BY <1>3, <3>1 DEF Token!TakesMutex
  <2> QED BY <2>1, <2>2
<1>4. ASSUME NEW c, Token!CallerDrops(c) PROVE Good
  BY <1>4 DEF Token!CallerDrops
<1>5. ASSUME NEW c, Token!Rejects(c) PROVE Good
  BY <1>5 DEF Token!Rejects
<1>6. ASSUME NEW c, Token!Accepted(c) PROVE Good
  BY <1>6 DEF Token!Accepted
<1>7. ASSUME NEW life, Token!LoadSucceeds(life) PROVE Good
  <2>1. newest' = cached' /\ newest'.id = newest.id + 1 /\ holder' = Token!Free
    BY <1>7 DEF Token!LoadSucceeds, Token!Token
  <2> QED BY <2>1
<1>8. ASSUME Token!LoadFails PROVE Good
  BY <1>8 DEF Token!LoadFails
<1>9. ASSUME Token!Tick PROVE Good
  BY <1>9 DEF Token!Tick
<1>10. ASSUME UNCHANGED Token!vars PROVE TokenInv'
  BY <1>10 DEF Token!vars
<1> QED BY <1>1, <1>2, <1>3, <1>4, <1>5, <1>6, <1>7, <1>8, <1>9, <1>10
        DEF Token!Next, Token!Calls, Token!Loads

\* A token source is asked only when there is no token to use or the newest is
\* due, and a token is given up only for a newer one or when the provider has
\* rejected that very token.
THEOREM SourceCallsJustifiedHolds == Spec => SourceCallsJustified
<1> DEFINE Inv == component = "token" => TokenInv
<1>1. Init => Inv
  BY InitToken DEF Init
<1>2. Inv /\ [Next]_vars => Inv'
  <2> SUFFICES ASSUME Inv, [Next]_vars, component' = "token" PROVE TokenInv'
    OBVIOUS
  <2>1. component = "token" /\ [Token!Next]_(Token!vars)
    BY DEF Next, vars, tokenVars, Token!vars
  <2> QED BY <2>1, NextToken
<1>3. Inv /\ [Next]_vars => [component = "token" => Token!SourceCallJustified]_tokenVars
  <2> SUFFICES ASSUME Inv, [Next]_vars, component = "token", tokenVars' # tokenVars
               PROVE  Token!SourceCallJustified
    OBVIOUS
  <2>1. [Token!Next]_(Token!vars) /\ ~UNCHANGED Token!vars
    BY DEF Next, vars, tokenVars, Token!vars
  <2> QED BY <2>1, NextToken
<1> QED BY <1>1, <1>2, <1>3, PTL DEF Spec, SourceCallsJustified

-----------------------------------------------------------------------------
(***************************************************************************)
(* Replays.  What a cache keeps names a request that is done, with its key *)
(* and fingerprint and until its time to live after the store; a handler   *)
(* is never moved again once it is done, so this stays.                    *)
(***************************************************************************)

Stored(o) == idempotencyPc[o] = "done" /\ outcome[o].kind \in {"fresh", "unheard"}

\* An entry or a pointer is what its request stored.
Kept(e) ==
    /\ e.value \in Request /\ Stored(e.value)
    /\ e.at = stamp[e.value] + EntryTTL
    /\ req[e.value].key = e.key /\ req[e.value].print = e.print

\* What r is about to replay, or was told, comes from a request that stored.
Faithful(r) ==
    \E o \in Request :
        /\ Stored(o)
        /\ outcome[r].at <= stamp[o] + EntryTTL
        /\ req[o].key = req[r].key
        /\ (outcome[r].kind = "replay") <=> (req[o].print = req[r].print)
        /\ outcome[r].kind = "replay" => outcome[r].of = o

\* The requests whose outcome claims to be from the cache.
Told(r) ==
    \/ idempotencyPc[r] = "read"
    \/ idempotencyPc[r] = "done" /\ outcome[r].kind \in {"replay", "conflict"}

ReplayTypes ==
    /\ idempotencyNow \in Nat /\ stamp \in [Request -> Nat]
    /\ DOMAIN idempotencyPc = Request /\ DOMAIN outcome = Request

ReplayInv ==
    /\ ReplayTypes
    /\ \A e \in entries : e.ns = "scoped" => Kept(e)
    /\ \A p \in pointers : Kept(p)
    /\ \A r \in Request : Told(r) => Faithful(r)

\* What one handler does while it is not done.
Touches(r) ==
    /\ req' = req
    /\ ReplayTypes'
    /\ idempotencyPc[r] # "done"
    /\ \A o \in Request : o # r =>
          /\ idempotencyPc'[o] = idempotencyPc[o]
          /\ stamp'[o] = stamp[o] /\ outcome'[o] = outcome[o]

\* What a finished request stored, it has stored after any other request's step.
LEMMA KeptStays ==
  ASSUME NEW r \in Request, Touches(r), NEW e, Kept(e)
  PROVE  Kept(e)'
BY DEF Touches, Kept, Stored

\* A faithful outcome stays so while another request acts.
LEMMA FaithfulStays ==
  ASSUME NEW r \in Request, Touches(r), NEW q \in Request, q # r \/ outcome'[q] = outcome[q],
         Faithful(q)
  PROVE  Faithful(q)'
<1>1. PICK o \in Request :
        /\ Stored(o)
        /\ outcome[q].at <= stamp[o] + EntryTTL
        /\ req[o].key = req[q].key
        /\ (outcome[q].kind = "replay") <=> (req[o].print = req[q].print)
        /\ outcome[q].kind = "replay" => outcome[q].of = o
  BY DEF Faithful
<1>2. outcome'[q] = outcome[q] /\ req' = req
  BY DEF Touches
<1>3. o # r
  BY <1>1 DEF Touches, Stored
<1>4. idempotencyPc'[o] = idempotencyPc[o] /\ stamp'[o] = stamp[o] /\ outcome'[o] = outcome[o]
  BY <1>3 DEF Touches
<1>5. Stored(o)'
  BY <1>1, <1>4 DEF Stored
<1> QED BY <1>1, <1>2, <1>4, <1>5 DEF Faithful

\* A step keeps the invariant if all that it stores, and tells a caller, is
\* what a finished request produced.
LEMMA ReplayStep ==
  ASSUME ReplayInv, NEW r \in Request, Touches(r),
         \A e \in entries' : e.ns = "scoped" => e \in entries \/ Kept(e)',
         \A p \in pointers' : p \in pointers \/ Kept(p)',
         Told(r)' => Faithful(r)'
  PROVE  ReplayInv'
<1>1. \A e \in entries' : e.ns = "scoped" => Kept(e)'
  BY KeptStays DEF ReplayInv
<1>2. \A p \in pointers' : Kept(p)'
  BY KeptStays DEF ReplayInv
<1>3. \A q \in Request : Told(q)' => Faithful(q)'
  <2> SUFFICES ASSUME NEW q \in Request, q # r, Told(q)' PROVE Faithful(q)'
    OBVIOUS
  <2>1. Told(q)
    BY DEF Touches, Told
  <2> QED BY <2>1, FaithfulStays DEF ReplayInv
<1> QED BY <1>1, <1>2, <1>3 DEF ReplayInv, Touches

\* What a lookup finds.
LEMMA LookedUp ==
  ASSUME ReplayInv, NEW r \in Request, Touches(r), NEW e, Kept(e), e.key = req[r].key,
         idempotencyNow <= e.at, outcome'[r] = Idem!LooksUp(r, e)
  PROVE  Faithful(r)'
<1> DEFINE o == e.value
<1>1. o \in Request /\ Stored(o)' /\ req[o].key = req[r].key /\ e.at = stamp'[o] + EntryTTL
      /\ req' = req /\ req[o].print = e.print
  BY KeptStays DEF Kept, Touches
<1>2. outcome'[r].at = idempotencyNow
      /\ (outcome'[r].kind = "replay" <=> e.print = req[r].print)
      /\ (outcome'[r].kind = "replay" => outcome'[r].of = o)
  BY DEF Idem!LooksUp
<1> QED BY <1>1, <1>2 DEF Faithful

\* The invariant holds of empty caches.
LEMMA InitReplay == Idem!Init => ReplayInv
BY DEF Idem!Init, ReplayInv, ReplayTypes, Told, Idem!None

\* A handler's step that replays nothing and stores nothing.
LEMMA PlainStep ==
  ASSUME ReplayInv, NEW r \in Request, Touches(r),
         \A e \in entries' : e.ns = "scoped" => e \in entries, pointers' \subseteq pointers,
         ~Told(r)'
  PROVE  ReplayInv'
BY ReplayStep

\* The steps that are no handler's.
LEMMA QuietStep ==
  ASSUME ReplayInv, UNCHANGED <<idempotencyPc, stamp, outcome, req>>, idempotencyNow' \in Nat,
         \A e \in entries' : e.ns = "scoped" => e \in entries, pointers' \subseteq pointers
  PROVE  ReplayInv'
BY DEF ReplayInv, ReplayTypes, Kept, Stored, Told, Faithful


\* A store brings in at most one entry.
LEMMA StoreBrings ==
  ASSUME NEW ns, NEW k, NEW print, NEW value, NEW size, NEW t,
         Idem!Stores(ns, k, print, value, size, t)
  PROVE  \A e \in entries' :
            e \in entries \/ e = [ns |-> ns, key |-> k, print |-> print, value |-> value,
                                  size |-> size, at |-> t + EntryTTL]
BY DEF Idem!Stores, Idem!Replaces

\* A script puts in at most one pointer.
LEMMA PutBrings ==
  ASSUME NEW k, NEW print, NEW value, NEW size, Idem!CachePut(k, print, value, size)
  PROVE  \A p \in pointers' :
            p \in pointers \/ p = [key |-> k, print |-> print, value |-> value,
                                   at |-> idempotencyNow + EntryTTL]
<1> DEFINE new == [key |-> k, print |-> print, value |-> value, at |-> idempotencyNow + EntryTTL]
           dead == {d.key : d \in {d \in due : d.at <= idempotencyNow}}
<1>1. \/ pointers' = {p \in pointers : p.key \notin dead}
      \/ pointers' = {p \in pointers : p.key \notin dead \cup {k}} \cup {new}
  BY Zenon DEF Idem!CachePut
<1> HIDE DEF new, dead
<1>2. \A p \in pointers' : p \in pointers \/ p = new
  BY <1>1
<1> QED BY <1>2 DEF new

\* Every step of the handlers and the caches keeps the invariant.
LEMMA NextReplay ==
  ASSUME ReplayInv, [Idem!Next]_(Idem!vars)
  PROVE  ReplayInv'
<1> USE ComponentsAssumption DEF Idem!localVars, Idem!redisVars, Idem!handler, Idem!Goes
<1>1. ASSUME NEW r \in Request, Idem!Arrives(r) PROVE ReplayInv'
  <2>1. Touches(r) /\ ~Told(r)'
    BY <1>1 DEF Idem!Arrives, Touches, ReplayInv, ReplayTypes, Told
  <2> QED BY <1>1, <2>1, PlainStep DEF Idem!Arrives
<1>2. ASSUME NEW r \in Request, Idem!LocalLookup(r) PROVE ReplayInv'
  <2> DEFINE kept == Idem!Under("scoped", req[r].key)
             dead == {e \in kept : e.at <= idempotencyNow}
  <2>1. entries' \subseteq entries /\ pointers' = pointers
    BY <1>2 DEF Idem!LocalLookup, Idem!Replaces
  <2>2. CASE Idem!Misses(r)
    <3>1. Touches(r) /\ ~Told(r)'
      BY <1>2, <2>2 DEF Idem!LocalLookup, Idem!Misses, Touches, ReplayInv, ReplayTypes, Told
    <3> QED BY <2>1, <3>1, PlainStep
  <2>3. ASSUME NEW e \in kept \ dead, Idem!Answers(r, Idem!LooksUp(r, e)) PROVE ReplayInv'
    <3>1. Touches(r) /\ outcome'[r] = Idem!LooksUp(r, e)
      BY <1>2, <2>3 DEF Idem!LocalLookup, Idem!Answers, Touches, ReplayInv, ReplayTypes
    <3>2. e \in entries /\ Kept(e) /\ e.key = req[r].key /\ ~(e.at <= idempotencyNow)
      BY <2>3 DEF Idem!Under, ReplayInv
    <3>3. idempotencyNow <= e.at
      BY <3>2 DEF Kept, ReplayInv, ReplayTypes
    <3>4. Faithful(r)'
      BY <3>1, <3>2, <3>3, LookedUp
    <3> QED BY <2>1, <3>1, <3>4, ReplayStep
  <2> QED BY <1>2, <2>2, <2>3 DEF Idem!LocalLookup
<1>3. ASSUME NEW r \in Request, Idem!PointerGet(r) PROVE ReplayInv'
  <2>1. entries' = entries /\ pointers' = pointers
    BY <1>3 DEF Idem!PointerGet, Idem!CacheGet
  <2>2. CASE Idem!Misses(r)
    <3>1. Touches(r) /\ ~Told(r)'
      BY <1>3, <2>2 DEF Idem!PointerGet, Idem!Misses, Touches, ReplayInv, ReplayTypes, Told
    <3> QED BY <2>1, <3>1, PlainStep
  <2>3. ASSUME NEW p \in Idem!Live, p.key = req[r].key, UNCHANGED stamp,
               outcome' = [outcome EXCEPT ![r] = Idem!LooksUp(r, p)],
               \E at \in {"done", "read"} : idempotencyPc' = [idempotencyPc EXCEPT ![r] = at]
        PROVE  ReplayInv'
    <3>1. Touches(r) /\ outcome'[r] = Idem!LooksUp(r, p)
      BY <1>3, <2>3 DEF Idem!PointerGet, Touches, ReplayInv, ReplayTypes
    <3>2. Kept(p) /\ idempotencyNow <= p.at
      BY <2>3 DEF Idem!Live, ReplayInv
    <3>3. Faithful(r)'
      BY <2>3, <3>1, <3>2, LookedUp
    <3> QED BY <2>1, <3>1, <3>3, ReplayStep
  <2> QED BY <1>3, <2>2, <2>3 DEF Idem!PointerGet, Idem!Answers
<1>4. ASSUME NEW r \in Request, Idem!TerminalRead(r) PROVE ReplayInv'
  <2>0. Touches(r) /\ entries' = entries /\ pointers' = pointers
    BY <1>4 DEF Idem!TerminalRead, Idem!Answers, Touches, ReplayInv, ReplayTypes
  <2>1. CASE Idem!Answers(r, outcome[r])
    <3>1. outcome'[r] = outcome[r] /\ Told(r)
      BY <1>4, <2>1 DEF Idem!TerminalRead, Idem!Answers, ReplayInv, ReplayTypes, Told
    <3>2. Faithful(r)'
      BY <2>0, <3>1, FaithfulStays DEF ReplayInv
    <3> QED BY <2>0, <3>2, ReplayStep
  <2>2. CASE Idem!Goes(r, "submit")
    <3>1. ~Told(r)'
      BY <2>2 DEF ReplayInv, ReplayTypes, Told
    <3> QED BY <2>0, <3>1, PlainStep
  <2> QED BY <1>4, <2>1, <2>2 DEF Idem!TerminalRead
<1>5. ASSUME NEW r \in Request, Idem!Executes(r) PROVE ReplayInv'
  <2>1. Touches(r) /\ ~Told(r)'
    BY <1>5 DEF Idem!Executes, Touches, ReplayInv, ReplayTypes, Told
  <2> QED BY <1>5, <2>1, PlainStep DEF Idem!Executes
<1>6. ASSUME NEW r \in Request, Idem!ExecutionFails(r) PROVE ReplayInv'
  <2>1. Touches(r) /\ ~Told(r)'
    BY <1>6 DEF Idem!ExecutionFails, Idem!Answers, Touches, ReplayInv, ReplayTypes, Told
  <2> QED BY <1>6, <2>1, PlainStep DEF Idem!ExecutionFails
<1>7. ASSUME NEW r \in Request, Idem!Drops(r) PROVE ReplayInv'
  <2>1. Touches(r) /\ ~Told(r)'
    BY <1>7 DEF Idem!Drops, Idem!Answers, Touches, ReplayInv, ReplayTypes, Told
  <2> QED BY <1>7, <2>1, PlainStep DEF Idem!Drops
<1>8. ASSUME NEW r \in Request, Idem!StoreEntered(r) PROVE ReplayInv'
  <2>1. Touches(r) /\ ~Told(r)'
    BY <1>8 DEF Idem!StoreEntered, Touches, ReplayInv, ReplayTypes, Told
  <2> QED BY <1>8, <2>1, PlainStep DEF Idem!StoreEntered
<1>9. ASSUME NEW r \in Request, Idem!LocalStore(r) PROVE ReplayInv'
  <2>1. Touches(r) /\ ~Told(r)' /\ pointers' = pointers /\ stamp' = stamp
        /\ outcome'[r].kind = "fresh" /\ idempotencyPc'[r] = "done"
    BY <1>9 DEF Idem!LocalStore, Idem!Answers, Touches, ReplayInv, ReplayTypes, Told
  <2>2. PICK size \in EntrySize :
            Idem!Stores("scoped", req[r].key, req[r].print, r, size, stamp[r])
    BY <1>9 DEF Idem!LocalStore
  <2>3. \A e \in entries' : e \in entries \/ Kept(e)'
    BY <2>1, <2>2, StoreBrings DEF Kept, Stored, Touches
  <2> QED BY <2>1, <2>3, ReplayStep
<1>10. ASSUME NEW r \in Request, Idem!TerminalExtended(r) PROVE ReplayInv'
  <2>1. Touches(r) /\ ~Told(r)'
    BY <1>10 DEF Idem!TerminalExtended, Idem!Answers, Touches, ReplayInv, ReplayTypes, Told
  <2> QED BY <1>10, <2>1, PlainStep DEF Idem!TerminalExtended
<1>11. ASSUME NEW r \in Request, Idem!PointerPut(r) PROVE ReplayInv'
  <2>1. Touches(r) /\ ~Told(r)' /\ entries' = entries /\ stamp'[r] = idempotencyNow
        /\ outcome'[r].kind \in {"fresh", "unheard"} /\ idempotencyPc'[r] = "done"
    BY <1>11 DEF Idem!PointerPut, Touches, ReplayInv, ReplayTypes, Told
  <2>2. \A p \in pointers' : p \in pointers \/ Kept(p)'
    <3>1. ASSUME NEW size, Idem!CachePut(req[r].key, req[r].print, r, size)
          PROVE  \A p \in pointers' : p \in pointers \/ Kept(p)'
      BY <2>1, <3>1, PutBrings DEF Kept, Stored, Touches
    <3> QED BY <1>11, <3>1 DEF Idem!PointerPut
  <2> QED BY <2>1, <2>2, ReplayStep
<1>12. ASSUME NEW r, Idem!TerminalCleaned(r) PROVE ReplayInv'
  BY <1>12, QuietStep DEF Idem!TerminalCleaned, ReplayInv, ReplayTypes
<1>13. ASSUME NEW k, NEW size, NEW t, Idem!GenericPut(k, size, t) PROVE ReplayInv'
  <2>1. \A e \in entries' : e.ns = "scoped" => e \in entries
    BY <1>13, StoreBrings DEF Idem!GenericPut
  <2> QED BY <1>13, <2>1, QuietStep DEF Idem!GenericPut, ReplayInv, ReplayTypes
<1>14. ASSUME NEW k, Idem!GenericGet(k) PROVE ReplayInv'
  <2>1. entries' \subseteq entries
    BY <1>14 DEF Idem!GenericGet, Idem!Replaces
  <2> QED BY <1>14, <2>1, QuietStep DEF Idem!GenericGet, ReplayInv, ReplayTypes
<1>15. ASSUME Idem!CacheCleanup PROVE ReplayInv'
  <2>1. pointers' \subseteq pointers
    BY <1>15 DEF Idem!CacheCleanup
  <2> QED BY <1>15, <2>1, QuietStep DEF Idem!CacheCleanup, ReplayInv, ReplayTypes
<1>16. ASSUME Idem!Tick PROVE ReplayInv'
  BY <1>16, QuietStep DEF Idem!Tick, ReplayInv, ReplayTypes
<1>17. ASSUME UNCHANGED Idem!vars PROVE ReplayInv'
  BY <1>17, QuietStep DEF Idem!vars, ReplayInv, ReplayTypes
<1> QED BY <1>1, <1>2, <1>3, <1>4, <1>5, <1>6, <1>7, <1>8, <1>9, <1>10, <1>11, <1>12, <1>13,
        <1>14, <1>15, <1>16, <1>17 DEF Idem!Next, Idem!Handles, Idem!Generic

\* A replay is the answer of an identical request of the same owner, within its
\* time to live, and a conflict that of another request with the same key.
THEOREM ReplayFaithfulHolds == Spec => []ReplayFaithful
<1> DEFINE Inv == component = "idempotency" => ReplayInv
<1>1. Init => Inv
  BY InitReplay DEF Init
<1>2. Inv /\ [Next]_vars => Inv'
  <2> SUFFICES ASSUME Inv, [Next]_vars, component' = "idempotency" PROVE ReplayInv'
    OBVIOUS
  <2>1. component = "idempotency" /\ [Idem!Next]_(Idem!vars)
    BY DEF Next, vars, idempotencyVars, Idem!vars, Idem!handler, Idem!localVars, Idem!redisVars
  <2> QED BY <2>1, NextReplay
<1>3. Inv => ReplayFaithful
  BY DEF ReplayFaithful, Idem!ReplayFaithful, ReplayInv, Told, Faithful, Stored
<1> QED BY <1>1, <1>2, <1>3, PTL DEF Spec

-----------------------------------------------------------------------------
(***************************************************************************)
(* The accounting of the two caches.  A key has one entry and one          *)
(* reservation, so what is taken out of the index is what left the map.    *)
(***************************************************************************)

Sized(S) == IsFiniteSet(S) /\ \A e \in S : e.size \in Nat

IndexOf(e) == [at |-> e.at, ns |-> e.ns, key |-> e.key]

LocalInv ==
    /\ Sized(entries)
    /\ \A e, f \in entries : e.ns = f.ns /\ e.key = f.key => e = f
    /\ expiry = {IndexOf(e) : e \in entries}
    /\ retained = Idem!Total(entries)
    /\ Cardinality(entries) <= MaxCacheEntries /\ retained <= MaxRetained

RedisInv ==
    /\ Sized(charges)
    /\ \A c, d \in charges : c.key = d.key => c = d
    /\ count = Cardinality(charges) /\ bytes = Idem!Total(charges)
    /\ {p.key : p \in Idem!Live} \subseteq {c.key : c \in charges}
    /\ {c.key : c \in charges} = {d.key : d \in due}
    /\ count <= MaxCacheEntries /\ bytes <= MaxRetained
    /\ idempotencyNow \in Nat /\ stamp \in [Request -> Nat]
    /\ \A p \in pointers : p.at \in Nat

\* The instance counts as this module does.
LEMMA SameCount ==
  ASSUME NEW S
  PROVE  Idem!Cardinality(S) = Cardinality(S)
BY Zenon DEF Idem!Cardinality, Cardinality

\* The bytes of a set of sized entries are a sum.
LEMMA TotalIs ==
  ASSUME NEW S, Sized(S)
  PROVE  /\ Summable([e \in S |-> e.size])
         /\ Idem!Total(S) = SumOf([e \in S |-> e.size])
         /\ Idem!Total(S) \in Nat
<1>1. Summable([e \in S |-> e.size])
  BY DEF Summable, Sized
<1>2. Idem!Total(S) = SumOf([e \in S |-> e.size])
  BY SameCount DEF Idem!Total, Idem!SumOf, Idem!UnitsOf, SumOf, UnitsOf
<1> QED BY <1>1, <1>2, SumType

\* The bytes of a set are those of a part and of the rest.
LEMMA TotalParts ==
  ASSUME NEW S, Sized(S), NEW T \in SUBSET S
  PROVE  /\ Sized(T) /\ Sized(S \ T)
         /\ Idem!Total(T) \in Nat /\ Idem!Total(S \ T) \in Nat
         /\ Idem!Total(S) = Idem!Total(T) + Idem!Total(S \ T)
<1>1. Sized(T) /\ Sized(S \ T)
  BY FS_Subset DEF Sized
<1> DEFINE f == [e \in S |-> e.size]
           g == [e \in T |-> e.size]
           h == [e \in S \ T |-> e.size]
<1>2. /\ DOMAIN g \subseteq DOMAIN f /\ DOMAIN h = DOMAIN f \ DOMAIN g
      /\ (\A x \in DOMAIN g : g[x] = f[x]) /\ (\A x \in DOMAIN h : h[x] = f[x])
  OBVIOUS
<1>3. /\ Summable(f) /\ Idem!Total(S) = SumOf(f)
      /\ Idem!Total(T) = SumOf(g) /\ Idem!Total(T) \in Nat
      /\ Idem!Total(S \ T) = SumOf(h) /\ Idem!Total(S \ T) \in Nat
  BY <1>1, TotalIs
<1> HIDE DEF f, g, h
<1>4. SumOf(f) = SumOf(g) + SumOf(h)
  BY <1>2, <1>3, SumParts
<1> QED BY <1>1, <1>3, <1>4

\* The bytes of one entry, and of none.
LEMMA TotalOne ==
  ASSUME NEW x, x.size \in Nat
  PROVE  Sized({x}) /\ Idem!Total({x}) = x.size /\ Sized({}) /\ Idem!Total({}) = 0
<1>1. Sized({x}) /\ Sized({})
  BY FS_Singleton, FS_EmptySet DEF Sized
<1> DEFINE f == [e \in {x} |-> e.size]
           g == [e \in {} |-> e.size]
<1>2. Summable(f) /\ Idem!Total({x}) = SumOf(f) /\ Idem!Total({}) = SumOf(g)
  BY <1>1, TotalIs
<1>3. x \in DOMAIN f /\ DOMAIN g = DOMAIN f \ {x} /\ f[x] = x.size
      /\ \A y \in DOMAIN g : g[y] = f[y]
  OBVIOUS
<1> HIDE DEF f, g
<1>4. SumOf(f) = SumOf(g) + f[x]
  BY <1>2, <1>3, SumSplit
<1>5. SumOf(g) = 0
  BY <1>3, SumEmpty, DOMAIN g = {} DEF g
<1> QED BY <1>1, <1>2, <1>3, <1>4, <1>5

\* One that enters.
LEMMA TotalAdds ==
  ASSUME NEW S, Sized(S), NEW x, x \notin S, x.size \in Nat
  PROVE  /\ Sized(S \cup {x})
         /\ Idem!Total(S \cup {x}) = Idem!Total(S) + x.size
         /\ Cardinality(S \cup {x}) = Cardinality(S) + 1
<1>1. Sized(S \cup {x}) /\ Cardinality(S \cup {x}) = Cardinality(S) + 1
  BY FS_AddElement DEF Sized
<1>2. (S \cup {x}) \ {x} = S /\ {x} \in SUBSET (S \cup {x})
  OBVIOUS
<1>3. /\ Idem!Total(S) \in Nat
      /\ Idem!Total(S \cup {x}) = Idem!Total({x}) + Idem!Total(S)
  BY <1>1, <1>2, TotalParts
<1>4. Idem!Total({x}) = x.size
  BY TotalOne
<1> QED BY <1>1, <1>3, <1>4

\* Empty caches are accounted for.
LEMMA InitAccount == Idem!Init => LocalInv /\ RedisInv
<1>1. IsFiniteSet({}) /\ Cardinality({}) = 0
  BY FS_EmptySet
<1>2. Idem!Total({}) = 0
  <2>1. [size |-> 0].size \in Nat
    OBVIOUS
  <2> QED BY <2>1, TotalOne
<1> QED BY <1>1, <1>2, ComponentsAssumption DEF Idem!Init, LocalInv, RedisInv, Sized, Idem!Live

\* Entries that leave the map leave the index and the footprint.
LEMMA Leaves ==
  ASSUME LocalInv, NEW es \in SUBSET entries, Idem!Replaces(es, {})
  PROVE  LocalInv'
<1>1. entries' = entries \ es
  BY DEF Idem!Replaces
<1>2. /\ Sized(entries \ es) /\ Idem!Total(es) \in Nat /\ Idem!Total(entries \ es) \in Nat
      /\ retained = Idem!Total(es) + Idem!Total(entries \ es)
  BY TotalParts DEF LocalInv
<1>3. retained' = Idem!Total(entries \ es)
  <2>1. Idem!Total({}) = 0
    <3>1. [size |-> 0].size \in Nat
      OBVIOUS
    <3> QED BY <3>1, TotalOne
  <2>2. retained' = Idem!Without(retained, Idem!Total(es)) + Idem!Total({})
    BY DEF Idem!Replaces
  <2> QED BY <1>2, <2>1, <2>2 DEF Idem!Without
<1>4. expiry' = {IndexOf(e) : e \in entries \ es}
  <2>1. expiry' = {IndexOf(e) : e \in entries} \ {IndexOf(e) : e \in es}
    BY DEF Idem!Replaces, IndexOf, LocalInv
  <2>2. \A e, f \in entries : IndexOf(e) = IndexOf(f) => e = f
    BY DEF LocalInv, IndexOf
  <2> QED BY <2>1, <2>2
<1>5. Cardinality(entries \ es) <= MaxCacheEntries
  <2>1. Cardinality(entries \ es) <= Cardinality(entries)
        /\ Cardinality(entries \ es) \in Nat /\ Cardinality(entries) \in Nat
    BY <1>2, FS_Subset, FS_CardinalityType DEF LocalInv, Sized
  <2> QED BY <2>1, ComponentsAssumption DEF LocalInv
<1>6. retained' <= MaxRetained
  BY <1>2, <1>3, ComponentsAssumption DEF LocalInv
<1> QED BY <1>1, <1>2, <1>3, <1>4, <1>5, <1>6 DEF LocalInv

\* One that enters replaces what its key had.
LEMMA Enters ==
  ASSUME LocalInv, NEW es \in SUBSET entries, NEW x, x.size \in Nat,
         Idem!Replaces(es, {x}),
         \A e \in entries : e.ns = x.ns /\ e.key = x.key => e \in es,
         Cardinality(entries \ es) + 1 <= MaxCacheEntries,
         Idem!Total(entries \ es) + x.size <= MaxRetained
  PROVE  LocalInv'
<1>1. entries' = (entries \ es) \cup {x}
  BY DEF Idem!Replaces
<1>2. /\ Sized(entries \ es) /\ Idem!Total(es) \in Nat /\ Idem!Total(entries \ es) \in Nat
      /\ retained = Idem!Total(es) + Idem!Total(entries \ es)
  BY TotalParts DEF LocalInv
<1>3. x \notin entries \ es
  OBVIOUS
<1>4. /\ Sized(entries') /\ Idem!Total(entries') = Idem!Total(entries \ es) + x.size
      /\ Cardinality(entries') = Cardinality(entries \ es) + 1
  BY <1>1, <1>2, <1>3, TotalAdds
<1>5. retained' = Idem!Total(entries \ es) + x.size
  <2>1. retained' = Idem!Without(retained, Idem!Total(es)) + Idem!Total({x})
    BY DEF Idem!Replaces
  <2>2. Idem!Total({x}) = x.size
    BY TotalOne
  <2> QED BY <1>2, <2>1, <2>2 DEF Idem!Without
<1>6. expiry' = {IndexOf(e) : e \in entries'}
  <2>1. expiry' = ({IndexOf(e) : e \in entries} \ {IndexOf(e) : e \in es}) \cup {IndexOf(x)}
    BY DEF Idem!Replaces, IndexOf, LocalInv
  <2>2. \A e, f \in entries : IndexOf(e) = IndexOf(f) => e = f
    BY DEF LocalInv, IndexOf
  <2> QED BY <1>1, <2>1, <2>2
<1>7. \A e, f \in entries' : e.ns = f.ns /\ e.key = f.key => e = f
  BY <1>1 DEF LocalInv
<1> QED BY <1>4, <1>5, <1>6, <1>7 DEF LocalInv


\* Of one key there is at most one.
LEMMA OneOfKey ==
  ASSUME NEW S, Sized(S), NEW T \in SUBSET S, \A e, f \in T : e = f, T # {}
  PROVE  Cardinality(S \ T) + 1 = Cardinality(S) /\ Cardinality(S) \in Nat
<1>1. PICK e \in T : T = {e}
  OBVIOUS
<1>2. Cardinality(S \ {e}) = Cardinality(S) - 1 /\ Cardinality(S) \in Nat
  BY <1>1, FS_RemoveElement, FS_CardinalityType DEF Sized
<1> QED BY <1>1, <1>2

\* A store in the local cache leaves one entry and one charge per key.
LEMMA StoreAccounted ==
  ASSUME LocalInv, NEW ns, NEW k, NEW print, NEW value, NEW size \in EntrySize, NEW t,
         Idem!Stores(ns, k, print, value, size, t)
  PROVE  LocalInv'
<1> DEFINE gone == Idem!Purged(t)
           replaced == Idem!Under(ns, k) \ gone
           rest == entries \ (gone \cup replaced)
           x == [ns |-> ns, key |-> k, print |-> print, value |-> value,
                 size |-> size, at |-> t + EntryTTL]
<1>1. gone \in SUBSET entries /\ replaced \in SUBSET (entries \ gone)
      /\ gone \cup replaced \in SUBSET entries /\ rest = (entries \ gone) \ replaced
  BY DEF Idem!Purged, Idem!Under
<1>2. CASE Idem!Replaces(gone, {})
  BY <1>1, <1>2, Leaves
<1>3. CASE /\ Idem!Replaces(gone \cup replaced, {x})
           /\ replaced = {} => Cardinality(entries \ gone) < MaxCacheEntries
           /\ Idem!Without(Idem!Without(retained, Idem!Total(gone)), Idem!Total(replaced)) + size
                <= MaxRetained
  <2>1. /\ Sized(entries \ gone) /\ Idem!Total(gone) \in Nat /\ Idem!Total(entries \ gone) \in Nat
        /\ retained = Idem!Total(gone) + Idem!Total(entries \ gone)
    BY <1>1, TotalParts DEF LocalInv
  <2>2. /\ Sized(rest) /\ Idem!Total(replaced) \in Nat /\ Idem!Total(rest) \in Nat
        /\ Idem!Total(entries \ gone) = Idem!Total(replaced) + Idem!Total(rest)
    BY <1>1, <2>1, TotalParts, SMTT(30)
  <2>3. Idem!Total(rest) + size <= MaxRetained
    BY <1>3, <2>1, <2>2 DEF Idem!Without
  <2>4. Cardinality(rest) + 1 <= MaxCacheEntries
    <3>1. CASE replaced = {}
      <4>1. rest = entries \ gone
        BY <1>1, <3>1
      <4>2. Cardinality(entries \ gone) \in Nat
        BY <2>1, FS_CardinalityType DEF Sized
      <4> HIDE DEF gone, replaced, rest
      <4> QED BY <1>3, <3>1, <4>1, <4>2, ComponentsAssumption
    <3>2. CASE replaced # {}
      <4>1. \A e, f \in replaced : e = f
        BY DEF Idem!Under, LocalInv
      <4>2. Cardinality(rest) + 1 = Cardinality(entries \ gone)
        BY <1>1, <2>1, <3>2, <4>1, OneOfKey
      <4>3. Cardinality(entries \ gone) <= Cardinality(entries)
            /\ Cardinality(entries \ gone) \in Nat /\ Cardinality(entries) \in Nat
        BY <2>1, FS_Subset, FS_CardinalityType DEF LocalInv, Sized
      <4> HIDE DEF gone, replaced, rest
      <4> QED BY <4>2, <4>3, ComponentsAssumption DEF LocalInv
    <3> QED BY <3>1, <3>2
  <2>5. \A e \in entries : e.ns = x.ns /\ e.key = x.key => e \in gone \cup replaced
    BY DEF Idem!Under
  <2>6. x.size \in Nat /\ x.size = size
    BY ComponentsAssumption
  <2> HIDE DEF gone, replaced, x
  <2> QED BY <1>1, <1>3, <2>3, <2>4, <2>5, <2>6, Enters
<1> QED BY <1>2, <1>3, SameCount DEF Idem!Stores

\* Reservations that are given back.
LEMMA GivesBack ==
  ASSUME RedisInv, NEW ks, Idem!Reconciles(ks),
         {p.key : p \in Idem!Live'} \subseteq {p.key : p \in Idem!Live} \ ks,
         UNCHANGED idempotencyNow, stamp' \in [Request -> Nat], \A p \in pointers' : p \in pointers
  PROVE  RedisInv'
<1> DEFINE back == {c \in charges : c.key \in ks}
<1>1. charges' = charges \ back /\ back \in SUBSET charges
  BY DEF Idem!Reconciles
<1>2. /\ Sized(charges \ back) /\ Idem!Total(back) \in Nat /\ Idem!Total(charges \ back) \in Nat
      /\ bytes = Idem!Total(back) + Idem!Total(charges \ back)
  BY <1>1, TotalParts DEF RedisInv
<1>3. bytes' = Idem!Total(charges') /\ bytes' <= MaxRetained
  <2>1. bytes' = bytes - Idem!Total(back)
    BY DEF Idem!Reconciles
  <2> HIDE DEF back
  <2>2. bytes' = Idem!Total(charges \ back) /\ bytes' <= MaxRetained
    BY <1>2, <2>1, ComponentsAssumption DEF RedisInv
  <2> QED BY <1>1, <2>2
<1>4. count' = Cardinality(charges') /\ count' <= MaxCacheEntries
  <2>1. count' = count - Cardinality(back)
    BY SameCount DEF Idem!Reconciles
  <2>2. Cardinality(charges \ back) = Cardinality(charges) - Cardinality(charges \cap back)
    BY FS_Difference DEF RedisInv, Sized
  <2>3. Cardinality(charges \cap back) = Cardinality(back)
    <3>1. charges \cap back = back
      OBVIOUS
    <3> QED BY <3>1
  <2>4. Cardinality(back) \in Nat /\ Cardinality(charges) \in Nat
    BY <1>1, FS_Subset, FS_CardinalityType DEF RedisInv, Sized
  <2>5. count = Cardinality(charges) /\ count <= MaxCacheEntries /\ MaxCacheEntries \in Nat
    BY ComponentsAssumption DEF RedisInv
  <2> HIDE DEF back
  <2>6. count' = Cardinality(charges \ back) /\ count' <= MaxCacheEntries
    BY <2>1, <2>2, <2>3, <2>4, <2>5
  <2> QED BY <1>1, <2>6
<1>5. {c.key : c \in charges'} = {c.key : c \in charges} \ ks
  BY <1>1
<1>6. {d.key : d \in due'} = {d.key : d \in due} \ ks
  BY DEF Idem!Reconciles
<1>7. \A c, d \in charges' : c.key = d.key => c = d
  BY <1>1 DEF RedisInv
<1>8. Sized(charges')
  BY <1>1, <1>2
<1>9. {p.key : p \in Idem!Live'} \subseteq {c.key : c \in charges'}
  BY <1>5 DEF RedisInv
<1>10. {c.key : c \in charges'} = {d.key : d \in due'}
  BY <1>5, <1>6 DEF RedisInv
<1>11. idempotencyNow' \in Nat /\ stamp' \in [Request -> Nat] /\ \A p \in pointers' : p.at \in Nat
  BY DEF RedisInv
<1> QED BY <1>3, <1>4, <1>7, <1>8, <1>9, <1>10, <1>11 DEF RedisInv


\* A put in Redis leaves one pointer and one charge per key.
LEMMA PutAccounted ==
  ASSUME RedisInv, NEW k, NEW print, NEW value, NEW size \in EntrySize,
         Idem!CachePut(k, print, value, size), UNCHANGED idempotencyNow,
         stamp' \in [Request -> Nat]
  PROVE  RedisInv'
<1> DEFINE dead == {d.key : d \in {d \in due : d.at <= idempotencyNow}}
           stay == {c \in charges : c.key \notin dead}
           previous == {c \in stay : c.key = k}
           gone == charges \ stay
           pointer == [key |-> k, print |-> print, value |-> value,
                       at |-> idempotencyNow + EntryTTL]
           x == [key |-> k, size |-> size]
<1>0. Idem!Live' = {p \in pointers' : idempotencyNow <= p.at}
  BY DEF Idem!Live
<1>a. size \in Nat /\ EntryTTL \in Nat /\ MaxCacheEntries \in Nat /\ MaxRetained \in Nat
  BY ComponentsAssumption
<1>1. ASSUME Idem!Reconciles(dead), pointers' = {p \in pointers : p.key \notin dead}
      PROVE  RedisInv'
  <2>1. {p.key : p \in Idem!Live'} \subseteq {p.key : p \in Idem!Live} \ dead
    BY <1>0, <1>1 DEF Idem!Live
  <2> HIDE DEF dead
  <2> QED BY <1>1, <2>1, GivesBack
<1>2. ASSUME ~(previous = {} /\ count - Cardinality(gone) >= MaxCacheEntries),
             ~(bytes - Idem!Total(gone) + size - Idem!Total(previous) > MaxRetained),
             pointers' = {p \in pointers : p.key \notin dead \cup {k}} \cup {pointer},
             due' = {d \in due : d.key \notin dead \cup {k}}
                       \cup {[key |-> k, at |-> idempotencyNow + EntryTTL]},
             charges' = (stay \ previous) \cup {x},
             count' = count - Cardinality(gone) + (IF previous = {} THEN 1 ELSE 0),
             bytes' = bytes - Idem!Total(gone) + size - Idem!Total(previous)
      PROVE  RedisInv'
  <2>1. gone \in SUBSET charges /\ stay = charges \ gone /\ previous \in SUBSET stay
    OBVIOUS
  <2>2. /\ Sized(stay) /\ Idem!Total(gone) \in Nat /\ Idem!Total(stay) \in Nat
        /\ bytes = Idem!Total(gone) + Idem!Total(stay)
    BY <2>1, TotalParts DEF RedisInv
  <2>3. /\ Sized(stay \ previous) /\ Idem!Total(previous) \in Nat
        /\ Idem!Total(stay \ previous) \in Nat
        /\ Idem!Total(stay) = Idem!Total(previous) + Idem!Total(stay \ previous)
    BY <2>1, <2>2, TotalParts
  <2>4. x \notin stay \ previous /\ x.size = size
    OBVIOUS
  <2>5. /\ Sized(charges') /\ Idem!Total(charges') = Idem!Total(stay \ previous) + size
        /\ Cardinality(charges') = Cardinality(stay \ previous) + 1
    <3> HIDE DEF stay, previous, x
    <3> QED BY <1>2, <1>a, <2>3, <2>4, TotalAdds
  <2>6. bytes' = Idem!Total(charges') /\ bytes' <= MaxRetained
    <3> HIDE DEF stay, previous, gone
    <3> QED BY <1>2, <1>a, <2>2, <2>3, <2>5
  <2>7. count - Cardinality(gone) = Cardinality(stay) /\ Cardinality(stay) \in Nat
        /\ Cardinality(stay) <= MaxCacheEntries
    <3>1. Cardinality(charges \ gone) = Cardinality(charges) - Cardinality(charges \cap gone)
      BY FS_Difference DEF RedisInv, Sized
    <3>2. charges \cap gone = gone /\ IsFiniteSet(gone)
      BY <2>1, FS_Subset DEF RedisInv, Sized
    <3>3. Cardinality(gone) \in Nat /\ Cardinality(charges) \in Nat /\ Cardinality(stay) \in Nat
      BY <2>2, <3>2, FS_CardinalityType DEF RedisInv, Sized
    <3>4. count = Cardinality(charges) /\ count <= MaxCacheEntries
      BY DEF RedisInv
    <3> HIDE DEF gone, stay
    <3> QED BY <1>a, <2>1, <3>1, <3>2, <3>3, <3>4
  <2>8. count' = Cardinality(charges') /\ count' <= MaxCacheEntries
    <3>1. CASE previous = {}
      <4>1. stay \ previous = stay
        BY <3>1
      <4> HIDE DEF stay, previous, gone
      <4> QED BY <1>2, <1>a, <2>5, <2>7, <3>1, <4>1
    <3>2. CASE previous # {}
      <4>1. \A c, d \in previous : c = d
        BY DEF RedisInv
      <4>2. Cardinality(stay \ previous) + 1 = Cardinality(stay)
        BY <2>1, <2>2, <3>2, <4>1, OneOfKey
      <4> HIDE DEF stay, previous, gone
      <4> QED BY <1>2, <1>a, <2>5, <2>7, <3>2, <4>2
    <3> QED BY <3>1, <3>2
  <2>9. \A c, d \in charges' : c.key = d.key => c = d
    BY <1>2 DEF RedisInv
  <2>10. {c.key : c \in charges'} = ({c.key : c \in charges} \ dead) \cup {k}
    <3>1. \A c \in charges' : (c \in charges /\ c.key \notin dead) \/ c.key = k
      BY <1>2
    <3>2. \A c \in charges : c.key \in dead \/ c.key = k \/ c \in charges'
      BY <1>2
    <3>3. x \in charges' /\ x.key = k
      BY <1>2
    <3> HIDE DEF dead, x
    <3> QED BY <3>1, <3>2, <3>3
  <2>11. {d.key : d \in due'} = ({d.key : d \in due} \ dead) \cup {k}
    <3> DEFINE y == [key |-> k, at |-> idempotencyNow + EntryTTL]
    <3> HIDE DEF dead
    <3>1. \A d \in due' : (d \in due /\ d.key \notin dead) \/ d.key = k
      BY <1>2
    <3>2. \A d \in due : d.key \in dead \/ d.key = k \/ d \in due'
      BY <1>2
    <3>3. y \in due' /\ y.key = k
      BY <1>2
    <3> HIDE DEF y
    <3> QED BY <3>1, <3>2, <3>3
  <2>12. {p.key : p \in Idem!Live'} \subseteq ({p.key : p \in Idem!Live} \ dead) \cup {k}
    <3> HIDE DEF dead
    <3> QED BY <1>0, <1>2 DEF Idem!Live
  <2>13. \A p \in pointers' : p.at \in Nat
    BY <1>2, <1>a DEF RedisInv
  <2>14. {c.key : c \in charges'} = {d.key : d \in due'}
         /\ {p.key : p \in Idem!Live'} \subseteq {c.key : c \in charges'}
    <3> HIDE DEF dead
    <3> QED BY <2>10, <2>11, <2>12 DEF RedisInv
  <2>15. idempotencyNow' \in Nat
    BY DEF RedisInv
  <2> QED BY <2>5, <2>6, <2>8, <2>9, <2>13, <2>14, <2>15 DEF RedisInv
<1> HIDE DEF dead
<1> QED BY <1>1, <1>2, SameCount DEF Idem!CachePut, dead


\* Steps that change neither cache.
LEMMA RedisQuiet ==
  ASSUME RedisInv, UNCHANGED <<pointers, due, charges, count, bytes, idempotencyNow>>,
         stamp' \in [Request -> Nat]
  PROVE  RedisInv'
BY DEF RedisInv, Idem!Live

\* A step that leaves the local cache alone keeps its account.
LEMMA LocalQuiet ==
  ASSUME LocalInv, UNCHANGED <<entries, expiry, retained>>
  PROVE  LocalInv'
BY DEF LocalInv

\* Every step keeps the accounts of both caches.
LEMMA NextAccount ==
  ASSUME LocalInv, RedisInv, [Idem!Next]_(Idem!vars)
  PROVE  LocalInv' /\ RedisInv'
<1> DEFINE Good == LocalInv' /\ RedisInv'
<1> USE DEF Idem!localVars, Idem!redisVars, Idem!handler
<1>0. stamp \in [Request -> Nat] /\ idempotencyNow \in Nat
  BY DEF RedisInv
<1>1. ASSUME NEW r \in Request, \/ Idem!Arrives(r) \/ Idem!TerminalRead(r) \/ Idem!Executes(r)
                                \/ Idem!ExecutionFails(r) \/ Idem!Drops(r) \/ Idem!StoreEntered(r)
                                \/ Idem!TerminalExtended(r) \/ Idem!TerminalCleaned(r)
      PROVE  Good
  <2>1. UNCHANGED <<entries, expiry, retained, pointers, due, charges, count, bytes,
                    idempotencyNow>>
    BY <1>1 DEF Idem!Arrives, Idem!TerminalRead, Idem!Executes, Idem!ExecutionFails, Idem!Drops,
                Idem!StoreEntered, Idem!TerminalExtended, Idem!TerminalCleaned
  <2>2. stamp' \in [Request -> Nat]
    BY <1>0, <1>1 DEF Idem!Arrives, Idem!TerminalRead, Idem!Executes, Idem!ExecutionFails,
          Idem!Drops, Idem!StoreEntered, Idem!TerminalExtended, Idem!TerminalCleaned, Idem!Answers
  <2> QED BY <2>1, <2>2, LocalQuiet, RedisQuiet
<1>2. ASSUME NEW r \in Request, Idem!LocalLookup(r) PROVE Good
  <2> DEFINE dead == {e \in Idem!Under("scoped", req[r].key) : e.at <= idempotencyNow}
  <2>1. dead \in SUBSET entries /\ Idem!Replaces(dead, {})
    BY <1>2 DEF Idem!LocalLookup, Idem!Under
  <2>2. RedisInv'
    <3>1. UNCHANGED <<pointers, due, charges, count, bytes, idempotencyNow, stamp>>
      BY <1>2 DEF Idem!LocalLookup, Idem!Misses, Idem!Answers
    <3> QED BY <1>0, <3>1, RedisQuiet
  <2> QED BY <2>1, <2>2, Leaves
<1>3. ASSUME NEW r \in Request, Idem!LocalStore(r) PROVE Good
  <2>1. LocalInv'
    BY <1>3, StoreAccounted DEF Idem!LocalStore
  <2>2. UNCHANGED <<pointers, due, charges, count, bytes, idempotencyNow, stamp>>
    BY <1>3 DEF Idem!LocalStore, Idem!Answers
  <2> QED BY <1>0, <2>1, <2>2, RedisQuiet
<1>4. ASSUME NEW k, NEW size \in EntrySize, NEW t, Idem!GenericPut(k, size, t) PROVE Good
  <2>1. LocalInv'
    BY <1>4, StoreAccounted DEF Idem!GenericPut
  <2>2. UNCHANGED <<pointers, due, charges, count, bytes, idempotencyNow, stamp>>
    BY <1>4 DEF Idem!GenericPut
  <2> QED BY <1>0, <2>1, <2>2, RedisQuiet
<1>5. ASSUME NEW k, Idem!GenericGet(k) PROVE Good
  <2> DEFINE dead == {e \in Idem!Under("generic", k) : e.at <= idempotencyNow}
  <2>1. dead \in SUBSET entries /\ Idem!Replaces(dead, {})
    BY <1>5 DEF Idem!GenericGet, Idem!Under
  <2>2. UNCHANGED <<pointers, due, charges, count, bytes, idempotencyNow, stamp>>
    BY <1>5 DEF Idem!GenericGet
  <2>3. RedisInv'
    BY <1>0, <2>2, RedisQuiet
  <2> QED BY <2>1, <2>3, Leaves
<1>6. ASSUME NEW r \in Request, Idem!PointerGet(r) PROVE Good
  <2>0. UNCHANGED <<entries, expiry, retained, idempotencyNow, stamp>>
    BY <1>6 DEF Idem!PointerGet, Idem!Misses, Idem!Answers
  <2>1. CASE UNCHANGED <<pointers, due, charges, count, bytes>>
    BY <1>0, <2>0, <2>1, LocalQuiet, RedisQuiet
  <2>2. CASE Idem!CacheGet(req[r].key)
    <3> DEFINE k == req[r].key
    <3>1. CASE \E p \in Idem!Live : p.key = k
      BY <2>1, <2>2, <3>1 DEF Idem!CacheGet
    <3>2. CASE ~\E p \in Idem!Live : p.key = k
      <4>1. Idem!Reconciles({k}) /\ UNCHANGED pointers
        BY <2>2, <3>2 DEF Idem!CacheGet
      <4>2. {p.key : p \in Idem!Live'} \subseteq {p.key : p \in Idem!Live} \ {k}
        BY <2>0, <3>2, <4>1 DEF Idem!Live
      <4>3. RedisInv'
        BY <1>0, <2>0, <4>1, <4>2, GivesBack
      <4> QED BY <2>0, <4>3, LocalQuiet
    <3> QED BY <3>1, <3>2
  <2> QED BY <1>6, <2>1, <2>2 DEF Idem!PointerGet
<1>7. ASSUME NEW r \in Request, Idem!PointerPut(r) PROVE Good
  <2>0. /\ UNCHANGED <<entries, expiry, retained, idempotencyNow>>
        /\ stamp' \in [Request -> Nat]
    BY <1>0, <1>7 DEF Idem!PointerPut
  <2>1. CASE UNCHANGED <<pointers, due, charges, count, bytes>>
    BY <2>0, <2>1, LocalQuiet, RedisQuiet
  <2>2. ASSUME NEW size \in EntrySize, Idem!CachePut(req[r].key, req[r].print, r, size)
        PROVE  Good
    BY <2>0, <2>2, LocalQuiet, PutAccounted
  <2> QED BY <1>7, <2>1, <2>2 DEF Idem!PointerPut
<1>8. ASSUME Idem!CacheCleanup PROVE Good
  <2>0. UNCHANGED <<entries, expiry, retained, idempotencyNow, stamp>>
    BY <1>8 DEF Idem!CacheCleanup
  <2>1. PICK ks : Idem!Reconciles(ks) /\ pointers' = {p \in pointers : p.key \notin ks}
    BY <1>8 DEF Idem!CacheCleanup
  <2>2. {p.key : p \in Idem!Live'} \subseteq {p.key : p \in Idem!Live} \ ks
    BY <2>0, <2>1 DEF Idem!Live
  <2>3. RedisInv'
    BY <1>0, <2>0, <2>1, <2>2, GivesBack
  <2> QED BY <2>0, <2>3, LocalQuiet
<1>9. ASSUME Idem!Tick PROVE Good
  <2>1. /\ UNCHANGED <<entries, expiry, retained, pointers, due, charges, count, bytes, stamp>>
        /\ idempotencyNow' = idempotencyNow + 1
    BY <1>9 DEF Idem!Tick
  <2>2. Idem!Live' \subseteq Idem!Live
    BY <1>0, <2>1 DEF Idem!Live, RedisInv
  <2>3. {p.key : p \in Idem!Live'} \subseteq {c.key : c \in charges}
    BY <2>2 DEF RedisInv
  <2>4. idempotencyNow' \in Nat
    BY <1>0, <2>1
  <2>5. RedisInv'
    BY <2>1, <2>3, <2>4 DEF RedisInv
  <2> QED BY <2>1, <2>5, LocalQuiet
<1>10. ASSUME UNCHANGED Idem!vars PROVE Good
  BY <1>0, <1>10, LocalQuiet, RedisQuiet DEF Idem!vars
<1> QED BY <1>1, <1>2, <1>3, <1>4, <1>5, <1>6, <1>7, <1>8, <1>9, <1>10
        DEF Idem!Next, Idem!Handles, Idem!Generic

\* Index, footprint and counters of the local and of the Redis cache are those
\* of what they hold, and within the limits, after any order of stores, lookups,
\* cleanups, replacements and native expiries.
THEOREM CacheAccountedHolds == Spec => []CacheAccounted
<1> DEFINE Inv == component = "idempotency" => LocalInv /\ RedisInv
<1>1. Init => Inv
  BY InitAccount DEF Init
<1>2. Inv /\ [Next]_vars => Inv'
  <2> SUFFICES ASSUME Inv, [Next]_vars, component' = "idempotency" PROVE LocalInv' /\ RedisInv'
    OBVIOUS
  <2>1. component = "idempotency" /\ [Idem!Next]_(Idem!vars)
    BY DEF Next, vars, idempotencyVars, Idem!vars, Idem!handler, Idem!localVars, Idem!redisVars
  <2> QED BY <2>1, NextAccount
<1>3. Inv => CacheAccounted
  BY SameCount DEF CacheAccounted, Idem!CacheAccounted, LocalInv, RedisInv, IndexOf
<1> QED BY <1>1, <1>2, <1>3, PTL DEF Spec

-----------------------------------------------------------------------------
(***************************************************************************)
(* The ledger the replicas share.  A window that is not frozen has counted *)
(* its liabilities and the legacy spending applied to it; of the current   *)
(* window the floor covers what was read of that spending, or the ledger   *)
(* is halted beyond its end.                                               *)
(***************************************************************************)

FleetRecord ==
    [window : Nat, bounded : BOOLEAN, liability : Nat, observed : Nat \cup {-1},
     providerFloor : Nat \cup {-1}, terminalCatalog : Nat \cup {-1},
     terminalProvider : Nat \cup {-1}, finalized : BOOLEAN]

Counts(f) == \A w \in DOMAIN f : f[w] \in Nat

FleetTypes ==
    /\ fleetNow \in Nat /\ halt \in Nat
    /\ IsFiniteSet(DOMAIN record) /\ \A a \in DOMAIN record : record[a] \in FleetRecord
    /\ \A w \in DOMAIN total : w \in 0..fleetNow /\ total[w] \in Int
    /\ Counts(known) /\ Counts(applied) /\ Counts(read)
    /\ \A w \in DOMAIN legacy : legacy[w] \in Nat \cup {-2}
    /\ \A a \in Attempt : scope[a].floor \in Nat
    /\ DOMAIN scope = Attempt

\* The attempts of a window and what they are liable for.
Liable(w) == SumOf([a \in {b \in DOMAIN record : record[b].window = w} |-> record[a].liability])

\* What is known of the older replicas' spending.
Floor(w) == IF w \in DOMAIN known THEN known[w] ELSE Fleet!Get(applied, w)

WindowCovered(w) ==
    /\ w \in DOMAIN known => Fleet!Get(applied, w) <= known[w]
    /\ w \notin frozen => Liable(w) + Fleet!Get(applied, w) <= Fleet!Get(total, w)
    /\ Fleet!Get(read, w) <= Floor(w) \/ Fleet!ExpiresAt(w) <= halt

FleetInv ==
    /\ FleetTypes
    /\ \A a \in DOMAIN record : record[a].window \in DOMAIN total
    /\ DOMAIN applied \subseteq DOMAIN total
    /\ \A w \in Nat : WindowCovered(w)

\* A window does not end before its keys expire.
LEMMA WindowEnds ==
  ASSUME NEW n \in Nat
  PROVE  /\ n \div WindowSecs \in Nat /\ n \div WindowSecs <= n
         /\ n < Fleet!ExpiresAt(n \div WindowSecs)
<1>1. WindowSecs \in Nat /\ WindowSecs > 0 /\ FleetRetention \in Nat
  BY ComponentsAssumption
<1> DEFINE q == n \div WindowSecs
           m == n % WindowSecs
<1>2. q \in Int /\ m \in 0..(WindowSecs - 1) /\ n = WindowSecs * q + m
  BY <1>1
<1> HIDE DEF q, m
<1>3. q >= 0
  <2>1. CASE q <= -1
    <3>1. WindowSecs * q <= - WindowSecs
      BY <1>1, <1>2, <2>1
    <3> QED BY <1>1, <1>2, <3>1
  <2> QED BY <1>2, <2>1
<1>4. q <= WindowSecs * q /\ (q + 1) * WindowSecs = WindowSecs * q + WindowSecs
  BY <1>1, <1>2, <1>3
<1>5. n < (q + 1) * WindowSecs + FleetRetention /\ q <= n
  <2> DEFINE p == WindowSecs * q
             e == (q + 1) * WindowSecs
  <2>1. p \in Int /\ e = p + WindowSecs /\ q <= p /\ n = p + m
    BY <1>1, <1>2, <1>4
  <2> HIDE DEF p, e
  <2>2. n < e + FleetRetention /\ q <= n
    BY <1>1, <1>2, <2>1
  <2> QED BY <2>2 DEF e
<1> QED BY <1>2, <1>3, <1>5 DEF q, Fleet!ExpiresAt


\* The larger of two numbers.
LEMMA LargerOf ==
  ASSUME NEW a \in Int, NEW b \in Int
  PROVE  Fleet!Max({a, b}) = IF a >= b THEN a ELSE b
<1>1. \E x \in {a, b} : \A y \in {a, b} : x >= y
  OBVIOUS
<1>2. /\ Fleet!Max({a, b}) \in {a, b}
      /\ \A y \in {a, b} : Fleet!Max({a, b}) >= y
  <2> HIDE <1>1
  <2>1. Fleet!Max({a, b}) = CHOOSE x \in {a, b} : \A y \in {a, b} : x >= y
    BY Zenon DEF Fleet!Max
  <2> QED BY <1>1, <2>1
<1> HIDE DEF Fleet!Max
<1> QED BY <1>2

\* The smaller of two numbers.
LEMMA SmallerOf ==
  ASSUME NEW a \in Int, NEW b \in Int
  PROVE  Fleet!Min({a, b}) = IF a <= b THEN a ELSE b
<1>1. \E x \in {a, b} : \A y \in {a, b} : x =< y
  OBVIOUS
<1>2. /\ Fleet!Min({a, b}) \in {a, b}
      /\ \A y \in {a, b} : Fleet!Min({a, b}) =< y
  <2>1. Fleet!Min({a, b}) = CHOOSE x \in {a, b} : \A y \in {a, b} : x =< y
    BY Zenon DEF Fleet!Min
  <2> QED BY <1>1, <2>1
<1> QED BY <1>2

\* RedisLedger sums as this module does.
LEMMA FleetSum ==
  ASSUME NEW f
  PROVE  Fleet!SumOf(f) = SumOf(f)
<1>1. ASSUME NEW S PROVE Fleet!Cardinality(S) = Cardinality(S)
  BY Zenon DEF Fleet!Cardinality, Cardinality
<1> QED BY <1>1 DEF Fleet!SumOf, Fleet!UnitsOf, SumOf, UnitsOf

\* What a window's attempts are worth.
LiableMap(w) == [a \in {b \in DOMAIN record : record[b].window = w} |-> record[a].liability]

\* The liabilities of a window have a sum.
LEMMA LiableType ==
  ASSUME FleetInv, NEW w
  PROVE  Summable(LiableMap(w)) /\ Liable(w) = SumOf(LiableMap(w)) /\ Liable(w) \in Nat
<1>1. Summable(LiableMap(w))
  <2>1. IsFiniteSet({b \in DOMAIN record : record[b].window = w})
    BY FS_Subset DEF FleetInv, FleetTypes
  <2> QED BY <2>1 DEF Summable, LiableMap, FleetInv, FleetTypes, FleetRecord
<1> QED BY <1>1, SumType DEF Liable, LiableMap

\* An attempt that is admitted.
LEMMA LiableAdds ==
  ASSUME FleetInv, NEW a, a \notin DOMAIN record, NEW r, r.liability \in Nat,
         record' = Fleet!Set(record, a, r)
  PROVE  \A w : Liable(w)' = IF w = r.window THEN Liable(w) + r.liability ELSE Liable(w)
<1> SUFFICES ASSUME NEW w
             PROVE  Liable(w)' = IF w = r.window THEN Liable(w) + r.liability ELSE Liable(w)
  OBVIOUS
<1> DEFINE old == LiableMap(w)
           new == [b \in {c \in DOMAIN record' : record'[c].window = w} |-> record'[b].liability]
<1>0. /\ DOMAIN record' = DOMAIN record \cup {a} /\ record'[a] = r
      /\ \A b \in DOMAIN record : record'[b] = record[b]
  BY DEF Fleet!Set
<1>1. Liable(w)' = SumOf(new) /\ Liable(w) = SumOf(old) /\ Summable(old)
  BY LiableType DEF Liable, LiableMap
<1>2. CASE w = r.window
  <2>1. /\ DOMAIN old = DOMAIN new \ {a} /\ a \in DOMAIN new /\ new[a] = r.liability
        /\ \A b \in DOMAIN old : old[b] = new[b]
    BY <1>0, <1>2 DEF LiableMap
  <2>2. Summable(new)
    <3>1. DOMAIN new = DOMAIN old \cup {a}
      BY <2>1
    <3>2. IsFiniteSet(DOMAIN new)
      BY <1>1, <3>1, FS_AddElement DEF Summable
    <3> HIDE DEF old, new
    <3> QED BY <1>1, <2>1, <3>1, <3>2 DEF Summable
  <2> HIDE DEF old, new
  <2>3. SumOf(new) = SumOf(old) + r.liability
    BY <2>1, <2>2, SumSplit
  <2> QED BY <1>1, <1>2, <2>3
<1>3. CASE w # r.window
  <2>1. new = old
    BY <1>0, <1>3 DEF LiableMap
  <2> QED BY <1>1, <1>3, <2>1
<1> QED BY <1>2, <1>3

\* An attempt whose liability changes.
LEMMA LiableMoves ==
  ASSUME FleetInv, NEW a \in DOMAIN record, NEW r, r.liability \in Nat,
         r.window = record[a].window, record' = Fleet!Set(record, a, r)
  PROVE  \A w : Liable(w)' = IF w = r.window THEN Liable(w) - record[a].liability + r.liability
                             ELSE Liable(w)
<1> SUFFICES ASSUME NEW w
             PROVE  Liable(w)' = IF w = r.window THEN Liable(w) - record[a].liability + r.liability
                                 ELSE Liable(w)
  OBVIOUS
<1> DEFINE old == LiableMap(w)
           new == [b \in {c \in DOMAIN record' : record'[c].window = w} |-> record'[b].liability]
<1>0. /\ DOMAIN record' = DOMAIN record /\ record'[a] = r
      /\ \A b \in DOMAIN record : b # a => record'[b] = record[b]
  BY DEF Fleet!Set
<1>1. Liable(w)' = SumOf(new) /\ Liable(w) = SumOf(old) /\ Summable(old)
  BY LiableType DEF Liable, LiableMap
<1>2. CASE w = r.window
  <2>1. /\ DOMAIN new = DOMAIN old /\ a \in DOMAIN old
        /\ new[a] = r.liability /\ old[a] = record[a].liability
        /\ \A b \in DOMAIN old \ {a} : new[b] = old[b]
    BY <1>0, <1>2 DEF LiableMap
  <2> HIDE DEF old, new
  <2>2. SumOf(new) = SumOf(old) - old[a] + new[a]
    BY <1>1, <2>1, SumChange
  <2> QED BY <1>1, <1>2, <2>1, <2>2
<1>3. CASE w # r.window
  <2>1. new = old
    BY <1>0, <1>3 DEF LiableMap
  <2> QED BY <1>1, <1>3, <2>1
<1> QED BY <1>2, <1>3

\* The invariant holds of an empty ledger.
LEMMA InitFleet == Fleet!Init => FleetInv
<1> SUFFICES ASSUME Fleet!Init PROVE FleetInv
  OBVIOUS
<1>1. DOMAIN record = {} /\ DOMAIN total = {} /\ DOMAIN known = {} /\ DOMAIN applied = {}
      /\ DOMAIN read = {} /\ DOMAIN legacy = {} /\ frozen = {}
  BY DEF Fleet!Init
<1>2. FleetTypes
  BY <1>1, FS_EmptySet DEF FleetTypes, Fleet!Init, Counts, Fleet!NoScope
<1>3. ASSUME NEW w \in Nat PROVE WindowCovered(w)
  <2>1. Liable(w) = 0
    BY <1>1, SumEmpty DEF Liable
  <2> QED BY <1>1, <2>1 DEF WindowCovered, Fleet!Get, Floor
<1> QED BY <1>1, <1>2, <1>3 DEF FleetInv


\* A window expires at a time after 0.
LEMMA ExpiryType ==
  ASSUME NEW w \in Nat
  PROVE  Fleet!ExpiresAt(w) \in Nat /\ Fleet!ExpiresAt(w) > 0
<1>1. WindowSecs \in Nat /\ WindowSecs > 0 /\ FleetRetention \in Nat
  BY ComponentsAssumption
<1>2. (w + 1) * WindowSecs \in Nat /\ (w + 1) * WindowSecs > 0
  BY <1>1
<1> QED BY <1>1, <1>2 DEF Fleet!ExpiresAt

\* The values of the ledger's keys, present or not.
LEMMA GetType ==
  ASSUME FleetInv, NEW w
  PROVE  /\ Fleet!Get(applied, w) \in Nat /\ Fleet!Get(read, w) \in Nat
         /\ Fleet!Get(total, w) \in Int /\ Floor(w) \in Nat
BY DEF FleetInv, FleetTypes, Counts, Fleet!Get, Floor

\* Both admitting scripts: the floor they keep covers what was known and what
\* came in, or the ledger halts beyond the window.
LEMMA FloorKept ==
  ASSUME FleetInv, NEW w \in Nat, NEW incoming \in Nat, NEW i,
         Fleet!KeepsFloor(i, w, Fleet!KnownFloor(w, incoming))
  PROVE  /\ Fleet!KnownFloor(w, incoming) \in Nat
         /\ Floor(w) <= Fleet!KnownFloor(w, incoming)
         /\ incoming <= Fleet!KnownFloor(w, incoming)
         /\ Counts(known') /\ halt' \in Nat /\ halt <= halt'
         /\ \A v : v # w => /\ v \in DOMAIN known' <=> v \in DOMAIN known
                            /\ v \in DOMAIN known => known'[v] = known[v]
         /\ \/ w \in DOMAIN known' /\ known'[w] = Fleet!KnownFloor(w, incoming)
            \/ Fleet!KnownFloor(w, incoming) = 0 /\ known' = known
            \/ Fleet!ExpiresAt(w) <= halt' /\ known' = known
<1> DEFINE floor == Fleet!KnownFloor(w, incoming)
<1>1. floor = IF Floor(w) >= incoming THEN Floor(w) ELSE incoming
  BY GetType, LargerOf DEF Fleet!KnownFloor, Floor
<1>2. floor \in Nat /\ Floor(w) <= floor /\ incoming <= floor
  BY <1>1, GetType
<1>3. Fleet!Halted(w) = IF halt >= Fleet!ExpiresAt(w) THEN halt ELSE Fleet!ExpiresAt(w)
  BY ExpiryType, LargerOf DEF Fleet!Halted, FleetInv, FleetTypes
<1>4. halt \in Nat /\ Counts(known)
  BY DEF FleetInv, FleetTypes
<1>5. halt' \in Nat /\ halt <= halt'
  BY <1>3, <1>4, ExpiryType DEF Fleet!KeepsFloor
<1> HIDE DEF floor
<1>6. ASSUME floor > 0, Fleet!OfFloor(w) \in DOMAIN i
      PROVE  /\ Counts(known') /\ w \in DOMAIN known' /\ known'[w] = floor
             /\ \A v : v # w => /\ v \in DOMAIN known' <=> v \in DOMAIN known
                                /\ v \in DOMAIN known => known'[v] = known[v]
  <2>1. known' = Fleet!Set(known, w, floor)
    BY <1>6 DEF Fleet!KeepsFloor, floor
  <2> QED BY <1>2, <1>4, <2>1 DEF Fleet!Set, Counts
<1>7. ASSUME floor > 0, Fleet!OfFloor(w) \notin DOMAIN i
      PROVE  known' = known /\ Fleet!ExpiresAt(w) <= halt'
  BY <1>3, <1>4, <1>7, ExpiryType DEF Fleet!KeepsFloor, floor
<1>8. ASSUME floor = 0 PROVE known' = known
  BY <1>8 DEF Fleet!KeepsFloor, floor
<1>9. floor > 0 \/ floor = 0
  BY <1>2
<1> QED BY <1>2, <1>4, <1>5, <1>6, <1>7, <1>8, <1>9 DEF floor

\* A floor that is kept, with what was read of the legacy count, and neither
\* totals nor liabilities changed.
LEMMA FloorStep ==
  ASSUME FleetInv, NEW w \in Nat, NEW incoming \in Nat, NEW i,
         Fleet!KeepsFloor(i, w, Fleet!KnownFloor(w, incoming)),
         FleetTypes', UNCHANGED <<record, total, applied, frozen>>,
         \A v : v # w => Fleet!Get(read', v) = Fleet!Get(read, v),
         Fleet!Get(read', w) <= Fleet!Get(read, w) \/ Fleet!Get(read', w) <= incoming
  PROVE  FleetInv'
<1> DEFINE floor == Fleet!KnownFloor(w, incoming)
<1>1. /\ floor \in Nat /\ Floor(w) <= floor /\ incoming <= floor
      /\ halt' \in Nat /\ halt <= halt'
      /\ \A v : v # w => /\ v \in DOMAIN known' <=> v \in DOMAIN known
                         /\ v \in DOMAIN known => known'[v] = known[v]
      /\ \/ w \in DOMAIN known' /\ known'[w] = floor
         \/ floor = 0 /\ known' = known
         \/ Fleet!ExpiresAt(w) <= halt' /\ known' = known
  BY FloorKept
<1> HIDE DEF floor
<1>2. ASSUME NEW v \in Nat PROVE WindowCovered(v)'
  <2>1. /\ Fleet!Get(applied, v) \in Nat /\ Fleet!Get(read, v) \in Nat /\ Floor(v) \in Nat
        /\ Fleet!ExpiresAt(v) \in Nat /\ halt \in Nat
    BY GetType, ExpiryType DEF FleetInv, FleetTypes
  <2>2. Liable(v)' = Liable(v)
    BY DEF Liable
  <2>3. WindowCovered(v)
    BY DEF FleetInv
  <2>4. Fleet!Get(read', v) \in Nat
    BY DEF FleetTypes, Counts, Fleet!Get
  <2>5. CASE v # w
    <3>1. Floor(v)' = Floor(v) /\ (v \in DOMAIN known' => v \in DOMAIN known /\ known'[v] = known[v])
      BY <1>1, <2>5 DEF Floor, Fleet!Get
    <3>2. Fleet!Get(read', v) = Fleet!Get(read, v)
      BY <2>5
    <3>3. Fleet!Get(read, v) <= Floor(v)' \/ Fleet!ExpiresAt(v) <= halt'
      BY <1>1, <2>1, <2>3, <3>1 DEF WindowCovered
    <3> QED BY <2>2, <2>3, <3>1, <3>2, <3>3 DEF WindowCovered, Fleet!Get, Fleet!ExpiresAt
  <2>6. CASE v = w
    <3>1. Fleet!Get(applied, w) <= Floor(w)
      BY <2>1, <2>3, <2>6 DEF Floor, WindowCovered
    <3>2. w \in DOMAIN known' => Fleet!Get(applied, w) <= known'[w]
      BY <1>1, <2>1, <2>3, <2>6, <3>1 DEF WindowCovered
    <3>3. Fleet!Get(read', w) <= Floor(w)' \/ Fleet!ExpiresAt(w) <= halt'
      <4>1. CASE w \in DOMAIN known' /\ known'[w] = floor
        <5>1. Floor(w)' = floor
          BY <4>1 DEF Floor
        <5>2. Fleet!Get(read, w) <= floor \/ Fleet!ExpiresAt(w) <= halt'
          BY <1>1, <2>1, <2>3, <2>6 DEF WindowCovered
        <5> QED BY <1>1, <2>1, <2>4, <2>6, <5>1, <5>2
      <4>2. CASE floor = 0 /\ known' = known
        <5>1. Floor(w)' = Floor(w) /\ Floor(w) = 0 /\ incoming = 0
          BY <1>1, <2>1, <2>6, <4>2 DEF Floor, Fleet!Get
        <5>2. Fleet!Get(read, w) <= 0 \/ Fleet!ExpiresAt(w) <= halt'
          BY <1>1, <2>1, <2>3, <2>6, <5>1 DEF WindowCovered
        <5> QED BY <2>1, <2>4, <2>6, <5>1, <5>2
      <4> QED BY <1>1, <4>1, <4>2
    <3> QED BY <2>2, <2>3, <2>6, <3>2, <3>3 DEF WindowCovered, Fleet!Get, Fleet!ExpiresAt
  <2> QED BY <2>5, <2>6
<1> QED BY <1>2 DEF FleetInv


\* Where a request goes next.
LEMMA ScopeKept ==
  ASSUME FleetInv, NEW a \in Attempt, NEW place, NEW sc, sc.floor \in Nat,
         Fleet!Then(a, place, sc)
  PROVE  DOMAIN scope' = Attempt /\ \A b \in Attempt : scope'[b].floor \in Nat
BY DEF Fleet!Then, FleetInv, FleetTypes, Fleet!NoScope

\* COMBINED_RATE_LUA admits within the cap.
LEMMA AdmittedStep ==
  ASSUME FleetInv, NEW a \in Attempt, NEW q \in Quote, Fleet!Admitted(a, q)
  PROVE  FleetInv' /\ Fleet!AdmitsWithinCap
<1>1. PICK w \in Nat : w = Fleet!CurrentWindow /\ w <= fleetNow /\ fleetNow \in Nat
  BY WindowEnds DEF Fleet!CurrentWindow, FleetInv, FleetTypes
<1> DEFINE incoming == IF scope[a].window = w THEN scope[a].floor ELSE 0
           floor == Fleet!FloorFor(a, w)
           spent == Fleet!Get(total, w) + floor - Fleet!Get(applied, w)
           amount == IF q.bounded THEN q.amount ELSE Limit - spent
           r == Fleet!Fresh(w, q, amount)
<1>0. q.bounded \in BOOLEAN /\ q.amount \in Nat /\ Limit \in Nat
  BY ComponentsAssumption
<1>2. incoming \in Nat /\ floor = Fleet!KnownFloor(w, incoming)
  BY DEF FleetInv, FleetTypes, Fleet!FloorFor
<1>3. PICK i : Fleet!KeepsFloor(Fleet!Listed(i, w, floor), w, floor)
  BY <1>1 DEF Fleet!Admitted
<1>4. /\ halt' = 0 /\ a \notin DOMAIN record /\ w \notin frozen
      /\ Fleet!Room(w, floor, q)
      /\ total' = Fleet!Set(total, w, spent + amount)
      /\ applied' = IF floor > 0 THEN Fleet!Set(applied, w, floor) ELSE applied
      /\ record' = Fleet!Set(record, a, r)
      /\ Fleet!Then(a, "running", Fleet!NoScope)
      /\ UNCHANGED <<fleetNow, legacy, frozen, read>>
  BY <1>1 DEF Fleet!Admitted
<1>5. Limit # 0 /\ (IF q.bounded THEN spent + q.amount <= Limit ELSE spent < Limit)
  BY <1>4 DEF Fleet!Room
<1> HIDE DEF floor, incoming
<1>6. /\ floor \in Nat /\ Floor(w) <= floor
      /\ Counts(known') /\ halt' \in Nat /\ halt <= halt'
      /\ \A v : v # w => /\ v \in DOMAIN known' <=> v \in DOMAIN known
                         /\ v \in DOMAIN known => known'[v] = known[v]
      /\ \/ w \in DOMAIN known' /\ known'[w] = floor
         \/ floor = 0 /\ known' = known
         \/ Fleet!ExpiresAt(w) <= halt' /\ known' = known
  BY <1>1, <1>2, <1>3, FloorKept
<1>7. halt = 0
  BY <1>4, <1>6 DEF FleetInv, FleetTypes
<1>8. \/ w \in DOMAIN known' /\ known'[w] = floor
      \/ floor = 0 /\ known' = known
  <2>1. Fleet!ExpiresAt(w) \in Nat /\ Fleet!ExpiresAt(w) > 0
    BY ExpiryType
  <2>2. ~(Fleet!ExpiresAt(w) <= halt')
    BY <1>4, <2>1
  <2> QED BY <1>6, <2>2
<1>9. /\ Fleet!Get(applied, w) \in Nat /\ Fleet!Get(read, w) \in Nat
      /\ Fleet!Get(total, w) \in Int /\ Floor(w) \in Nat /\ Liable(w) \in Nat
  BY GetType, LiableType
<1>10. spent \in Int
  BY <1>6, <1>9
<1>11. amount \in Nat /\ spent + amount <= Limit /\ spent + amount \in Int
  <2> HIDE DEF spent
  <2> QED BY <1>0, <1>5, <1>10
<1> HIDE DEF amount
<1>12. r.window = w /\ r.liability = amount /\ r \in FleetRecord
  BY <1>0, <1>1, <1>11 DEF Fleet!Fresh, FleetRecord, Fleet!None
<1> HIDE DEF r
<1>13. \A v : Liable(v)' = IF v = w THEN Liable(v) + amount ELSE Liable(v)
  BY <1>4, <1>11, <1>12, LiableAdds
<1>14. /\ Fleet!Get(applied, w) <= Floor(w)
       /\ Liable(w) + Fleet!Get(applied, w) <= Fleet!Get(total, w)
       /\ Fleet!Get(read, w) <= Floor(w)
  <2>1. WindowCovered(w) /\ Fleet!ExpiresAt(w) > 0 /\ Fleet!ExpiresAt(w) \in Nat
    BY <1>1, ExpiryType DEF FleetInv
  <2> QED BY <1>4, <1>7, <1>9, <2>1 DEF WindowCovered, Floor
<1>15. Liable(w) + amount + floor <= spent + amount /\ Liable(w) + amount + Fleet!Get(read, w) <= Limit
  <2> DEFINE T == Fleet!Get(total, w)
             A == Fleet!Get(applied, w)
             R == Fleet!Get(read, w)
             F == Floor(w)
             L == Liable(w)
  <2>1. /\ T \in Int /\ A \in Nat /\ R \in Nat /\ F \in Nat /\ L \in Nat /\ floor \in Nat
        /\ amount \in Nat /\ F <= floor /\ L + A <= T /\ R <= F /\ spent = T + floor - A
        /\ spent + amount <= Limit
    BY <1>6, <1>9, <1>11, <1>14
  <2> HIDE DEF T, A, R, F, L, spent
  <2>2. L + amount + floor <= spent + amount /\ L + amount + R <= Limit
    BY <1>0, <2>1
  <2> QED BY <2>2 DEF L, R
<1>16. /\ DOMAIN record' = DOMAIN record \cup {a} /\ record'[a] = r
       /\ \A b \in DOMAIN record : record'[b] = record[b]
  BY <1>4 DEF Fleet!Set
<1>17. Fleet!AdmitsWithinCap
  <2> SUFFICES ASSUME NEW b \in DOMAIN record' \ DOMAIN record
               PROVE  /\ halt = 0 /\ record'[b].window \notin frozen
                      /\ Fleet!LiableNext(record'[b].window)
                           + Fleet!Get(read, record'[b].window) <= Limit
    BY DEF Fleet!AdmitsWithinCap
  <2>1. b = a /\ record'[b].window = w
    BY <1>12, <1>16
  <2>2. Fleet!LiableNext(w) = Liable(w)'
    BY FleetSum DEF Fleet!LiableNext, Liable
  <2> HIDE DEF spent
  <2> QED BY <1>4, <1>7, <1>13, <1>15, <2>1, <2>2
<1>18. /\ DOMAIN total' = DOMAIN total \cup {w} /\ total'[w] = spent + amount
       /\ \A v \in DOMAIN total : v # w => total'[v] = total[v]
  BY <1>4 DEF Fleet!Set
<1>19. /\ DOMAIN applied' \subseteq DOMAIN applied \cup {w}
       /\ \A v : v # w => Fleet!Get(applied', v) = Fleet!Get(applied, v)
       /\ Fleet!Get(applied', w) = floor /\ Counts(applied')
  <2>1. CASE floor > 0
    BY <1>4, <1>6, <2>1 DEF Fleet!Set, Fleet!Get, Counts, FleetInv, FleetTypes
  <2>2. CASE floor = 0
    <3>1. Fleet!Get(applied, w) = 0
      BY <1>6, <1>9, <1>14, <2>2
    <3> QED BY <1>4, <2>2, <3>1 DEF FleetInv, FleetTypes
  <2> QED BY <1>6, <2>1, <2>2
<1>20. FleetTypes'
  <2>1. IsFiniteSet(DOMAIN record')
    BY <1>16, FS_AddElement DEF FleetInv, FleetTypes
  <2>2. \A b \in DOMAIN record' : record'[b] \in FleetRecord
    BY <1>12, <1>16 DEF FleetInv, FleetTypes
  <2>3. \A v \in DOMAIN total' : v \in 0..fleetNow /\ total'[v] \in Int
    <3> HIDE DEF spent
    <3> QED BY <1>1, <1>11, <1>18 DEF FleetInv, FleetTypes
  <2>4. DOMAIN scope' = Attempt /\ \A b \in Attempt : scope'[b].floor \in Nat
    <3>1. Fleet!NoScope.floor \in Nat
      BY DEF Fleet!NoScope
    <3> QED BY <1>4, <3>1, ScopeKept
  <2> HIDE DEF spent
  <2> QED BY <1>4, <1>6, <1>19, <2>1, <2>2, <2>3, <2>4 DEF FleetTypes, FleetInv
<1>21. ASSUME NEW v \in Nat PROVE WindowCovered(v)'
  <2>1. CASE v # w
    <3>1. WindowCovered(v)
      BY DEF FleetInv
    <3>2. /\ Liable(v)' = Liable(v) /\ Fleet!Get(applied', v) = Fleet!Get(applied, v)
          /\ Fleet!Get(total', v) = Fleet!Get(total, v)
      BY <1>13, <1>18, <1>19, <2>1 DEF Fleet!Get
    <3>3. Floor(v)' = Floor(v) /\ (v \in DOMAIN known' => v \in DOMAIN known /\ known'[v] = known[v])
      BY <1>6, <2>1, <3>2 DEF Floor, Fleet!Get
    <3>4. halt' = halt /\ UNCHANGED <<frozen, read>>
      BY <1>4, <1>7
    <3> QED BY <3>1, <3>2, <3>3, <3>4 DEF WindowCovered, Fleet!Get, Fleet!ExpiresAt
  <2>2. CASE v = w
    <3>1. Fleet!Get(total', w) = spent + amount
      BY <1>18 DEF Fleet!Get
    <3>2. Liable(w)' + Fleet!Get(applied', w) <= Fleet!Get(total', w)
      <4> HIDE DEF spent
      <4> QED BY <1>6, <1>9, <1>11, <1>13, <1>15, <1>19, <3>1
    <3>3. w \in DOMAIN known' => Fleet!Get(applied', w) <= known'[w]
      <4>1. floor = 0 => \A u \in DOMAIN known' : 0 <= known'[u]
        BY <1>6 DEF Counts
      <4> QED BY <1>6, <1>8, <1>19, <4>1
    <3>4. Floor(w)' >= floor
      <4>1. Floor(w)' = IF w \in DOMAIN known' THEN known'[w] ELSE Fleet!Get(applied', w)
        BY DEF Floor, Fleet!Get
      <4> QED BY <1>6, <1>8, <1>19, <3>3, <4>1
    <3>5. Fleet!Get(read', w) <= Floor(w)'
      <4>1. Floor(w)' \in Nat
        BY <1>6, <1>19 DEF Counts, Floor, Fleet!Get
      <4> QED BY <1>4, <1>6, <1>9, <1>14, <3>4, <4>1
    <3> QED BY <2>2, <3>2, <3>3, <3>5 DEF WindowCovered, Fleet!Get
  <2> QED BY <2>1, <2>2
<1>22. \A b \in DOMAIN record' : record'[b].window \in DOMAIN total'
  BY <1>12, <1>16, <1>18 DEF FleetInv
<1>23. DOMAIN applied' \subseteq DOMAIN total'
  BY <1>18, <1>19 DEF FleetInv
<1> QED BY <1>17, <1>20, <1>21, <1>22, <1>23 DEF FleetInv


\* An attempt's record moves its window's total with its liability.
LEMMA RepriceStep ==
  ASSUME FleetInv, NEW a \in DOMAIN record, NEW r \in FleetRecord,
         r.window = record[a].window, record' = Fleet!Set(record, a, r),
         DOMAIN total' = DOMAIN total,
         \A w \in DOMAIN total : total'[w] \in Int /\ (w # r.window => total'[w] = total[w]),
         frozen \subseteq frozen', frozen' \subseteq frozen \cup {r.window},
         r.window \notin frozen' =>
            total[r.window] + r.liability - record[a].liability <= total'[r.window],
         UNCHANGED <<fleetNow, legacy, known, applied, halt, read>>,
         DOMAIN scope' = Attempt, \A b \in Attempt : scope'[b].floor \in Nat
  PROVE  FleetInv'
<1>1. /\ DOMAIN record' = DOMAIN record /\ record'[a] = r
      /\ \A b \in DOMAIN record : b # a => record'[b] = record[b]
  BY DEF Fleet!Set
<1>2. r.liability \in Nat /\ record[a].liability \in Nat
  BY DEF FleetRecord, FleetInv, FleetTypes
<1>3. \A w : Liable(w)' = IF w = r.window THEN Liable(w) - record[a].liability + r.liability
                          ELSE Liable(w)
  BY <1>2, LiableMoves
<1>4. FleetTypes'
  BY <1>1 DEF FleetInv, FleetTypes, Counts
<1>5. r.window \in DOMAIN total /\ \A b \in DOMAIN record' : record'[b].window \in DOMAIN total'
  BY <1>1 DEF FleetInv
<1>6. ASSUME NEW w \in Nat PROVE WindowCovered(w)'
  <2>1. WindowCovered(w) /\ Liable(w) \in Nat /\ Fleet!Get(applied, w) \in Nat
        /\ Fleet!Get(total, w) \in Int
    BY GetType, LiableType DEF FleetInv
  <2>2. ASSUME w \notin frozen' PROVE Liable(w)' + Fleet!Get(applied, w) <= Fleet!Get(total', w)
    <3>1. Liable(w) + Fleet!Get(applied, w) <= Fleet!Get(total, w)
      BY <2>1, <2>2 DEF WindowCovered
    <3>2. CASE w = r.window
      <4>1. Fleet!Get(total, w) = total[w] /\ Fleet!Get(total', w) = total'[w] /\ total'[w] \in Int
        BY <1>5, <3>2 DEF Fleet!Get
      <4>2. total[w] + r.liability - record[a].liability <= total'[w]
        BY <2>2, <3>2
      <4>3. Liable(w)' = Liable(w) - record[a].liability + r.liability
        BY <1>3, <3>2
      <4> QED BY <1>2, <2>1, <3>1, <4>1, <4>2, <4>3
    <3>3. CASE w # r.window
      <4>1. Liable(w)' = Liable(w) /\ Fleet!Get(total', w) = Fleet!Get(total, w)
        BY <1>3, <3>3 DEF Fleet!Get
      <4> QED BY <3>1, <4>1
    <3> QED BY <3>2, <3>3
  <2>3. Floor(w)' = Floor(w)
    BY DEF Floor, Fleet!Get
  <2> QED BY <2>1, <2>2, <2>3 DEF WindowCovered, Fleet!Get, Fleet!ExpiresAt
<1> QED BY <1>4, <1>5, <1>6 DEF FleetInv

\* A snapshot keeps the window and the liability.
LEMMA UpsertType ==
  ASSUME NEW r \in FleetRecord, NEW s \in Fleet!Spend
  PROVE  Fleet!Upsert(r, s) \in FleetRecord /\ Fleet!Upsert(r, s).window = r.window
         /\ Fleet!Upsert(r, s).liability = r.liability
<1>0. s.amount \in Amount \cup {-1} /\ s.provider \in BOOLEAN /\ s.terminal \in BOOLEAN
      /\ Amount \subseteq Nat
  BY ComponentsAssumption DEF Fleet!Spend, Fleet!None
<1>1. CASE s.amount = -1
  BY <1>1 DEF Fleet!Upsert, Fleet!None
<1>2. CASE s.amount # -1
  <2> DEFINE top(n) == Fleet!Max({n, s.amount})
  <2>1. s.amount \in Nat
    BY <1>0, <1>2
  <2>2. \A n \in Nat \cup {-1} : top(n) \in Nat
    BY <2>1, LargerOf
  <2> HIDE DEF top
  <2>3. top(r.providerFloor) \in Nat /\ top(r.terminalCatalog) \in Nat /\ top(r.observed) \in Nat
    BY <2>2 DEF FleetRecord
  <2> DEFINE final == s.terminal /\ (r.bounded \/ s.provider)
             u == [r EXCEPT
                     !.providerFloor = IF s.provider THEN top(r.providerFloor) ELSE @,
                     !.terminalProvider = IF final /\ s.provider THEN s.amount ELSE @,
                     !.terminalCatalog = IF final /\ ~s.provider THEN top(r.terminalCatalog) ELSE @,
                     !.observed = top(r.observed)]
  <2>4. Fleet!Upsert(r, s) = u
    BY <1>2 DEF Fleet!Upsert, Fleet!None, top
  <2> HIDE DEF final
  <2>5. u \in FleetRecord /\ u.window = r.window /\ u.liability = r.liability
    BY <2>1, <2>3 DEF FleetRecord
  <2> QED BY <2>4, <2>5
<1> QED BY <1>1, <1>2


\* An observed amount keeps the ledger's invariant.
LEMMA ObservesStep ==
  ASSUME FleetInv, NEW a \in Attempt, NEW s \in Fleet!Spend, Fleet!Observes(a, s)
  PROVE  FleetInv' /\ DOMAIN record' = DOMAIN record
<1> DEFINE r == Fleet!Upsert(record[a], s)
           w == r.window
           rise == r.observed - r.liability
           over == total[w] + rise > MaxExact
<1>0. a \in DOMAIN record /\ UNCHANGED <<fleetNow, legacy, known, applied, halt, read>>
      /\ Fleet!Then(a, "running", Fleet!NoScope)
  BY DEF Fleet!Observes
<1>1. /\ r \in FleetRecord /\ r.window = record[a].window /\ r.liability = record[a].liability
      /\ w \in DOMAIN total /\ total[w] \in Int
  BY <1>0, UpsertType DEF FleetInv, FleetTypes
<1>2. DOMAIN scope' = Attempt /\ \A b \in Attempt : scope'[b].floor \in Nat
  <2>1. Fleet!NoScope.floor \in Nat
    BY DEF Fleet!NoScope
  <2> QED BY <1>0, <2>1, ScopeKept
<1>3. MaxExact \in Nat
  BY ComponentsAssumption
<1>4. CASE rise <= 0
  <2>1. record' = Fleet!Set(record, a, r) /\ UNCHANGED <<total, frozen>>
    BY <1>4 DEF Fleet!Observes
  <2> HIDE DEF r
  <2>2. \A v \in DOMAIN total : total'[v] \in Int
    BY <2>1 DEF FleetInv, FleetTypes
  <2>3. total[r.window] + r.liability - record[a].liability <= total'[r.window]
    BY <1>1, <2>1 DEF FleetRecord
  <2>4. FleetInv'
    BY <1>0, <1>1, <1>2, <2>1, <2>2, <2>3, RepriceStep
  <2>5. DOMAIN record' = DOMAIN record
    BY <1>0, <2>1 DEF Fleet!Set
  <2> QED BY <2>4, <2>5
<1>5. CASE ~(rise <= 0)
  <2> DEFINE n == [r EXCEPT !.liability = IF over THEN MaxExact ELSE r.observed]
  <2>1. /\ record' = Fleet!Set(record, a, n)
        /\ total' = Fleet!Set(total, w, IF over THEN MaxExact ELSE total[w] + rise)
        /\ frozen' = IF over THEN frozen \cup {w} ELSE frozen
    BY <1>5 DEF Fleet!Observes
  <2> HIDE DEF r
  <2>2. /\ r.observed \in Nat /\ rise \in Int /\ r.liability \in Nat
    BY <1>1, <1>5 DEF FleetRecord
  <2>3. /\ n \in FleetRecord /\ n.window = record[a].window
        /\ n.liability = IF over THEN MaxExact ELSE r.observed
    BY <1>1, <1>3, <2>2 DEF FleetRecord
  <2> HIDE DEF n
  <2>4. /\ DOMAIN total' = DOMAIN total
        /\ \A v \in DOMAIN total : total'[v] \in Int /\ (v # n.window => total'[v] = total[v])
        /\ total'[w] = IF over THEN MaxExact ELSE total[w] + rise
    <3> DEFINE t == IF over THEN MaxExact ELSE total[w] + rise
    <3>1. t \in Int
      BY <1>1, <1>3, <2>2
    <3>2. \A v \in DOMAIN total : total[v] \in Int
      BY DEF FleetInv, FleetTypes
    <3>3. total' = Fleet!Set(total, w, t) /\ n.window = w
      BY <1>1, <2>1, <2>3
    <3> HIDE DEF t, w
    <3>4. /\ DOMAIN total' = DOMAIN total
          /\ \A v \in DOMAIN total : total'[v] \in Int /\ (v # n.window => total'[v] = total[v])
          /\ total'[w] = t
      BY <1>1, <3>1, <3>2, <3>3 DEF Fleet!Set
    <3> QED BY <3>4 DEF t
  <2>5. /\ frozen \subseteq frozen' /\ frozen' \subseteq frozen \cup {n.window}
        /\ n.window \notin frozen' => ~over
    BY <1>1, <2>1, <2>3
  <2>6. ~over => total[n.window] + n.liability - record[a].liability <= total'[n.window]
    BY <1>1, <2>2, <2>3, <2>4
  <2> HIDE DEF over, rise, w
  <2>7. FleetInv'
    BY <1>0, <1>2, <2>1, <2>3, <2>4, <2>5, <2>6, RepriceStep
  <2>8. DOMAIN record' = DOMAIN record
    BY <1>0, <2>1 DEF Fleet!Set
  <2> QED BY <2>7, <2>8
<1> QED BY <1>4, <1>5

\* A settlement keeps the ledger's invariant.
LEMMA SettlesStep ==
  ASSUME FleetInv, NEW a \in Attempt, Fleet!Settles(a)
  PROVE  FleetInv' /\ DOMAIN record' = DOMAIN record
<1> DEFINE r == record[a]
           bill == Fleet!Bill(r)
           n == [r EXCEPT !.liability = bill, !.finalized = TRUE]
           w == r.window
<1>0. /\ a \in DOMAIN record /\ bill # Fleet!None
      /\ record' = Fleet!Set(record, a, n)
      /\ total' = IF w \in frozen THEN total
                  ELSE Fleet!Set(total, w, Fleet!Max({0, total[w] - (r.liability - bill)}))
      /\ UNCHANGED <<fleetNow, legacy, known, applied, frozen, halt, read>>
      /\ Fleet!Then(a, "done", Fleet!NoScope)
  BY DEF Fleet!Settles
<1>1. /\ r \in FleetRecord /\ w \in DOMAIN total /\ total[w] \in Int
  BY <1>0 DEF FleetInv, FleetTypes
<1>2. bill \in Nat
  <2>1. r.terminalCatalog \in Nat \cup {-1} /\ r.providerFloor \in Nat \cup {-1}
        /\ r.terminalProvider \in Nat \cup {-1}
    BY <1>1 DEF FleetRecord
  <2> HIDE DEF r
  <2>2. Fleet!Max({r.terminalCatalog, r.providerFloor})
          = IF r.terminalCatalog >= r.providerFloor THEN r.terminalCatalog ELSE r.providerFloor
    BY <2>1, LargerOf
  <2> QED BY <1>0, <2>1, <2>2 DEF Fleet!Bill, Fleet!None
<1>3. DOMAIN scope' = Attempt /\ \A b \in Attempt : scope'[b].floor \in Nat
  <2>1. Fleet!NoScope.floor \in Nat
    BY DEF Fleet!NoScope
  <2> QED BY <1>0, <2>1, ScopeKept
<1> HIDE DEF bill
<1>4. n \in FleetRecord /\ n.window = w /\ n.liability = bill /\ r.liability \in Nat
  BY <1>1, <1>2 DEF FleetRecord
<1> HIDE DEF n
<1>5. Fleet!Max({0, total[w] - (r.liability - bill)}) \in Int
      /\ total[w] - (r.liability - bill) <= Fleet!Max({0, total[w] - (r.liability - bill)})
  <2>1. total[w] - (r.liability - bill) \in Int
    BY <1>1, <1>2, <1>4
  <2> DEFINE d == total[w] - (r.liability - bill)
  <2> HIDE DEF d
  <2>2. d \in Int => Fleet!Max({0, d}) \in Int /\ d <= Fleet!Max({0, d})
    BY LargerOf
  <2> QED BY <2>1, <2>2 DEF d
<1> DEFINE m == Fleet!Max({0, total[w] - (r.liability - bill)})
<1>6. m \in Int /\ total[w] - (r.liability - bill) <= m
  BY <1>5
<1> HIDE DEF m
<1>7. total' = IF w \in frozen THEN total ELSE Fleet!Set(total, w, m)
  BY <1>0 DEF m
<1>8. /\ DOMAIN total' = DOMAIN total
      /\ \A v \in DOMAIN total : total'[v] \in Int /\ (v # n.window => total'[v] = total[v])
      /\ w \notin frozen => total'[w] = m
  BY <1>1, <1>4, <1>6, <1>7 DEF Fleet!Set, FleetInv, FleetTypes
<1>9. n.window \notin frozen' =>
         total[n.window] + n.liability - record[a].liability <= total'[n.window]
  BY <1>0, <1>1, <1>2, <1>4, <1>6, <1>8
<1>10. n.window = record[a].window
  BY <1>4
<1>11. frozen' \subseteq frozen \cup {n.window}
  BY <1>0
<1>12. FleetInv'
  BY <1>0, <1>3, <1>4, <1>8, <1>9, <1>10, <1>11, RepriceStep
<1>13. DOMAIN record' = DOMAIN record
  BY <1>0 DEF Fleet!Set
<1> QED BY <1>12, <1>13


\* Keys expire together, and those of the window that is current stay.
LEMMA TickStep ==
  ASSUME FleetInv, Fleet!Tick
  PROVE  FleetInv' /\ DOMAIN record' \subseteq DOMAIN record
<1> DEFINE live == {w \in 0..fleetNow : fleetNow + 1 < Fleet!ExpiresAt(w)}
           c == (fleetNow + 1) \div WindowSecs
<1>0. /\ fleetNow' = fleetNow + 1
      /\ record' = Fleet!Only(record, {a \in DOMAIN record : record[a].window \in live})
      /\ total' = Fleet!Only(total, live) /\ frozen' = frozen \cap live
      /\ known' = Fleet!Only(known, {c}) /\ applied' = Fleet!Only(applied, {c})
      /\ halt' = IF halt > fleetNow + 1 THEN halt ELSE 0
      /\ legacy' = Fleet!Only(legacy, {c}) /\ read' = Fleet!Only(read, {c})
      /\ UNCHANGED scope
  BY DEF Fleet!Tick
<1>1. fleetNow \in Nat /\ fleetNow + 1 \in Nat /\ halt \in Nat
  BY DEF FleetInv, FleetTypes
<1>2. c \in Nat /\ fleetNow + 1 < Fleet!ExpiresAt(c)
  BY <1>1, WindowEnds
<1>3. ASSUME c \in DOMAIN total PROVE c \in live
  BY <1>2, <1>3 DEF FleetInv, FleetTypes
<1> HIDE DEF c
<1>4. \A w \in live : w \in 0..fleetNow
  OBVIOUS
<1> HIDE DEF live
<1>5. /\ DOMAIN record' \subseteq DOMAIN record
      /\ \A a \in DOMAIN record' : record'[a] = record[a] /\ record[a].window \in live
      /\ \A a \in DOMAIN record : record[a].window \in live => a \in DOMAIN record'
  BY <1>0 DEF Fleet!Only
<1>6. /\ DOMAIN total' = DOMAIN total \cap live
      /\ \A w \in DOMAIN total' : total'[w] = total[w]
  BY <1>0 DEF Fleet!Only
<1>7. /\ DOMAIN known' = DOMAIN known \cap {c} /\ \A w \in DOMAIN known' : known'[w] = known[w]
      /\ DOMAIN applied' = DOMAIN applied \cap {c}
      /\ \A w \in DOMAIN applied' : applied'[w] = applied[w]
      /\ DOMAIN read' = DOMAIN read \cap {c} /\ \A w \in DOMAIN read' : read'[w] = read[w]
      /\ DOMAIN legacy' = DOMAIN legacy \cap {c}
      /\ \A w \in DOMAIN legacy' : legacy'[w] = legacy[w]
  BY <1>0 DEF Fleet!Only
<1>8. FleetTypes'
  <2>1. IsFiniteSet(DOMAIN record')
    BY <1>5, FS_Subset DEF FleetInv, FleetTypes
  <2>2. \A a \in DOMAIN record' : record'[a] \in FleetRecord
    BY <1>5 DEF FleetInv, FleetTypes
  <2>3. \A w \in DOMAIN total' : w \in 0..fleetNow' /\ total'[w] \in Int
    BY <1>0, <1>1, <1>4, <1>6 DEF FleetInv, FleetTypes
  <2>4. Counts(known)' /\ Counts(applied)' /\ Counts(read)'
        /\ \A w \in DOMAIN legacy' : legacy'[w] \in Nat \cup {-2}
    BY <1>7 DEF FleetInv, FleetTypes, Counts
  <2>5. fleetNow' \in Nat /\ halt' \in Nat
    BY <1>0, <1>1
  <2>6. DOMAIN scope' = Attempt /\ \A a \in Attempt : scope'[a].floor \in Nat
    BY <1>0 DEF FleetInv, FleetTypes
  <2> QED BY <2>1, <2>2, <2>3, <2>4, <2>5, <2>6 DEF FleetTypes
<1>9. \A a \in DOMAIN record' : record'[a].window \in DOMAIN total'
  BY <1>5, <1>6 DEF FleetInv
<1>10. DOMAIN applied' \subseteq DOMAIN total'
  BY <1>3, <1>6, <1>7 DEF FleetInv
<1>11. ASSUME NEW w \in Nat PROVE WindowCovered(w)'
  <2>0. WindowCovered(w) /\ Liable(w) \in Nat /\ Fleet!Get(applied, w) \in Nat
        /\ Fleet!Get(read, w) \in Nat /\ Fleet!Get(total, w) \in Int /\ Floor(w) \in Nat
        /\ Fleet!ExpiresAt(w) \in Nat
    BY GetType, LiableType, ExpiryType DEF FleetInv
  <2>1. w \in DOMAIN known' => Fleet!Get(applied', w) <= known'[w]
    <3> SUFFICES ASSUME w \in DOMAIN known' PROVE Fleet!Get(applied', w) <= known'[w]
      OBVIOUS
    <3>1. w = c /\ Fleet!Get(applied', w) = Fleet!Get(applied, w)
      BY <1>7 DEF Fleet!Get
    <3> QED BY <1>7, <2>0, <3>1 DEF WindowCovered
  <2>2. w \notin frozen' => Liable(w)' + Fleet!Get(applied', w) <= Fleet!Get(total', w)
    <3>1. CASE w \in live
      <4>1. w \in frozen' <=> w \in frozen
        BY <1>0, <3>1
      <4>2. Liable(w)' = Liable(w)
        <5>1. {b \in DOMAIN record' : record'[b].window = w}
                = {b \in DOMAIN record : record[b].window = w}
          BY <1>5, <3>1
        <5>2. [a \in {b \in DOMAIN record' : record'[b].window = w} |-> record'[a].liability]
                = [a \in {b \in DOMAIN record : record[b].window = w} |-> record[a].liability]
          BY <1>5, <5>1
        <5> QED BY <5>2 DEF Liable
      <4>3. Fleet!Get(total', w) = Fleet!Get(total, w)
        BY <1>6, <3>1 DEF Fleet!Get
      <4>4. Fleet!Get(applied', w) \in Nat /\ Fleet!Get(applied', w) <= Fleet!Get(applied, w)
        BY <1>7, <2>0 DEF Fleet!Get
      <4> QED BY <2>0, <4>1, <4>2, <4>3, <4>4 DEF WindowCovered
    <3>2. CASE w \notin live
      <4>1. Liable(w)' = 0
        <5>1. {b \in DOMAIN record' : record'[b].window = w} = {}
          BY <1>5, <3>2
        <5>2. DOMAIN [a \in {b \in DOMAIN record' : record'[b].window = w}
                        |-> record'[a].liability] = {}
          BY <5>1
        <5> QED BY <5>2, SumEmpty DEF Liable
      <4>2. w \notin DOMAIN total' /\ w \notin DOMAIN applied'
        BY <1>6, <1>10, <3>2
      <4> QED BY <4>1, <4>2 DEF Fleet!Get
    <3> QED BY <3>1, <3>2
  <2>3. Fleet!Get(read', w) <= Floor(w)' \/ Fleet!ExpiresAt(w) <= halt'
    <3>1. CASE w = c
      <4>1. Fleet!Get(read', w) = Fleet!Get(read, w) /\ Floor(w)' = Floor(w)
        BY <1>7, <3>1 DEF Fleet!Get, Floor
      <4>2. Fleet!ExpiresAt(w) <= halt => halt' = halt
        BY <1>0, <1>1, <1>2, <2>0, <3>1
      <4> QED BY <2>0, <4>1, <4>2 DEF WindowCovered
    <3>2. CASE w # c
      <4>1. Fleet!Get(read', w) = 0 /\ Floor(w)' = 0
        BY <1>7, <3>2 DEF Fleet!Get, Floor
      <4> QED BY <4>1
    <3> QED BY <3>1, <3>2
  <2> QED BY <2>1, <2>2, <2>3 DEF WindowCovered, Fleet!Get, Fleet!ExpiresAt
<1> QED BY <1>5, <1>8, <1>9, <1>10, <1>11 DEF FleetInv


\* Retaining a floor keeps the ledger's invariant.
LEMMA RetainsStep ==
  ASSUME FleetInv, NEW a \in Attempt, Fleet!RetainsFloor(a)
  PROVE  FleetInv' /\ record' = record
<1>1. PICK w \in Nat : w = Fleet!CurrentWindow
  BY WindowEnds DEF Fleet!CurrentWindow, FleetInv, FleetTypes
<1> DEFINE incoming == Fleet!Min({Fleet!Get(legacy, w), MaxExact})
           floor == Fleet!KnownFloor(w, incoming)
           most == Fleet!Max({Fleet!Get(read, w), incoming})
<1>2. Fleet!Get(legacy, w) \in Nat /\ MaxExact \in Nat
  BY <1>1, ComponentsAssumption
  DEF Fleet!RetainsFloor, Fleet!Broken, Fleet!Get, FleetInv, FleetTypes
<1>3. incoming \in Nat
  BY <1>2, SmallerOf
<1>4. Fleet!Get(read, w) \in Nat
  BY GetType
<1> HIDE DEF incoming
<1>5. most = IF Fleet!Get(read, w) >= incoming THEN Fleet!Get(read, w) ELSE incoming
  BY <1>3, <1>4, LargerOf
<1>6. /\ UNCHANGED <<fleetNow, legacy, record, total, applied, frozen>>
      /\ read' = Fleet!Set(read, w, most)
      /\ \E i : Fleet!KeepsFloor(i, w, floor)
      /\ \/ Fleet!Then(a, "prepared", [window |-> w, floor |-> floor])
         \/ Fleet!Then(a, "done", Fleet!NoScope)
  BY <1>1 DEF Fleet!RetainsFloor, incoming
<1>7. PICK i : Fleet!KeepsFloor(i, w, floor)
  BY <1>6
<1>8. floor \in Nat /\ Counts(known') /\ halt' \in Nat
  BY <1>3, <1>7, FloorKept
<1> HIDE DEF floor, most
<1>9. /\ Counts(read') /\ Fleet!Get(read', w) = most
      /\ \A v : v # w => Fleet!Get(read', v) = Fleet!Get(read, v)
  BY <1>3, <1>4, <1>5, <1>6 DEF Fleet!Set, Fleet!Get, Counts, FleetInv, FleetTypes
<1>10. DOMAIN scope' = Attempt /\ \A b \in Attempt : scope'[b].floor \in Nat
  <2>1. Fleet!NoScope.floor \in Nat /\ [window |-> w, floor |-> floor].floor \in Nat
    BY <1>8 DEF Fleet!NoScope
  <2> QED BY <1>6, <2>1, ScopeKept
<1>11. FleetTypes'
  BY <1>6, <1>8, <1>9, <1>10 DEF FleetInv, FleetTypes
<1>12. Fleet!Get(read', w) <= Fleet!Get(read, w) \/ Fleet!Get(read', w) <= incoming
  BY <1>3, <1>4, <1>5, <1>9
<1>13. Fleet!KeepsFloor(i, w, Fleet!KnownFloor(w, incoming))
  BY <1>7 DEF floor
<1> QED BY <1>3, <1>6, <1>9, <1>11, <1>12, <1>13, FloorStep

\* A refusal keeps the ledger's invariant.
LEMMA RefusedStep ==
  ASSUME FleetInv, NEW a \in Attempt, Fleet!Refused(a)
  PROVE  FleetInv' /\ record' = record
<1>1. PICK w \in Nat : w = Fleet!CurrentWindow
  BY WindowEnds DEF Fleet!CurrentWindow, FleetInv, FleetTypes
<1> DEFINE incoming == IF scope[a].window = w THEN scope[a].floor ELSE 0
<1>2. incoming \in Nat /\ Fleet!FloorFor(a, w) = Fleet!KnownFloor(w, incoming)
  BY DEF FleetInv, FleetTypes, Fleet!FloorFor
<1> HIDE DEF incoming
<1>3. /\ UNCHANGED <<fleetNow, legacy, record, total, applied, frozen, read>>
      /\ \E i : Fleet!KeepsFloor(i, w, Fleet!FloorFor(a, w))
      /\ Fleet!Then(a, "done", Fleet!NoScope)
  BY <1>1 DEF Fleet!Refused
<1>4. PICK i : Fleet!KeepsFloor(i, w, Fleet!KnownFloor(w, incoming))
  BY <1>2, <1>3
<1>5. Counts(known') /\ halt' \in Nat
  BY <1>2, <1>4, FloorKept
<1>6. DOMAIN scope' = Attempt /\ \A b \in Attempt : scope'[b].floor \in Nat
  <2>1. Fleet!NoScope.floor \in Nat
    BY DEF Fleet!NoScope
  <2> QED BY <1>3, <2>1, ScopeKept
<1>7. FleetTypes'
  BY <1>3, <1>5, <1>6 DEF FleetInv, FleetTypes
<1>8. /\ \A v : Fleet!Get(read', v) = Fleet!Get(read, v)
      /\ Fleet!Get(read', w) <= Fleet!Get(read, w)
  BY <1>3, GetType DEF Fleet!Get
<1> QED BY <1>2, <1>3, <1>4, <1>7, <1>8, FloorStep

\* Steps that leave the books alone; the ledger may be halted for longer.
LEMMA BooksKept ==
  ASSUME FleetInv, FleetTypes', halt <= halt',
         UNCHANGED <<record, total, known, applied, frozen, read>>
  PROVE  FleetInv'
<1>1. ASSUME NEW w \in Nat PROVE WindowCovered(w)'
  <2>1. WindowCovered(w) /\ Fleet!ExpiresAt(w) \in Nat /\ halt \in Nat /\ halt' \in Nat
    BY ExpiryType DEF FleetInv, FleetTypes
  <2>2. Liable(w)' = Liable(w) /\ Floor(w)' = Floor(w)
    BY DEF Liable, Floor, Fleet!Get
  <2>3. Fleet!ExpiresAt(w) <= halt => Fleet!ExpiresAt(w) <= halt'
    BY <2>1
  <2> QED BY <2>1, <2>2, <2>3 DEF WindowCovered, Fleet!Get, Fleet!ExpiresAt
<1> QED BY <1>1 DEF FleetInv

\* Every step of the ledger keeps its invariant and admits within the cap.
LEMMA NextFleet ==
  ASSUME FleetInv, [Fleet!Next]_(Fleet!vars)
  PROVE  FleetInv' /\ Fleet!AdmitsWithinCap
<1>0. ASSUME DOMAIN record' \subseteq DOMAIN record PROVE Fleet!AdmitsWithinCap
  BY <1>0 DEF Fleet!AdmitsWithinCap
<1>1. ASSUME NEW a \in Attempt, Fleet!RetainBroken(a) PROVE FleetInv' /\ Fleet!AdmitsWithinCap
  <2>1. /\ UNCHANGED <<fleetNow, legacy, record, total, known, applied, frozen, read>>
        /\ halt' = Fleet!Halted(Fleet!CurrentWindow) /\ Fleet!Then(a, "done", Fleet!NoScope)
    BY <1>1 DEF Fleet!RetainBroken
  <2>2. halt \in Nat /\ halt' \in Nat /\ halt <= halt'
    <3>1. PICK w \in Nat : w = Fleet!CurrentWindow
      BY WindowEnds DEF Fleet!CurrentWindow, FleetInv, FleetTypes
    <3>2. halt \in Nat /\ Fleet!ExpiresAt(w) \in Nat
      BY ExpiryType DEF FleetInv, FleetTypes
    <3>3. halt' = IF halt >= Fleet!ExpiresAt(w) THEN halt ELSE Fleet!ExpiresAt(w)
      BY <2>1, <3>1, <3>2, LargerOf DEF Fleet!Halted
    <3> QED BY <3>2, <3>3
  <2>3. DOMAIN scope' = Attempt /\ \A b \in Attempt : scope'[b].floor \in Nat
    <3>1. Fleet!NoScope.floor \in Nat
      BY DEF Fleet!NoScope
    <3> QED BY <2>1, <3>1, ScopeKept
  <2>4. FleetTypes'
    BY <2>1, <2>2, <2>3 DEF FleetInv, FleetTypes
  <2> QED BY <1>0, <2>1, <2>2, <2>4, BooksKept
<1>2. ASSUME NEW a \in Attempt, Fleet!EndsUnsettled(a) PROVE FleetInv' /\ Fleet!AdmitsWithinCap
  <2>1. /\ UNCHANGED <<fleetNow, legacy, record, total, known, applied, frozen, read, halt>>
        /\ Fleet!Then(a, "done", Fleet!NoScope)
    BY <1>2 DEF Fleet!EndsUnsettled, Fleet!ledger
  <2>2. DOMAIN scope' = Attempt /\ \A b \in Attempt : scope'[b].floor \in Nat
    <3>1. Fleet!NoScope.floor \in Nat
      BY DEF Fleet!NoScope
    <3> QED BY <2>1, <3>1, ScopeKept
  <2>3. FleetTypes' /\ halt <= halt'
    BY <2>1, <2>2 DEF FleetInv, FleetTypes
  <2> QED BY <1>0, <2>1, <2>3, BooksKept
<1>3. ASSUME Fleet!LegacySpends PROVE FleetInv' /\ Fleet!AdmitsWithinCap
  <2>1. UNCHANGED <<fleetNow, record, total, known, applied, frozen, read, halt, scope>>
    BY <1>3 DEF Fleet!LegacySpends, Fleet!ledger
  <2>2. \A w \in DOMAIN legacy' : legacy'[w] \in Nat \cup {-2}
    BY <1>3 DEF Fleet!LegacySpends, Fleet!Get, Fleet!Set, Fleet!Broken, FleetInv, FleetTypes
  <2>3. FleetTypes' /\ halt <= halt'
    BY <2>1, <2>2 DEF FleetInv, FleetTypes
  <2> QED BY <1>0, <2>1, <2>3, BooksKept
<1>4. ASSUME UNCHANGED Fleet!vars PROVE FleetInv' /\ Fleet!AdmitsWithinCap
  <2>1. UNCHANGED <<fleetNow, legacy, record, total, known, applied, frozen, read, halt, scope>>
    BY <1>4 DEF Fleet!vars, Fleet!ledger
  <2>2. FleetTypes' /\ halt <= halt'
    BY <2>1 DEF FleetInv, FleetTypes
  <2> QED BY <1>0, <2>1, <2>2, BooksKept
<1>5. ASSUME NEW a \in Attempt, Fleet!RetainsFloor(a) \/ Fleet!Refused(a)
      PROVE  FleetInv' /\ Fleet!AdmitsWithinCap
  BY <1>0, <1>5, RetainsStep, RefusedStep
<1>6. ASSUME NEW a \in Attempt, NEW s \in Fleet!Spend, Fleet!Observes(a, s)
      PROVE  FleetInv' /\ Fleet!AdmitsWithinCap
  BY <1>0, <1>6, ObservesStep
<1>7. ASSUME NEW a \in Attempt, Fleet!Settles(a) PROVE FleetInv' /\ Fleet!AdmitsWithinCap
  BY <1>0, <1>7, SettlesStep
<1> QED BY <1>0, <1>1, <1>2, <1>3, <1>4, <1>5, <1>6, <1>7, AdmittedStep, TickStep
        DEF Fleet!Next, Fleet!Step

\* COMBINED_RATE_LUA admits an attempt only within the cap, with all that any
\* replica has read of what older replicas spent in the window, and only while
\* neither the window is frozen nor the ledger halted.
THEOREM FleetCapHoldsAlways == Spec => FleetCapHolds
<1> DEFINE Inv == component = "fleet" => FleetInv
<1>1. Init => Inv
  BY InitFleet DEF Init
<1>2. ASSUME Inv, [Next]_vars, component = "fleet" PROVE [Fleet!Next]_(Fleet!vars)
  BY <1>2 DEF Next, vars, fleetVars, Fleet!vars, Fleet!ledger
<1>3. Inv /\ [Next]_vars => Inv'
  <2> SUFFICES ASSUME Inv, [Next]_vars, component' = "fleet" PROVE FleetInv'
    OBVIOUS
  <2>1. component = "fleet"
    BY DEF Next, vars
  <2> QED BY <1>2, <2>1, NextFleet
<1>4. Inv /\ [Next]_vars => [component = "fleet" => Fleet!AdmitsWithinCap]_fleetVars
  BY <1>2, NextFleet
<1> QED BY <1>1, <1>3, <1>4, PTL DEF Spec, FleetCapHolds

-----------------------------------------------------------------------------
(***************************************************************************)
(* Response bodies.  The boundary keeps three flags and the property speaks *)
(* of all bytes that were read, so the invariant says what the flags mean  *)
(* of the last bytes of the sequence; it is carried through a frame byte   *)
(* by byte.  The other half of the invariant is where the bytes of the     *)
(* source are: read, in the channel or still to be sent, in this order.    *)
(***************************************************************************)

\* What the boundary of a body says after the first n bytes of w.
Describes(b, w, n) ==
    /\ b \in [start : BOOLEAN, cr : BOOLEAN, safe : BOOLEAN]
    /\ b.cr <=> n > 0 /\ w[n] = "CR"
    /\ b.start <=> n = 0 \/ w[n] # "text"
    /\ b.safe <=> \/ n = 0
                  \/ /\ w[n] # "text"
                     /\ IF w[n] = "LF" /\ n > 1 /\ w[n - 1] = "CR"
                        THEN n = 2 \/ w[n - 2] # "text"
                        ELSE n = 1 \/ w[n - 1] # "text"

\* One more byte, and the flags describe one byte more.
LEMMA DescribesNext ==
  ASSUME NEW b, NEW w \in Seq(Ingr!Byte), NEW n \in Nat, n < Len(w), Describes(b, w, n)
  PROVE  Describes(Ingr!Observes(b, w[n + 1]), w, n + 1)
<1>1. w[n + 1] \in {"text", "CR", "LF"} /\ (n > 0 => w[n] \in {"text", "CR", "LF"})
  BY DEF Ingr!Byte
<1> DEFINE c == Ingr!Observes(b, w[n + 1])
<1>2. c \in [start : BOOLEAN, cr : BOOLEAN, safe : BOOLEAN]
  BY DEF Describes, Ingr!Observes
<1>3. c.cr <=> w[n + 1] = "CR"
  BY <1>1 DEF Describes, Ingr!Observes
<1>4. c.start <=> w[n + 1] # "text"
  BY <1>1 DEF Describes, Ingr!Observes
<1>5. c.safe <=> /\ w[n + 1] # "text"
                 /\ IF w[n + 1] = "LF" /\ n + 1 > 1 /\ w[n] = "CR"
                    THEN n + 1 = 2 \/ w[n - 1] # "text"
                    ELSE n + 1 = 1 \/ w[n] # "text"
  <2>1. CASE b.cr /\ w[n + 1] = "LF"
    <3>1. n > 0 /\ w[n] = "CR" /\ c.safe = b.safe
      BY <2>1 DEF Describes, Ingr!Observes
    <3>2. b.safe <=> n = 1 \/ w[n - 1] # "text"
      BY <3>1 DEF Describes
    <3> QED BY <2>1, <3>1, <3>2
  <2>2. CASE ~(b.cr /\ w[n + 1] = "LF") /\ w[n + 1] = "text"
    BY <2>2 DEF Ingr!Observes
  <2>3. CASE ~(b.cr /\ w[n + 1] = "LF") /\ w[n + 1] # "text"
    <3>1. c.safe = b.start
      BY <2>3 DEF Ingr!Observes
    <3>2. ~(w[n + 1] = "LF" /\ n + 1 > 1 /\ w[n] = "CR")
      BY <2>3 DEF Describes
    <3> QED BY <2>3, <3>1, <3>2 DEF Describes
  <2> QED BY <2>1, <2>2, <2>3
<1> HIDE DEF c
<1>6. n + 1 - 1 = n /\ n + 1 - 2 = n - 1 /\ n + 1 # 0
  OBVIOUS
<1> QED BY <1>2, <1>3, <1>4, <1>5, <1>6 DEF Describes, c

\* The states of the boundary over the first m events of s, from b.
IsObserved(g, b, s, m) == g = [n \in 0..m |-> IF n = 0 THEN b ELSE Ingr!Observes(g[n - 1], s[n])]

\* The states over the bytes of a frame exist, up to any length.
LEMMA ObservedExists ==
  ASSUME NEW b, NEW s
  PROVE  \A m \in Nat : \E g : IsObserved(g, b, s, m)
<1> DEFINE S == {m \in Nat : \E g : IsObserved(g, b, s, m)}
<1>1. 0 \in S
  <2>1. IsObserved([n \in 0..0 |-> b], b, s, 0)
    BY DEF IsObserved
  <2> QED BY <2>1
<1>2. ASSUME NEW m \in S PROVE m + 1 \in S
  <2>1. PICK g : IsObserved(g, b, s, m)
    OBVIOUS
  <2> DEFINE h == [n \in 0..m + 1 |-> IF n = m + 1 THEN Ingr!Observes(g[m], s[m + 1]) ELSE g[n]]
  <2>2. \A n \in 0..m : g[n] = IF n = 0 THEN b ELSE Ingr!Observes(g[n - 1], s[n])
    BY <2>1 DEF IsObserved
  <2>3. \A n \in 0..m + 1 : h[n] = IF n = 0 THEN b ELSE Ingr!Observes(h[n - 1], s[n])
    BY <2>2
  <2>4. IsObserved(h, b, s, m + 1)
    BY <2>3 DEF IsObserved
  <2> QED BY <2>4
<1> HIDE DEF S
<1>3. S = Nat
  BY <1>1, <1>2, Induct DEF S
<1> QED BY <1>3 DEF S

\* After a frame the flags describe all bytes so far.
LEMMA ObservedAll ==
  ASSUME NEW w \in Seq(Ingr!Byte), NEW s \in Seq(Ingr!Byte), NEW b, Describes(b, w, Len(w))
  PROVE  Describes(Ingr!ObservesAll(b, s), w \o s, Len(w \o s))
<1>1. PICK g : IsObserved(g, b, s, Len(s)) /\ Ingr!ObservesAll(b, s) = g[Len(s)]
  <2>1. Len(s) \in Nat
    OBVIOUS
  <2>2. \E g : IsObserved(g, b, s, Len(s))
    BY <2>1, ObservedExists
  <2> QED BY <2>2 DEF Ingr!ObservesAll, IsObserved
<1> DEFINE v == w \o s
           S == {n \in Nat : n <= Len(s) => Describes(g[n], v, Len(w) + n)}
<1>2. /\ v \in Seq(Ingr!Byte) /\ Len(v) = Len(w) + Len(s)
      /\ \A i \in 1..Len(w) : v[i] = w[i]
      /\ \A n \in 1..Len(s) : v[Len(w) + n] = s[n]
  BY ConcatProperties
<1>3. \A n \in 0..Len(s) : g[n] = IF n = 0 THEN b ELSE Ingr!Observes(g[n - 1], s[n])
  BY <1>1 DEF IsObserved
<1> HIDE DEF v
<1>4. 0 \in S
  <2>1. g[0] = b
    BY <1>3
  <2>2. Describes(b, v, Len(w))
    <3>1. Len(w) \in Nat /\ \A i \in 1..Len(w) : v[i] = w[i]
      BY <1>2
    <3>2. CASE Len(w) = 0
      BY <3>2 DEF Describes
    <3>3. CASE Len(w) > 0
      <4>1. /\ v[Len(w)] = w[Len(w)]
            /\ Len(w) > 1 => v[Len(w) - 1] = w[Len(w) - 1]
            /\ Len(w) > 2 => v[Len(w) - 2] = w[Len(w) - 2]
        BY <3>1, <3>3
      <4> HIDE DEF v
      <4>2. PICK n \in Nat \ {0} : n = Len(w)
        BY <3>1, <3>3
      <4>3. Describes(b, w, n) /\ v[n] = w[n] /\ (n > 1 => v[n - 1] = w[n - 1])
                               /\ (n > 2 => v[n - 2] = w[n - 2])
        BY <4>1, <4>2
      <4>4. Describes(b, v, n)
        BY <4>3 DEF Describes
      <4> QED BY <4>2, <4>4
    <3> QED BY <3>1, <3>2, <3>3
  <2> QED BY <2>1, <2>2
<1>5. ASSUME NEW n \in S PROVE n + 1 \in S
  <2> SUFFICES ASSUME n + 1 <= Len(s) PROVE Describes(g[n + 1], v, Len(w) + (n + 1))
    OBVIOUS
  <2> DEFINE m == Len(w) + n
  <2>1. m \in Nat /\ m < Len(v) /\ Describes(g[n], v, m)
    BY <1>2
  <2>2. g[n + 1] = Ingr!Observes(g[n], v[m + 1])
    <3>1. n + 1 \in 1..Len(s) /\ m + 1 = Len(w) + (n + 1)
      OBVIOUS
    <3> QED BY <1>2, <1>3, <3>1
  <2> HIDE DEF m
  <2>3. Describes(g[n + 1], v, m + 1)
    BY <1>2, <2>1, <2>2, DescribesNext
  <2>4. m + 1 = Len(w) + (n + 1)
    BY DEF m
  <2> QED BY <2>3, <2>4
<1> HIDE DEF S
<1>6. S = Nat
  BY <1>4, <1>5, Induct DEF S
<1>7. Describes(g[Len(s)], v, Len(w) + Len(s))
  BY <1>6 DEF S
<1> QED BY <1>1, <1>2, <1>7 DEF v

\* Flags that describe a sequence say whether it is whole events.
LEMMA BoundaryExact ==
  ASSUME NEW w \in Seq(Ingr!Byte), NEW b, Describes(b, w, Len(w))
  PROVE  b.safe <=> Ingr!WholeEvents(w)
<1>1. CASE Len(w) = 0
  <2>1. w = <<>>
    BY <1>1
  <2> QED BY <1>1, <2>1 DEF Describes, Ingr!WholeEvents
<1>2. CASE Len(w) # 0
  <2>0. PICK L \in Nat \ {0} : L = Len(w)
    BY <1>2
  <2> DEFINE E == Ingr!LineEnds(w)
             P == {i \in E : i < L} \cup {0}
             m == Ingr!Max(P)
  <2>1. L \in Nat \ {0} /\ L = Len(w) /\ w # <<>>
    BY <1>2, <2>0
  <2>2. \A i \in 1..L : w[i] \in {"text", "CR", "LF"}
    BY <2>0 DEF Ingr!Byte
  <2>3. /\ E \subseteq 1..L
        /\ \A i \in 1..L : i \in E <=> \/ w[i] = "LF"
                                       \/ w[i] = "CR" /\ ~(i < L /\ w[i + 1] = "LF")
    BY <2>0 DEF Ingr!LineEnds
  <2>4. m \in P /\ \A i \in P : i <= m
    <3>1. P \subseteq 0..L /\ P # {}
      BY <2>3
    <3>2. IsFiniteSet(P)
      <4>1. IsFiniteSet(0..L)
        BY <2>1, FS_Interval
      <4> QED BY <3>1, <4>1, FS_Subset
    <3> DEFINE f == [i \in P |-> i]
    <3>3. \E x \in P : \A y \in P : y <= x
      <4>1. \A x \in P : f[x] \in Int
        BY <3>1
      <4>2. PICK x \in P : \A y \in P : f[y] <= f[x]
        <5> HIDE DEF f, P
        <5> QED BY <3>1, <3>2, <4>1, FiniteMax
      <4> QED BY <4>2
    <3>4. m = CHOOSE x \in P : \A y \in P : x >= y
      BY Zenon DEF Ingr!Max
    <3>5. \E x \in P : \A y \in P : x >= y
      BY <3>1, <3>3
    <3>6. m \in P /\ \A y \in P : m >= y
      <4> HIDE DEF m, P
      <4> QED BY <3>4, <3>5
    <3> HIDE DEF m
    <3> QED BY <3>1, <3>6
  <2>5. Ingr!WholeEvents(w) <=> /\ L \in E
                                /\ \/ m + 1 = L
                                   \/ m + 1 = L - 1 /\ w[m + 1] = "CR" /\ w[L] = "LF"
    <3> HIDE DEF m, P, E
    <3> QED BY <2>1 DEF Ingr!WholeEvents, m, P, E
  <2>6. /\ m \in 0..L - 1
        /\ \A i \in 1..L - 1 : i \in E => i <= m
        /\ m # 0 => m \in E
    BY <2>1, <2>3, <2>4
  <2> HIDE DEF m, P, E
  <2>7. L \in E <=> w[L] # "text"
    BY <2>1, <2>2, <2>3
  <2>8. CASE w[L] = "LF" /\ L > 1 /\ w[L - 1] = "CR"
    <3>1. L - 1 \notin E
      BY <2>1, <2>3, <2>8
    <3>2. m # L - 1
      BY <2>1, <2>6, <2>8, <3>1
    <3>3. m = L - 2 <=> L = 2 \/ w[L - 2] # "text"
      <4>1. CASE L = 2
        BY <2>6, <3>2, <4>1
      <4>2. CASE L > 2
        <5>1. L - 2 \in 1..L /\ L - 2 < L /\ (L - 2) + 1 = L - 1
          BY <2>1, <4>2
        <5>2. L - 2 \in E <=> w[L - 2] # "text"
          BY <2>2, <2>3, <2>8, <5>1
        <5>3. m = L - 2 <=> L - 2 \in E
          BY <2>1, <2>6, <3>2, <4>2
        <5> QED BY <2>1, <4>2, <5>2, <5>3
      <4> QED BY <2>1, <2>8, <4>1, <4>2
    <3>4. Ingr!WholeEvents(w) <=> m = L - 2
      BY <2>1, <2>5, <2>6, <2>7, <2>8, <3>2
    <3>5. b.safe <=> L = 2 \/ w[L - 2] # "text"
      BY <2>1, <2>8 DEF Describes
    <3> QED BY <3>3, <3>4, <3>5
  <2>9. CASE ~(w[L] = "LF" /\ L > 1 /\ w[L - 1] = "CR")
    <3>1. L > 1 => (L - 1 \in E <=> w[L - 1] # "text")
      <4> SUFFICES ASSUME L > 1 PROVE L - 1 \in E <=> w[L - 1] # "text"
        OBVIOUS
      <4>1. L - 1 \in 1..L /\ L - 1 < L /\ (L - 1) + 1 = L
        BY <2>1
      <4> QED BY <2>2, <2>3, <2>9, <4>1
    <3>2. m = L - 1 <=> L = 1 \/ (L > 1 /\ L - 1 \in E)
      <4>1. CASE L = 1
        BY <2>6, <4>1
      <4>2. CASE L > 1
        BY <2>1, <2>6, <4>2
      <4> QED BY <2>1, <4>1, <4>2
    <3>3. Ingr!WholeEvents(w) <=> w[L] # "text" /\ m = L - 1
      <4>1. ~(m + 1 = L - 1 /\ w[m + 1] = "CR" /\ w[L] = "LF")
        BY <2>1, <2>6, <2>9
      <4> QED BY <2>1, <2>5, <2>6, <2>7, <4>1
    <3>4. b.safe <=> w[L] # "text" /\ (L = 1 \/ w[L - 1] # "text")
      BY <2>1, <2>9 DEF Describes
    <3> QED BY <2>1, <3>1, <3>2, <3>3, <3>4
  <2> QED BY <2>8, <2>9
<1> QED BY <1>1, <1>2
PumpDomains ==
    /\ DOMAIN ingressPc = Arrival /\ DOMAIN pump = Arrival /\ DOMAIN left = Arrival
    /\ DOMAIN ingressSlot = Arrival /\ DOMAIN acked = Arrival
    /\ DOMAIN ingressTerminal = Arrival /\ DOMAIN produced = Arrival
    /\ DOMAIN ingressEnded = Arrival /\ DOMAIN boundary = Arrival
    /\ DOMAIN ingressReader = Arrival /\ DOMAIN delivered = Arrival
    /\ DOMAIN kind = Arrival

BytesTyped(q) ==
    /\ left[q] \in Seq(Ingr!Byte) /\ ingressSlot[q] \in Seq(Ingr!Byte)
    /\ produced[q] \in Seq(Ingr!Byte) /\ delivered[q] \in Seq(Ingr!Byte)

\* The bytes of the source are in one place, and in order.
BytesInOrder(q) ==
    /\ delivered[q] \o (ingressSlot[q] \o left[q]) = produced[q]
    /\ pump[q] \in {"none", "source"} => ingressSlot[q] = <<>> /\ left[q] = <<>>
    /\ pump[q] = "send" => ingressSlot[q] = <<>>
    /\ pump[q] = "ack" /\ acked[q] => ingressSlot[q] = <<>>
    /\ ingressEnded[q] => pump[q] = "over" /\ ingressSlot[q] = <<>> /\ left[q] = <<>>

\* How far the pump and its reader have come.
PumpStages(q) ==
    /\ ingressPc[q] # "answered" => pump[q] = "none" /\ ingressReader[q] = "waiting"
    /\ pump[q] = "over" /\ ingressTerminal[q] = "none" /\ ingressReader[q] = "reading"
          => ingressEnded[q]
    /\ ingressReader[q] \in {"clean", "timeout frame", "broken"} => pump[q] = "over"
    /\ ingressReader[q] = "clean" => ingressEnded[q]
    /\ ingressReader[q] = "timeout frame" => Ingr!Sse(q) /\ boundary[q].safe
    /\ ingressReader[q] = "broken" /\ ingressTerminal[q] = "timeout"
          => ~Ingr!Sse(q) \/ ~boundary[q].safe

Pumped(q) ==
    /\ BytesTyped(q) /\ BytesInOrder(q) /\ PumpStages(q)
    /\ Describes(boundary[q], delivered[q], Len(delivered[q]))

IngrInv == PumpDomains /\ \A q \in Arrival : Pumped(q)

\* The invariant holds before a request arrives.
LEMMA InitIngr ==
  ASSUME Ingr!Init
  PROVE  IngrInv
<1>1. PumpDomains
  BY ComponentsAssumption DEF Ingr!Init, Ingr!Each, PumpDomains
<1>2. ASSUME NEW q \in Arrival PROVE Pumped(q)
  <2>1. /\ ingressPc[q] = "arriving" /\ pump[q] = "none" /\ left[q] = <<>>
        /\ ingressSlot[q] = <<>> /\ acked[q] = FALSE /\ ingressTerminal[q] = "none"
        /\ produced[q] = <<>> /\ ingressEnded[q] = FALSE /\ delivered[q] = <<>>
        /\ ingressReader[q] = "waiting"
        /\ boundary[q] = [start |-> TRUE, cr |-> FALSE, safe |-> TRUE]
    BY DEF Ingr!Init, Ingr!Each
  <2>2. <<>> \in Seq(Ingr!Byte) /\ <<>> \o (<<>> \o <<>>) = <<>> /\ Len(<<>>) = 0
    BY EmptySeq, ConcatEmptySeq
  <2>3. BytesTyped(q) /\ BytesInOrder(q)
    BY <2>1, <2>2 DEF BytesTyped, BytesInOrder
  <2>4. PumpStages(q)
    BY <2>1 DEF PumpStages
  <2>5. Describes(boundary[q], delivered[q], Len(delivered[q]))
    BY <2>1, <2>2 DEF Describes
  <2> QED BY <2>3, <2>4, <2>5 DEF Pumped
<1> QED BY <1>1, <1>2 DEF IngrInv

\* What Set changes and what it leaves.
LEMMA SetAt ==
  ASSUME NEW f, NEW r, r \in DOMAIN f, NEW v
  PROVE  /\ DOMAIN Ingr!Set(f, r, v) = DOMAIN f /\ Ingr!Set(f, r, v)[r] = v
         /\ \A q \in DOMAIN f : q # r => Ingr!Set(f, r, v)[q] = f[q]
  BY DEF Ingr!Set

\* A request none of whose state is touched.
LEMMA PumpedKept ==
  ASSUME NEW q, Pumped(q), kind'[q] = kind[q],
         ingressPc'[q] # "answered" => ingressPc[q] # "answered",
         pump'[q] = pump[q], left'[q] = left[q], ingressSlot'[q] = ingressSlot[q],
         acked'[q] = acked[q], ingressTerminal'[q] = ingressTerminal[q],
         produced'[q] = produced[q], ingressEnded'[q] = ingressEnded[q],
         boundary'[q] = boundary[q], ingressReader'[q] = ingressReader[q],
         delivered'[q] = delivered[q]
  PROVE  Pumped(q)'
<1>1. BytesTyped(q)' /\ BytesInOrder(q)'
  BY DEF Pumped, BytesTyped, BytesInOrder
<1>2. PumpStages(q)'
  BY DEF Pumped, PumpStages, Ingr!Sse
<1>3. Describes(boundary[q], delivered[q], Len(delivered[q]))'
  BY DEF Pumped
<1> QED BY <1>1, <1>2, <1>3 DEF Pumped

\* Steps of the middleware.
LEMMA DoorStep ==
  ASSUME IngrInv, UNCHANGED <<kind, Ingr!pumpVars, Ingr!readerVars>>,
         DOMAIN ingressPc' = Arrival,
         \A q \in Arrival : ingressPc'[q] # "answered" => ingressPc[q] # "answered"
  PROVE  IngrInv'
<1>1. PumpDomains'
  BY DEF IngrInv, PumpDomains, Ingr!pumpVars, Ingr!readerVars
<1>2. ASSUME NEW q \in Arrival PROVE Pumped(q)'
  BY PumpedKept DEF IngrInv, Ingr!pumpVars, Ingr!readerVars
<1> QED BY <1>1, <1>2 DEF IngrInv

\* A response whose pump starts keeps the invariant.
LEMMA RespondsStep ==
  ASSUME IngrInv, NEW r \in Arrival, Ingr!Responds(r)
  PROVE  IngrInv'
<1>1. /\ ingressPc[r] = "working" /\ ingressPc' = Ingr!Set(ingressPc, r, "answered")
      /\ pump' = Ingr!Set(pump, r, "source")
      /\ ingressReader' = Ingr!Set(ingressReader, r, "reading")
      /\ \E k : kind' = Ingr!Set(kind, r, k)
      /\ UNCHANGED <<left, ingressSlot, acked, ingressTerminal, produced,
                     ingressEnded, boundary, delivered>>
  BY DEF Ingr!Responds
<1>2. PumpDomains'
  BY <1>1 DEF IngrInv, PumpDomains, Ingr!Set
<1>3. ASSUME NEW q \in Arrival, q # r PROVE Pumped(q)'
  <2>1. kind'[q] = kind[q]
    BY <1>1, <1>3 DEF IngrInv, PumpDomains, Ingr!Set
  <2> QED BY <1>1, <1>3, <2>1, PumpedKept DEF IngrInv, PumpDomains, Ingr!Set
<1>4. Pumped(r)'
  <2>1. /\ ingressPc'[r] = "answered" /\ pump'[r] = "source"
        /\ ingressReader'[r] = "reading" /\ Pumped(r)
    BY <1>1 DEF IngrInv, PumpDomains, Ingr!Set
  <2>2. pump[r] = "none" /\ ~ingressEnded[r]
    BY <1>1, <2>1 DEF Pumped, PumpStages, BytesInOrder
  <2>3. BytesTyped(r)' /\ BytesInOrder(r)'
    BY <1>1, <2>1, <2>2 DEF Pumped, BytesTyped, BytesInOrder
  <2>4. PumpStages(r)'
    BY <2>1 DEF PumpStages
  <2> QED BY <1>1, <2>1, <2>3, <2>4 DEF Pumped
<1> QED BY <1>2, <1>3, <1>4 DEF IngrInv

\* A pump that ends by timeout or error, or has lost its reader, keeps the
\* invariant.
LEMMA PumpEndsStep ==
  ASSUME IngrInv, NEW r \in Arrival, NEW t, Ingr!Pumping(r), Ingr!PumpEnds(r, t),
         t # "none" \/ Ingr!Gone(r)
  PROVE  IngrInv'
<1>1. /\ pump[r] \in {"source", "send", "ack"} /\ pump' = Ingr!Set(pump, r, "over")
      /\ ingressTerminal' = Ingr!Set(ingressTerminal, r, t)
      /\ t # "none" \/ ingressReader[r] # "reading"
      /\ UNCHANGED <<kind, ingressPc, left, ingressSlot, acked, produced,
                     ingressEnded, boundary, ingressReader, delivered>>
  BY DEF Ingr!PumpEnds, Ingr!readerVars, Ingr!Pumping, Ingr!Gone
<1>2. PumpDomains'
  BY <1>1 DEF IngrInv, PumpDomains, Ingr!Set
<1>3. ASSUME NEW q \in Arrival, q # r PROVE Pumped(q)'
  BY <1>1, <1>3, PumpedKept DEF IngrInv, PumpDomains, Ingr!Set
<1>4. Pumped(r)'
  <2>1. pump'[r] = "over" /\ ingressTerminal'[r] = t /\ Pumped(r)
    BY <1>1 DEF IngrInv, PumpDomains, Ingr!Set
  <2>2. /\ ingressReader[r] \notin {"clean", "timeout frame", "broken"}
        /\ ~(ingressPc[r] # "answered")
    BY <1>1, <2>1 DEF Pumped, PumpStages
  <2>3. BytesTyped(r)' /\ BytesInOrder(r)'
    BY <1>1, <2>1 DEF Pumped, BytesTyped, BytesInOrder
  <2>4. PumpStages(r)'
    BY <1>1, <2>1, <2>2 DEF PumpStages
  <2> QED BY <1>1, <2>1, <2>3, <2>4 DEF Pumped
<1> QED BY <1>2, <1>3, <1>4 DEF IngrInv

\* The end of the source keeps the invariant.
LEMMA SourceEndsStep ==
  ASSUME IngrInv, NEW r \in Arrival, Ingr!SourceEnds(r)
  PROVE  IngrInv'
<1>1. /\ pump[r] = "source" /\ pump' = Ingr!Set(pump, r, "over")
      /\ ingressEnded' = Ingr!Set(ingressEnded, r, TRUE)
      /\ UNCHANGED <<kind, ingressPc, left, ingressSlot, acked, produced,
                     ingressTerminal, boundary, ingressReader, delivered>>
  BY DEF Ingr!SourceEnds, Ingr!readerVars
<1>2. PumpDomains'
  BY <1>1 DEF IngrInv, PumpDomains, Ingr!Set
<1>3. ASSUME NEW q \in Arrival, q # r PROVE Pumped(q)'
  BY <1>1, <1>3, PumpedKept DEF IngrInv, PumpDomains, Ingr!Set
<1>4. Pumped(r)'
  <2>1. pump'[r] = "over" /\ ingressEnded'[r] = TRUE /\ Pumped(r)
    BY <1>1 DEF IngrInv, PumpDomains, Ingr!Set
  <2>2. /\ ingressReader[r] \notin {"clean", "timeout frame", "broken"}
        /\ ~(ingressPc[r] # "answered")
    BY <1>1, <2>1 DEF Pumped, PumpStages
  <2>3. BytesTyped(r)' /\ BytesInOrder(r)'
    BY <1>1, <2>1 DEF Pumped, BytesTyped, BytesInOrder
  <2>4. PumpStages(r)'
    BY <1>1, <2>1, <2>2 DEF PumpStages
  <2> QED BY <1>1, <2>1, <2>3, <2>4 DEF Pumped
<1> QED BY <1>2, <1>3, <1>4 DEF IngrInv

\* Bytes of the source keep the invariant.
LEMMA SourceYieldsStep ==
  ASSUME IngrInv, NEW r \in Arrival, NEW b \in Seq(Ingr!Byte), Ingr!SourceYields(r, b)
  PROVE  IngrInv'
<1>1. /\ pump[r] = "source" /\ ~ingressEnded[r] /\ pump' = Ingr!Set(pump, r, "send")
      /\ produced' = Ingr!Set(produced, r, produced[r] \o b)
      /\ left' = Ingr!Set(left, r, b)
      /\ UNCHANGED <<kind, ingressPc, ingressSlot, acked, ingressEnded,
                     ingressTerminal, boundary, ingressReader, delivered>>
  BY DEF Ingr!SourceYields, Ingr!readerVars
<1>2. PumpDomains'
  BY <1>1 DEF IngrInv, PumpDomains, Ingr!Set
<1>3. ASSUME NEW q \in Arrival, q # r PROVE Pumped(q)'
  BY <1>1, <1>3, PumpedKept DEF IngrInv, PumpDomains, Ingr!Set
<1>4. Pumped(r)'
  <2>1. /\ pump'[r] = "send" /\ produced'[r] = produced[r] \o b /\ left'[r] = b
        /\ Pumped(r)
    BY <1>1 DEF IngrInv, PumpDomains, Ingr!Set
  <2>2. /\ ingressReader[r] \notin {"clean", "timeout frame", "broken"}
        /\ ~(ingressPc[r] # "answered")
        /\ ingressSlot[r] = <<>> /\ left[r] = <<>> /\ produced[r] \in Seq(Ingr!Byte)
        /\ delivered[r] \in Seq(Ingr!Byte)
        /\ delivered[r] \o (ingressSlot[r] \o left[r]) = produced[r]
    BY <1>1, <2>1 DEF Pumped, PumpStages, BytesInOrder, BytesTyped
  <2>3. produced[r] = delivered[r]
    BY <2>2, ConcatEmptySeq, EmptySeq
  <2>4. BytesTyped(r)'
    <3>1. produced[r] \o b \in Seq(Ingr!Byte)
      BY <2>2, ConcatProperties
    <3> QED BY <1>1, <2>1, <3>1 DEF Pumped, BytesTyped
  <2>5. BytesInOrder(r)'
    <3>1. delivered[r] \o (<<>> \o b) = produced[r] \o b
      BY <2>3, ConcatEmptySeq
    <3> QED BY <1>1, <2>1, <2>2, <3>1 DEF BytesInOrder
  <2>6. PumpStages(r)'
    BY <1>1, <2>1, <2>2 DEF Pumped, PumpStages
  <2> QED BY <1>1, <2>1, <2>4, <2>5, <2>6 DEF Pumped
<1> QED BY <1>2, <1>3, <1>4 DEF IngrInv

\* A frame and what is left after it are what there was.
LEMMA FrameCut ==
  ASSUME NEW l \in Seq(Ingr!Byte), NEW n, n = Ingr!Min({ChunkBytes, Len(l)})
  PROVE  /\ SubSeq(l, 1, n) \in Seq(Ingr!Byte) /\ SubSeq(l, n + 1, Len(l)) \in Seq(Ingr!Byte)
         /\ SubSeq(l, 1, n) \o SubSeq(l, n + 1, Len(l)) = l
<1>1. n \in Nat /\ n <= Len(l)
  <2>1. ChunkBytes \in Nat /\ Len(l) \in Nat
    BY ComponentsAssumption DEF ComponentsAssumption
  <2>2. \E x \in {ChunkBytes, Len(l)} : \A y \in {ChunkBytes, Len(l)} : x <= y
    BY <2>1
  <2>3. n = CHOOSE x \in {ChunkBytes, Len(l)} : \A y \in {ChunkBytes, Len(l)} : x <= y
    BY Zenon DEF Ingr!Min
  <2>4. n \in {ChunkBytes, Len(l)} /\ \A y \in {ChunkBytes, Len(l)} : n <= y
    BY <2>2, <2>3
  <2> QED BY <2>1, <2>4
<1>2. /\ 1 \in 1..Len(l) + 1 /\ n \in 0..Len(l) /\ n + 1 \in 1..Len(l) + 1
      /\ Len(l) \in Nat /\ Len(l) \in n..Len(l)
  BY <1>1
<1>3. SubSeq(l, 1, n) \in Seq(Ingr!Byte) /\ SubSeq(l, n + 1, Len(l)) \in Seq(Ingr!Byte)
  <2>1. \A i \in 1..Len(l) : l[i] \in Ingr!Byte
    OBVIOUS
  <2>2. (\A i \in 1..n : l[i] \in Ingr!Byte) /\ \A i \in n + 1..Len(l) : l[i] \in Ingr!Byte
    <3>1. ASSUME NEW i \in 1..n PROVE l[i] \in Ingr!Byte
      <4>1. i \in 1..Len(l)
        BY <1>1, <1>2
      <4> QED BY <2>1, <4>1
    <3>2. ASSUME NEW i \in n + 1..Len(l) PROVE l[i] \in Ingr!Byte
      <4>1. i \in 1..Len(l)
        BY <1>1, <1>2
      <4> QED BY <2>1, <4>1
    <3> QED BY <3>1, <3>2
  <2>3. 1 \in Int /\ n \in Int /\ n + 1 \in Int /\ Len(l) \in Int
    BY <1>1, <1>2
  <2> QED BY <2>2, <2>3, SubSeqProperties
<1>4. SubSeq(l, 1, n) \o SubSeq(l, n + 1, Len(l)) = SubSeq(l, 1, Len(l))
  <2>1. 1 \in 1..Len(l) + 1 /\ n \in 1 - 1..Len(l) /\ Len(l) \in n..Len(l)
    BY <1>1, <1>2
  <2> QED BY <2>1, ConcatAdjacentSubSeq
<1>5. SubSeq(l, 1, Len(l)) = l
  BY SubSeqFull
<1> QED BY <1>3, <1>4, <1>5

\* Sending a frame keeps the invariant.
LEMMA PumpSendsStep ==
  ASSUME IngrInv, NEW r \in Arrival, Ingr!PumpSends(r)
  PROVE  IngrInv'
<1> DEFINE n == Ingr!Min({ChunkBytes, Len(left[r])})
           head == SubSeq(left[r], 1, n)
           tail == SubSeq(left[r], n + 1, Len(left[r]))
<1>1. /\ pump[r] = "send" /\ ingressSlot[r] = <<>> /\ pump' = Ingr!Set(pump, r, "ack")
      /\ ingressSlot' = Ingr!Set(ingressSlot, r, head)
      /\ left' = Ingr!Set(left, r, tail)
      /\ acked' = Ingr!Set(acked, r, FALSE)
      /\ UNCHANGED <<kind, ingressPc, produced, ingressEnded,
                     ingressTerminal, boundary, ingressReader, delivered>>
  BY DEF Ingr!PumpSends, Ingr!readerVars
<1>2. PumpDomains'
  BY <1>1 DEF IngrInv, PumpDomains, Ingr!Set
<1>3. ASSUME NEW q \in Arrival, q # r PROVE Pumped(q)'
  BY <1>1, <1>3, PumpedKept DEF IngrInv, PumpDomains, Ingr!Set
<1>4. Pumped(r)'
  <2>1. /\ pump'[r] = "ack" /\ ingressSlot'[r] = head /\ left'[r] = tail
        /\ acked'[r] = FALSE /\ Pumped(r)
    BY <1>1 DEF IngrInv, PumpDomains, Ingr!Set
  <2>2. /\ ingressReader[r] \notin {"clean", "timeout frame", "broken"}
        /\ ~(ingressPc[r] # "answered") /\ ~ingressEnded[r]
        /\ left[r] \in Seq(Ingr!Byte)
        /\ delivered[r] \o (<<>> \o left[r]) = produced[r]
    BY <1>1, <2>1 DEF Pumped, PumpStages, BytesInOrder, BytesTyped
  <2>3. head \in Seq(Ingr!Byte) /\ tail \in Seq(Ingr!Byte) /\ head \o tail = left[r]
    BY <2>2, FrameCut
  <2> HIDE DEF n, head, tail
  <2>4. BytesTyped(r)'
    BY <1>1, <2>1, <2>3 DEF Pumped, BytesTyped
  <2>5. BytesInOrder(r)'
    <3>1. delivered[r] \o (head \o tail) = produced[r]
      BY <2>2, <2>3, ConcatEmptySeq
    <3> QED BY <1>1, <2>1, <2>2, <3>1 DEF BytesInOrder
  <2>6. PumpStages(r)'
    BY <1>1, <2>1, <2>2 DEF Pumped, PumpStages
  <2> QED BY <1>1, <2>1, <2>4, <2>5, <2>6 DEF Pumped
<1> QED BY <1>2, <1>3, <1>4 DEF IngrInv

\* An acknowledgement keeps the invariant.
LEMMA PumpAckedStep ==
  ASSUME IngrInv, NEW r \in Arrival, Ingr!PumpAcked(r)
  PROVE  IngrInv'
<1>1. /\ pump[r] = "ack" /\ acked[r]
      /\ pump' = Ingr!Set(pump, r, IF left[r] = <<>> THEN "source" ELSE "send")
      /\ UNCHANGED <<kind, ingressPc, produced, ingressEnded, left, ingressSlot, acked,
                     ingressTerminal, boundary, ingressReader, delivered>>
  BY DEF Ingr!PumpAcked, Ingr!readerVars
<1>2. PumpDomains'
  BY <1>1 DEF IngrInv, PumpDomains, Ingr!Set
<1>3. ASSUME NEW q \in Arrival, q # r PROVE Pumped(q)'
  BY <1>1, <1>3, PumpedKept DEF IngrInv, PumpDomains, Ingr!Set
<1>4. Pumped(r)'
  <2>1. pump'[r] = (IF left[r] = <<>> THEN "source" ELSE "send") /\ Pumped(r)
    BY <1>1 DEF IngrInv, PumpDomains, Ingr!Set
  <2>2. /\ ingressReader[r] \notin {"clean", "timeout frame", "broken"}
        /\ ~(ingressPc[r] # "answered") /\ ~ingressEnded[r] /\ ingressSlot[r] = <<>>
    BY <1>1, <2>1 DEF Pumped, PumpStages, BytesInOrder
  <2>3. BytesTyped(r)' /\ BytesInOrder(r)'
    BY <1>1, <2>1, <2>2 DEF Pumped, BytesTyped, BytesInOrder
  <2>4. PumpStages(r)'
    BY <1>1, <2>1, <2>2 DEF Pumped, PumpStages
  <2> QED BY <1>1, <2>1, <2>3, <2>4 DEF Pumped
<1> QED BY <1>2, <1>3, <1>4 DEF IngrInv

\* Joining sequences is associative.
LEMMA JoinInOrder ==
  ASSUME NEW S, NEW s \in Seq(S), NEW t \in Seq(S), NEW u \in Seq(S)
  PROVE  (s \o t) \o u = s \o (t \o u)
  BY ConcatAssociative

\* Reading a frame keeps the invariant.
LEMMA ReadsFrameStep ==
  ASSUME IngrInv, NEW r \in Arrival, Ingr!ReadsFrame(r)
  PROVE  IngrInv'
<1>1. /\ ingressReader[r] = "reading" /\ ingressSlot[r] # <<>>
      /\ boundary' = Ingr!Set(boundary, r, Ingr!ObservesAll(boundary[r], ingressSlot[r]))
      /\ delivered' = Ingr!Set(delivered, r, delivered[r] \o ingressSlot[r])
      /\ ingressSlot' = Ingr!Set(ingressSlot, r, <<>>)
      /\ acked' = Ingr!Set(acked, r, TRUE)
      /\ UNCHANGED <<kind, ingressPc, produced, ingressEnded, left, pump,
                     ingressTerminal, ingressReader>>
  BY DEF Ingr!ReadsFrame
<1>2. PumpDomains'
  BY <1>1 DEF IngrInv, PumpDomains, Ingr!Set
<1>3. ASSUME NEW q \in Arrival, q # r PROVE Pumped(q)'
  BY <1>1, <1>3, PumpedKept DEF IngrInv, PumpDomains, Ingr!Set
<1>4. Pumped(r)'
  <2>1. /\ boundary'[r] = Ingr!ObservesAll(boundary[r], ingressSlot[r])
        /\ delivered'[r] = delivered[r] \o ingressSlot[r]
        /\ ingressSlot'[r] = <<>> /\ acked'[r] = TRUE /\ Pumped(r)
    BY <1>1 DEF IngrInv, PumpDomains, Ingr!Set
  <2>2. /\ ~(ingressPc[r] # "answered") /\ ~ingressEnded[r]
        /\ pump[r] \notin {"none", "source", "send"}
        /\ delivered[r] \o (ingressSlot[r] \o left[r]) = produced[r]
    BY <1>1, <2>1 DEF Pumped, PumpStages, BytesInOrder
  <2>3. left[r] \in Seq(Ingr!Byte) /\ ingressSlot[r] \in Seq(Ingr!Byte)
        /\ delivered[r] \in Seq(Ingr!Byte)
    BY <2>1 DEF Pumped, BytesTyped
  <2>4. BytesTyped(r)'
    <3>1. delivered[r] \o ingressSlot[r] \in Seq(Ingr!Byte) /\ <<>> \in Seq(Ingr!Byte)
      BY <2>3, ConcatProperties, EmptySeq
    <3> QED BY <1>1, <2>1, <3>1 DEF Pumped, BytesTyped
  <2>5. BytesInOrder(r)'
    <3>1. (delivered[r] \o ingressSlot[r]) \o (<<>> \o left[r]) = produced[r]
      <4>1. <<>> \o left[r] = left[r]
        BY <2>3, ConcatEmptySeq
      <4>2. (delivered[r] \o ingressSlot[r]) \o left[r]
               = delivered[r] \o (ingressSlot[r] \o left[r])
        <5>1. PICK d \in Seq(Ingr!Byte), t \in Seq(Ingr!Byte), u \in Seq(Ingr!Byte) :
                  d = delivered[r] /\ t = ingressSlot[r] /\ u = left[r]
          BY <2>3
        <5>2. (d \o t) \o u = d \o (t \o u)
          BY JoinInOrder
        <5> QED BY <5>1, <5>2
      <4> QED BY <2>2, <4>1, <4>2
    <3> QED BY <1>1, <2>1, <2>2, <3>1 DEF BytesInOrder
  <2>6. PumpStages(r)'
    BY <1>1, <2>1, <2>2 DEF Pumped, PumpStages
  <2>7. Describes(boundary[r], delivered[r], Len(delivered[r]))'
    BY <2>1, <2>3, ObservedAll DEF Pumped
  <2> QED BY <2>4, <2>5, <2>6, <2>7 DEF Pumped
<1> QED BY <1>2, <1>3, <1>4 DEF IngrInv

\* The reader leaves, or learns how the body ended.
LEMMA ReaderStep ==
  ASSUME IngrInv, NEW r \in Arrival, Ingr!ReadsEnd(r) \/ Ingr!ReaderGoes(r)
  PROVE  IngrInv'
<1>1. PICK v : /\ ingressReader[r] = "reading"
               /\ ingressReader' = Ingr!Set(ingressReader, r, v)
               /\ \/ v = "gone"
                  \/ /\ pump[r] = "over" /\ ingressSlot[r] = <<>>
                     /\ v = IF ingressTerminal[r] = "none" THEN "clean"
                            ELSE IF ingressTerminal[r] = "timeout" /\ Ingr!Sse(r)
                                       /\ boundary[r].safe
                                 THEN "timeout frame" ELSE "broken"
  BY DEF Ingr!ReadsEnd, Ingr!ReaderGoes
<1>2. UNCHANGED <<kind, ingressPc, produced, ingressEnded, left, pump, ingressSlot,
                  ingressTerminal, acked, boundary, delivered>>
  BY DEF Ingr!ReadsEnd, Ingr!ReaderGoes, Ingr!pumpVars
<1>3. PumpDomains'
  BY <1>1, <1>2 DEF IngrInv, PumpDomains, Ingr!Set
<1>4. ASSUME NEW q \in Arrival, q # r PROVE Pumped(q)'
  BY <1>1, <1>2, <1>4, PumpedKept DEF IngrInv, PumpDomains, Ingr!Set
<1>5. Pumped(r)'
  <2>1. ingressReader'[r] = v /\ Pumped(r)
    BY <1>1 DEF IngrInv, PumpDomains, Ingr!Set
  <2>2. ~(ingressPc[r] # "answered")
    BY <1>1, <2>1 DEF Pumped, PumpStages
  <2>3. BytesTyped(r)' /\ BytesInOrder(r)'
    BY <1>2, <2>1 DEF Pumped, BytesTyped, BytesInOrder
  <2>4. PumpStages(r)'
    <3>1. CASE v = "gone"
      BY <1>2, <2>1, <2>2, <3>1 DEF PumpStages
    <3>2. CASE v = "clean"
      BY <1>1, <1>2, <2>1, <2>2, <3>2 DEF Pumped, PumpStages
    <3>3. CASE v = "timeout frame"
      BY <1>1, <1>2, <2>1, <2>2, <3>3 DEF PumpStages, Ingr!Sse
    <3>4. CASE v = "broken"
      BY <1>1, <1>2, <2>1, <2>2, <3>4 DEF PumpStages, Ingr!Sse
    <3> QED BY <1>1, <3>1, <3>2, <3>3, <3>4
  <2> QED BY <1>2, <2>1, <2>3, <2>4 DEF Pumped
<1> QED BY <1>3, <1>4, <1>5 DEF IngrInv

\* Every step of the proxy, source, pump, reader and clock keeps the invariant.
LEMMA NextIngr ==
  ASSUME IngrInv, [Ingr!Next]_(Ingr!vars)
  PROVE  IngrInv'
<1>1. ASSUME UNCHANGED Ingr!vars PROVE IngrInv'
  BY <1>1, DoorStep DEF Ingr!vars, IngrInv, PumpDomains
<1>2. ASSUME NEW r \in Arrival, Ingr!Admits(r) \/ Ingr!Ages(r) \/ Ingr!LogicalTimeout(r)
              \/ Ingr!SelectStreaming(r) \/ Ingr!Submits(r) \/ Ingr!Disconnects(r)
      PROVE  IngrInv'
  <2>1. UNCHANGED <<kind, Ingr!pumpVars, Ingr!readerVars>>
    BY <1>2 DEF Ingr!Admits, Ingr!Unauthorized, Ingr!Acquires, Ingr!QueueTimesOut, Ingr!Ages,
        Ingr!LogicalTimeout, Ingr!SelectStreaming, Ingr!Submits, Ingr!Disconnects, Ingr!Answers
  <2>2. \/ UNCHANGED ingressPc
        \/ ingressPc' = Ingr!Set(ingressPc, r, "answered")
        \/ \E v : ingressPc[r] # "answered" /\ ingressPc' = Ingr!Set(ingressPc, r, v)
    BY <1>2 DEF Ingr!Admits, Ingr!Unauthorized, Ingr!Acquires, Ingr!QueueTimesOut, Ingr!Ages,
        Ingr!LogicalTimeout, Ingr!SelectStreaming, Ingr!Submits, Ingr!Disconnects, Ingr!Answers
  <2>3. /\ DOMAIN ingressPc' = Arrival
        /\ \A q \in Arrival : ingressPc'[q] # "answered" => ingressPc[q] # "answered"
    BY <2>2 DEF IngrInv, PumpDomains, Ingr!Set
  <2> QED BY <2>1, <2>3, DoorStep
<1>3. ASSUME NEW r \in Arrival, Ingr!Pumps(r) PROVE IngrInv'
  BY <1>3, PumpEndsStep, PumpSendsStep, PumpAckedStep
     DEF Ingr!Pumps, Ingr!PumpTimesOut, Ingr!PumpDeserted
<1>4. ASSUME NEW r \in Arrival, Ingr!Source(r) PROVE IngrInv'
  <2>1. ASSUME NEW n \in 1..2, NEW b \in [1..n -> Ingr!Byte], Ingr!SourceYields(r, b)
        PROVE  IngrInv'
    <3>1. b \in Seq(Ingr!Byte)
      BY IsASeq
    <3> QED BY <2>1, <3>1, SourceYieldsStep
  <2>2. ASSUME Ingr!SourceFails(r) PROVE IngrInv'
    BY <2>2, PumpEndsStep DEF Ingr!SourceFails, Ingr!Pumping
  <2> QED BY <1>4, <2>1, <2>2, SourceEndsStep DEF Ingr!Source
<1>5. ASSUME NEW r \in Arrival, Ingr!Reads(r) PROVE IngrInv'
  BY <1>5, ReadsFrameStep, ReaderStep DEF Ingr!Reads
<1> QED BY <1>1, <1>2, <1>3, <1>4, <1>5, RespondsStep DEF Ingr!Next, Ingr!Serves

\* The end of a body is what it seems (PumpedBody::poll_next and run_body_pump):
\* a clean end means that the source had ended and all of it was read, and the
\* timeout event is put in where an event has just ended and only there, for
\* bodies of any length, cut into frames of any size.
THEOREM BodyEndsHonestHolds == Spec => []BodyEndsHonest
<1> DEFINE Inv == component = "ingress" => IngrInv
<1>1. Init => Inv
  BY InitIngr DEF Init
<1>2. Inv /\ [Next]_vars => Inv'
  <2> SUFFICES ASSUME Inv, [Next]_vars, component' = "ingress" PROVE IngrInv'
    OBVIOUS
  <2>1. component = "ingress"
    BY DEF Next, vars
  <2>2. [Ingr!Next]_(Ingr!vars)
    BY <2>1 DEF Next, vars, ingressVars, Ingr!vars, Ingr!pumpVars, Ingr!readerVars
  <2> QED BY <2>1, <2>2, NextIngr
<1>3. Inv => BodyEndsHonest
  <2> SUFFICES ASSUME IngrInv, NEW r \in Arrival
               PROVE  /\ ingressReader[r] = "clean" => ingressEnded[r] /\ delivered[r] = produced[r]
                      /\ ingressReader[r] = "timeout frame"
                            => Ingr!Sse(r) /\ Ingr!WholeEvents(delivered[r])
                      /\ ingressReader[r] = "broken" /\ ingressTerminal[r] = "timeout"
                            => ~Ingr!Sse(r) \/ ~Ingr!WholeEvents(delivered[r])
    BY DEF BodyEndsHonest, Ingr!BodyEndsHonest
  <2>1. Pumped(r) /\ delivered[r] \in Seq(Ingr!Byte)
    BY DEF IngrInv, Pumped, BytesTyped
  <2>2. boundary[r].safe <=> Ingr!WholeEvents(delivered[r])
    BY <2>1, BoundaryExact DEF Pumped
  <2>3. ingressEnded[r] => delivered[r] = produced[r]
    BY <2>1, ConcatEmptySeq, EmptySeq DEF Pumped, BytesInOrder
  <2> QED BY <2>1, <2>2, <2>3 DEF Pumped, PumpStages
<1> QED BY <1>1, <1>2, <1>3, PTL DEF Spec

-----------------------------------------------------------------------------
(***************************************************************************)
(* The receipt store.  All that its operations rely on can be said of the  *)
(* index i of the whole journal: every cached index is that of a beginning *)
(* of the journal (Journaled), so refreshing any of them gives i; and i,   *)
(* with the files and the pending data file, tells what was last stored    *)
(* (StoreInv).  The holder of the lock has i and knows how far it is       *)
(* (Working).                                                              *)
(***************************************************************************)
PendingWrite == [key : Key, content : Nat, at : Nat, shadow : BOOLEAN]

JournalRecord ==
    [op : {"put"}, key : Key, bytes : Nat, at : Nat, shadow : BOOLEAN]
        \cup [op : {"remove", "shadow"}, key : Key]
        \cup [op : {"prepare"}, write : PendingWrite] \cup [op : {"abort"}]

\* g[n] is the index of the first n records of a journal.
IsTrace(g, generation, log) ==
    g = [n \in 0..Len(log) |->
            IF n = 0 THEN Rec!Empty(generation) ELSE Rec!ReadRecord(g[n - 1], log[n])]

\* i is the index of the whole journal, and every index that a process has
\* cached of this journal is that of a beginning of it.
Journaled(i) ==
    \E g : /\ IsTrace(g, journal.generation, journal.log)
           /\ g[Len(journal.log)] = i
           /\ i.generation = journal.generation /\ i.offset = Len(journal.log)
           /\ \A p \in Owner :
                 /\ receiptsIndex[p].generation \in Nat
                 /\ receiptsIndex[p].generation <= journal.generation
                 /\ receiptsIndex[p].generation = journal.generation =>
                       /\ receiptsIndex[p].offset \in 0..Len(journal.log)
                       /\ receiptsIndex[p] = g[receiptsIndex[p].offset]

IsEntries(e) ==
    /\ e = [k \in DOMAIN e |-> e[k]] /\ DOMAIN e \subseteq Key
    /\ \A k \in DOMAIN e : e[k] \in [bytes : Nat, at : Nat]

IsIndex(i) ==
    /\ i = [generation |-> i.generation, offset |-> i.offset, entries |-> i.entries,
            shadows |-> i.shadows, pending |-> i.pending]
    /\ i.generation \in Nat /\ i.offset \in Nat /\ IsEntries(i.entries)
    /\ i.shadows \subseteq Key
    /\ i.pending \in PendingWrite \cup {Rec!NoWrite}

RecJob == [op : {"none", "put", "get"}, key : Key \cup {Rec!NoKey}, content : Nat, at : Nat,
           shadow : BOOLEAN, victim : Key \cup {Rec!NoKey}]

RecTypes ==
    /\ journal = [generation |-> journal.generation, log |-> journal.log]
    /\ journal.generation \in Nat \ {0} /\ journal.log \in Seq(JournalRecord)
    /\ files = [k \in DOMAIN files |-> files[k]] /\ DOMAIN files \subseteq Key
    /\ \A k \in DOMAIN files : files[k] \in Nat
    /\ scratch \in BOOLEAN /\ turn \in Owner \cup {Rec!Nobody}
    /\ DOMAIN receiptsIndex = Owner /\ DOMAIN step = Owner /\ job \in [Owner -> RecJob]
    /\ receiptsClock \in Nat /\ DOMAIN truth = Key

\* The file of k is the one that the journal lists.
ListedAt(i, k) == k \in DOMAIN i.entries /\ files[k] = i.entries[k].bytes
Listed(i) == \A k \in DOMAIN files : ListedAt(i, k)

\* Every file is listed, but for one that has just been renamed into place.
FilesKnown(i) ==
    \/ Listed(i)
    \/ /\ i.pending # Rec!NoWrite /\ ~scratch /\ Rec!Landed(i.pending)
       /\ \A k \in DOMAIN files : k # i.pending.key => ListedAt(i, k)

\* Only a put in progress, and one that fits, leaves something to reconcile.
PendingSound(i) ==
    /\ scratch => i.pending # Rec!NoWrite
    /\ i.pending # Rec!NoWrite =>
          /\ Rec!Fits(i, i.pending)
          /\ Legacy[i.pending.key] # Rec!None => i.pending.shadow

\* What was last stored can be told from the files and the journal.
TruthKept(i) ==
    /\ \A k \in Key :
          truth[k] = IF k \in DOMAIN files THEN files[k]
                     ELSE IF k \in DOMAIN i.entries \/ k \in i.shadows THEN Rec!None
                     ELSE Legacy[k]
    /\ \A k \in DOMAIN i.entries : Legacy[k] # Rec!None => k \in i.shadows

\* The entries of the journal are within the limits.
Within(e) ==
    Rec!LegacyComplete =>
        /\ Cardinality(Rec!LegacyFiles) + Cardinality(DOMAIN e) <= MaxCount
        /\ Rec!LegacyBytes + Rec!ManagedBytes(e) <= MaxTotal

StoreInv(i) == FilesKnown(i) /\ PendingSound(i) /\ TruthKept(i) /\ Within(i.entries)

\* What the operation that holds the lock has found out and done.
WorkingOn(i, p) ==
    LET s == step[p] j == job[p] IN
    /\ receiptsIndex[p] = i
    /\ j.op \in {"put", "get"} /\ j.key \in Key
    /\ s \in {"reconcile", "abort", "ready", "evict", "unlist", "room", "write", "rename",
              "commit", "compact"}
    /\ s \in {"reconcile", "abort"} => i.pending # Rec!NoWrite
    /\ s \in {"ready", "evict", "unlist", "room", "compact"} => i.pending = Rec!NoWrite
    /\ s \in {"write", "rename", "commit"} => i.pending = Rec!Write(j)
    /\ s \in {"abort", "write", "commit"} => ~scratch
    /\ s \in {"abort", "write", "rename"} => Listed(i)
    /\ s = "commit" => Rec!Landed(i.pending)
    /\ s = "evict" => j.op = "get" /\ j.key \in DOMAIN i.entries
    /\ s = "unlist" => j.victim \in Key \ DOMAIN files
    /\ s \in {"room", "write", "rename", "commit"} => j.op = "put"
    /\ s \in {"room", "unlist"} /\ j.op = "put" => (Legacy[j.key] # Rec!None => j.shadow)

Working(i) == turn \in Owner => WorkingOn(i, turn)

RecInv == RecTypes /\ \E i : Journaled(i) /\ IsIndex(i) /\ StoreInv(i) /\ Working(i)

-----------------------------------------------------------------------------

\* The assumptions about the receipt store.
LEMMA RecConstants ==
  /\ IsFiniteSet(Key) /\ Rec!NoKey \notin Key /\ Rec!Nobody \notin Owner
  /\ Legacy \in [Key -> Nat] /\ ReceiptSize \subseteq Nat /\ MaxCount \in Nat /\ MaxTotal \in Nat
  BY ComponentsAssumption DEF ComponentsAssumption

\* Receipts counts as this module does.
LEMMA RecCount ==
  ASSUME NEW S
  PROVE  Rec!Cardinality(S) = Cardinality(S)
  BY Zenon DEF Rec!Cardinality, Cardinality

\* Receipts sums as this module does.
LEMMA SameSum ==
  ASSUME NEW f
  PROVE  Rec!SumOf(f) = SumOf(f)
  BY RecCount DEF Rec!SumOf, Rec!UnitsOf, SumOf, UnitsOf

\* Reading on from any place in the journal leads to the index of all of it.
LEMMA ReadsRest ==
  ASSUME NEW g, NEW generation, NEW log \in Seq(JournalRecord), IsTrace(g, generation, log),
         NEW m \in 0..Len(log), g[m].offset = m
  PROVE  Rec!ReadFrom(g[m], log) = g[Len(log)]
<1> DEFINE i == g[m]
           Upto(f) == f = [n \in m..Len(log) |->
                              IF n = m THEN i ELSE Rec!ReadRecord(f[n - 1], log[n])]
<1>1. Len(log) \in Nat
  OBVIOUS
<1>2. \A n \in 0..Len(log) : n # 0 => g[n] = Rec!ReadRecord(g[n - 1], log[n])
  BY DEF IsTrace
<1>3. \E f : Upto(f)
  <2> DEFINE f == [n \in m..Len(log) |-> g[n]]
  <2>1. \A n \in m..Len(log) :
           f[n] = IF n = m THEN i ELSE Rec!ReadRecord(f[n - 1], log[n])
    <3> SUFFICES ASSUME NEW n \in m..Len(log), n # m
                 PROVE  f[n] = Rec!ReadRecord(f[n - 1], log[n])
      OBVIOUS
    <3>1. n \in 0..Len(log) /\ n # 0 /\ n - 1 \in m..Len(log)
      BY <1>1
    <3>2. f[n] = g[n] /\ f[n - 1] = g[n - 1]
      BY <3>1
    <3> QED BY <1>2, <3>1, <3>2
  <2>2. Upto(f)
    BY <2>1
  <2> QED BY <2>2
<1>4. PICK f : Upto(f) /\ Rec!ReadFrom(i, log) = f[Len(log)]
  <2> DEFINE At(f) == f = [n \in i.offset..Len(log) |->
                              IF n = i.offset THEN i ELSE Rec!ReadRecord(f[n - 1], log[n])]
  <2>1. \A f : At(f) <=> Upto(f)
    OBVIOUS
  <2>2. \E f : At(f)
    BY <1>3, <2>1
  <2>3. \E f : At(f) /\ Rec!ReadFrom(i, log) = f[Len(log)]
    <3> HIDE <2>1
    <3> HIDE DEF i
    <3> QED BY <2>2 DEF Rec!ReadFrom
  <2> QED BY <2>1, <2>3
<1>5. \A n \in m..Len(log) : f[n] = IF n = m THEN i ELSE Rec!ReadRecord(f[n - 1], log[n])
  BY <1>4
<1> DEFINE S == {n \in Nat : m + n <= Len(log) => f[m + n] = g[m + n]}
<1>6. 0 \in S
  <2>1. m + 0 = m /\ m \in m..Len(log)
    BY <1>1
  <2>2. f[m] = g[m]
    BY <1>5, <2>1
  <2> QED BY <2>1, <2>2
<1>7. ASSUME NEW n \in S PROVE n + 1 \in S
  <2> SUFFICES ASSUME m + (n + 1) <= Len(log) PROVE f[m + (n + 1)] = g[m + (n + 1)]
    OBVIOUS
  <2>1. /\ m + (n + 1) \in m..Len(log) /\ m + (n + 1) # m /\ m + (n + 1) \in 0..Len(log)
        /\ m + (n + 1) # 0 /\ (m + (n + 1)) - 1 = m + n
    BY <1>1
  <2>2. f[m + n] = g[m + n]
    BY <1>1
  <2> QED BY <1>2, <1>5, <2>1, <2>2
<1> HIDE DEF S
<1>8. S = Nat
  BY <1>6, <1>7, Induct DEF S
<1>9. f[m + (Len(log) - m)] = g[m + (Len(log) - m)]
  <2>1. Len(log) - m \in S /\ m + (Len(log) - m) <= Len(log)
    BY <1>1, <1>8
  <2> QED BY <2>1 DEF S
<1>10. m + (Len(log) - m) = Len(log)
  BY <1>1
<1> QED BY <1>4, <1>9, <1>10

\* Whatever a process has cached, refreshing it gives the index of the whole
\* journal; so does starting afresh.
LEMMA RefreshedFull ==
  ASSUME RecTypes, NEW i, Journaled(i)
  PROVE  /\ \A p \in Owner : Rec!Refreshed(receiptsIndex[p]) = i
         /\ Rec!Refreshed(Rec!Empty(0)) = i
<1>1. PICK g : /\ IsTrace(g, journal.generation, journal.log) /\ g[Len(journal.log)] = i
               /\ \A p \in Owner :
                    receiptsIndex[p].generation = journal.generation =>
                       /\ receiptsIndex[p].offset \in 0..Len(journal.log)
                       /\ receiptsIndex[p] = g[receiptsIndex[p].offset]
  BY DEF Journaled
<1>2. journal.log \in Seq(JournalRecord) /\ journal.generation # 0 /\ Len(journal.log) \in Nat
  BY DEF RecTypes
<1>3. Rec!ReadFrom(Rec!Empty(journal.generation), journal.log) = i
  <2>1. 0 \in 0..Len(journal.log) /\ g[0] = Rec!Empty(journal.generation) /\ g[0].offset = 0
    BY <1>1, <1>2 DEF IsTrace, Rec!Empty
  <2> QED BY <1>1, <1>2, <2>1, ReadsRest
<1>4. Rec!Refreshed(Rec!Empty(0)) = i
  <2>1. Rec!Empty(0).generation # journal.generation
    BY <1>2 DEF Rec!Empty
  <2> QED BY <1>3, <2>1 DEF Rec!Refreshed
<1>5. ASSUME NEW p \in Owner PROVE Rec!Refreshed(receiptsIndex[p]) = i
  <2>1. CASE receiptsIndex[p].generation = journal.generation
    <3>1. PICK m \in 0..Len(journal.log) : m = receiptsIndex[p].offset /\ receiptsIndex[p] = g[m]
      BY <1>1, <2>1
    <3>2. Rec!ReadFrom(receiptsIndex[p], journal.log) = i
      BY <1>1, <1>2, <3>1, ReadsRest
    <3>3. receiptsIndex[p].offset <= Len(journal.log)
      BY <1>2, <3>1
    <3> QED BY <2>1, <3>2, <3>3 DEF Rec!Refreshed
  <2>2. CASE receiptsIndex[p].generation # journal.generation
    BY <1>3, <2>2 DEF Rec!Refreshed
  <2> QED BY <2>1, <2>2
<1> QED BY <1>4, <1>5

\* Steps that append nothing; a process may refresh its index, or lose it.
LEMMA JournalKept ==
  ASSUME RecTypes, NEW i, Journaled(i), UNCHANGED journal,
         \A p \in Owner : receiptsIndex'[p] \in {receiptsIndex[p], i, Rec!Empty(0)}
  PROVE  Journaled(i)'
<1>1. PICK g : /\ IsTrace(g, journal.generation, journal.log)
               /\ g[Len(journal.log)] = i
               /\ i.generation = journal.generation /\ i.offset = Len(journal.log)
               /\ \A p \in Owner :
                 /\ receiptsIndex[p].generation \in Nat
                 /\ receiptsIndex[p].generation <= journal.generation
                 /\ receiptsIndex[p].generation = journal.generation =>
                       /\ receiptsIndex[p].offset \in 0..Len(journal.log)
                       /\ receiptsIndex[p] = g[receiptsIndex[p].offset]
  BY DEF Journaled
<1>2. Rec!Empty(0).generation = 0 /\ journal.generation \in Nat \ {0} /\ Len(journal.log) \in Nat
  BY DEF Rec!Empty, RecTypes
<1>3. ASSUME NEW p \in Owner
      PROVE  /\ receiptsIndex'[p].generation \in Nat
             /\ receiptsIndex'[p].generation <= journal.generation
             /\ receiptsIndex'[p].generation = journal.generation =>
                   /\ receiptsIndex'[p].offset \in 0..Len(journal.log)
                   /\ receiptsIndex'[p] = g[receiptsIndex'[p].offset]
  <2>1. CASE receiptsIndex'[p] = receiptsIndex[p]
    BY <1>1, <2>1
  <2>2. CASE receiptsIndex'[p] = i
    BY <1>1, <1>2, <2>2
  <2>3. CASE receiptsIndex'[p] = Rec!Empty(0)
    BY <1>2, <2>3
  <2> QED BY <2>1, <2>2, <2>3
<1> QED BY <1>1, <1>3 DEF Journaled

\* append_record keeps the index of the process in step with the journal.
LEMMA JournalAppended ==
  ASSUME RecTypes, NEW i, Journaled(i), NEW p \in Owner, receiptsIndex[p] = i,
         NEW r \in JournalRecord, Rec!Appends(p, r),
         NEW j, j = Rec!ReadRecord(i, r), Rec!ApplyRecord(i, r).offset = i.offset,
         j.generation = i.generation, j.offset = i.offset + 1,
         [Rec!ApplyRecord(i, r) EXCEPT !.offset = i.offset + 1] = j
  PROVE  Journaled(j)' /\ receiptsIndex'[p] = j
         /\ \A q \in Owner : q # p => receiptsIndex'[q] = receiptsIndex[q]
<1> DEFINE log == journal.log
           new == Append(log, r)
<1>1. PICK g : /\ IsTrace(g, journal.generation, log)
               /\ g[Len(log)] = i
               /\ i.generation = journal.generation /\ i.offset = Len(log)
               /\ \A q \in Owner :
                 /\ receiptsIndex[q].generation \in Nat
                 /\ receiptsIndex[q].generation <= journal.generation
                 /\ receiptsIndex[q].generation = journal.generation =>
                       /\ receiptsIndex[q].offset \in 0..Len(log)
                       /\ receiptsIndex[q] = g[receiptsIndex[q].offset]
  BY DEF Journaled
<1>2. /\ log \in Seq(JournalRecord) /\ Len(log) \in Nat /\ journal.generation \in Nat
      /\ journal = [generation |-> journal.generation, log |-> journal.log]
      /\ DOMAIN receiptsIndex = Owner
  BY DEF RecTypes
<1>3. /\ new \in Seq(JournalRecord) /\ Len(new) = Len(log) + 1
      /\ \A n \in 1..Len(log) : new[n] = log[n]
      /\ new[Len(log) + 1] = r
  BY <1>2, AppendProperties
<1>4. journal'.generation = journal.generation /\ journal'.log = new
  BY <1>2 DEF Rec!Appends
<1>5. receiptsIndex'[p] = j /\ \A q \in Owner : q # p => receiptsIndex'[q] = receiptsIndex[q]
  BY <1>1, <1>2 DEF Rec!Appends
<1> HIDE DEF new
<1> DEFINE h == [n \in 0..Len(log) + 1 |-> IF n = Len(log) + 1 THEN j ELSE g[n]]
<1>6. IsTrace(h, journal.generation, new)
  <2>1. \A n \in 0..Len(log) :
            g[n] = IF n = 0 THEN Rec!Empty(journal.generation) ELSE Rec!ReadRecord(g[n - 1], log[n])
    BY <1>1 DEF IsTrace
  <2>2. ASSUME NEW n \in 0..Len(log) + 1
        PROVE  h[n] = IF n = 0 THEN Rec!Empty(journal.generation)
                      ELSE Rec!ReadRecord(h[n - 1], new[n])
    <3>1. CASE n = 0
      BY <1>2, <2>1, <3>1
    <3>2. CASE n \in 1..Len(log)
      <4>1. h[n] = g[n] /\ h[n - 1] = g[n - 1] /\ new[n] = log[n] /\ n # 0 /\ n \in 0..Len(log)
        BY <1>2, <1>3, <3>2
      <4> QED BY <2>1, <4>1
    <3>3. CASE n = Len(log) + 1
      <4>1. h[n] = j /\ h[n - 1] = i /\ new[n] = r /\ n # 0
        BY <1>1, <1>2, <1>3, <3>3
      <4> QED BY <4>1
    <3> QED BY <1>2, <3>1, <3>2, <3>3
  <2>3. h = [n \in 0..Len(new) |-> IF n = 0 THEN Rec!Empty(journal.generation)
                                   ELSE Rec!ReadRecord(h[n - 1], new[n])]
    <3>1. h = [n \in 0..Len(new) |-> h[n]]
      BY <1>3
    <3> HIDE DEF h
    <3> QED BY <1>3, <2>2, <3>1
  <2> QED BY <2>3 DEF IsTrace
<1>7. h[Len(new)] = j /\ j.generation = journal.generation /\ j.offset = Len(new)
  BY <1>1, <1>2, <1>3
<1>8. \A n \in 0..Len(log) : h[n] = g[n]
  BY <1>2
<1>9. ASSUME NEW q \in Owner
      PROVE  /\ receiptsIndex'[q].generation \in Nat
             /\ receiptsIndex'[q].generation <= journal.generation
             /\ receiptsIndex'[q].generation = journal.generation =>
                   /\ receiptsIndex'[q].offset \in 0..Len(new)
                   /\ receiptsIndex'[q] = h[receiptsIndex'[q].offset]
  <2> HIDE DEF h
  <2>1. CASE q = p
    BY <1>2, <1>3, <1>5, <1>7, <2>1
  <2>2. CASE q # p
    <3>1. 0..Len(log) \subseteq 0..Len(new)
      BY <1>2, <1>3
    <3> QED BY <1>1, <1>5, <1>8, <2>2, <3>1
  <2> QED BY <2>1, <2>2
<1>10. Journaled(j)'
  <2> HIDE DEF h
  <2> QED BY <1>4, <1>6, <1>7, <1>9 DEF Journaled
<1> QED BY <1>5, <1>10

\* What each record does to an index.
LEMMA PutRead ==
  ASSUME NEW i, IsIndex(i), NEW w \in PendingWrite, NEW r, r = Rec!PutRecord(w),
         NEW j, j = [generation |-> i.generation, offset |-> i.offset + 1,
                     entries |-> Rec!With(i.entries, w.key, [bytes |-> w.content, at |-> w.at]),
                     shadows |-> IF w.shadow THEN i.shadows \cup {w.key} ELSE i.shadows,
                     pending |-> Rec!NoWrite]
  PROVE  /\ r \in JournalRecord /\ IsIndex(j) /\ j = Rec!ReadRecord(i, r)
         /\ Rec!ApplyRecord(i, r).offset = i.offset
         /\ [Rec!ApplyRecord(i, r) EXCEPT !.offset = i.offset + 1] = j
<1>1. /\ r.op = "put" /\ r.key = w.key /\ r.bytes = w.content /\ r.at = w.at
      /\ r.shadow = w.shadow /\ r \in JournalRecord
  BY DEF Rec!PutRecord, JournalRecord, PendingWrite
<1> DEFINE e == Rec!With(i.entries, w.key, [bytes |-> w.content, at |-> w.at])
<1>2. IsEntries(e)
  BY DEF IsEntries, IsIndex, Rec!With, PendingWrite
<1>3. IsIndex(j)
  BY <1>2 DEF IsIndex, PendingWrite
<1> HIDE DEF e
<1>4. Rec!ApplyRecord(i, r) = [i EXCEPT !.entries = e,
                                        !.shadows = IF w.shadow THEN @ \cup {w.key} ELSE @,
                                        !.pending = Rec!NoWrite]
  BY <1>1 DEF Rec!ApplyRecord, e
<1>5. Rec!ApplyRecord(i, r) = [generation |-> i.generation, offset |-> i.offset, entries |-> e,
          shadows |-> IF w.shadow THEN i.shadows \cup {w.key} ELSE i.shadows,
          pending |-> Rec!NoWrite]
  BY <1>4 DEF IsIndex
<1>6. j = [generation |-> i.generation, offset |-> i.offset + 1, entries |-> e,
           shadows |-> IF w.shadow THEN i.shadows \cup {w.key} ELSE i.shadows,
           pending |-> Rec!NoWrite]
  BY DEF e
<1> QED BY <1>1, <1>3, <1>5, <1>6 DEF Rec!ReadRecord

\* The index after an abort record, read or appended.
LEMMA AbortRead ==
  ASSUME NEW i, IsIndex(i), NEW r, r = [op |-> "abort"],
         NEW j, j = [generation |-> i.generation, offset |-> i.offset + 1,
                     entries |-> i.entries, shadows |-> i.shadows, pending |-> Rec!NoWrite]
  PROVE  /\ r \in JournalRecord /\ IsIndex(j) /\ j = Rec!ReadRecord(i, r)
         /\ Rec!ApplyRecord(i, r).offset = i.offset
         /\ [Rec!ApplyRecord(i, r) EXCEPT !.offset = i.offset + 1] = j
<1>1. r.op = "abort" /\ r \in JournalRecord
  BY DEF JournalRecord
<1>2. IsIndex(j)
  BY DEF IsIndex
<1>3. Rec!ApplyRecord(i, r) = [i EXCEPT !.pending = Rec!NoWrite]
  BY <1>1 DEF Rec!ApplyRecord
<1>4. Rec!ApplyRecord(i, r) = [generation |-> i.generation, offset |-> i.offset,
          entries |-> i.entries, shadows |-> i.shadows, pending |-> Rec!NoWrite]
  BY <1>3 DEF IsIndex
<1> QED BY <1>1, <1>2, <1>4 DEF Rec!ReadRecord

\* The index after a remove record, read or appended.
LEMMA RemoveRead ==
  ASSUME NEW i, IsIndex(i), NEW k \in Key, NEW r, r = [op |-> "remove", key |-> k],
         NEW j, j = [generation |-> i.generation, offset |-> i.offset + 1,
                     entries |-> Rec!Without(i.entries, k), shadows |-> i.shadows,
                     pending |-> i.pending]
  PROVE  /\ r \in JournalRecord /\ IsIndex(j) /\ j = Rec!ReadRecord(i, r)
         /\ Rec!ApplyRecord(i, r).offset = i.offset
         /\ [Rec!ApplyRecord(i, r) EXCEPT !.offset = i.offset + 1] = j
<1>1. r.op = "remove" /\ r.key = k /\ r \in JournalRecord
  BY DEF JournalRecord
<1> DEFINE e == Rec!Without(i.entries, k)
<1>2. IsEntries(e)
  BY DEF IsEntries, IsIndex, Rec!Without
<1>3. IsIndex(j)
  BY <1>2 DEF IsIndex
<1> HIDE DEF e
<1>4. Rec!ApplyRecord(i, r) = [i EXCEPT !.entries = e]
  BY <1>1 DEF Rec!ApplyRecord, e
<1>5. Rec!ApplyRecord(i, r) = [generation |-> i.generation, offset |-> i.offset, entries |-> e,
          shadows |-> i.shadows, pending |-> i.pending]
  BY <1>4 DEF IsIndex
<1>6. j = [generation |-> i.generation, offset |-> i.offset + 1, entries |-> e,
           shadows |-> i.shadows, pending |-> i.pending]
  BY DEF e
<1> QED BY <1>1, <1>3, <1>5, <1>6 DEF Rec!ReadRecord

\* The index after a prepare record, read or appended.
LEMMA PrepareRead ==
  ASSUME NEW i, IsIndex(i), NEW w \in PendingWrite, NEW r, r = [op |-> "prepare", write |-> w],
         NEW j, j = [generation |-> i.generation, offset |-> i.offset + 1,
                     entries |-> i.entries, shadows |-> i.shadows, pending |-> w]
  PROVE  /\ r \in JournalRecord /\ IsIndex(j) /\ j = Rec!ReadRecord(i, r)
         /\ Rec!ApplyRecord(i, r).offset = i.offset
         /\ [Rec!ApplyRecord(i, r) EXCEPT !.offset = i.offset + 1] = j
<1>1. r.op = "prepare" /\ r.write = w /\ r \in JournalRecord
  BY DEF JournalRecord
<1>2. IsIndex(j)
  BY DEF IsIndex
<1>3. Rec!ApplyRecord(i, r) = [i EXCEPT !.pending = w]
  BY <1>1 DEF Rec!ApplyRecord
<1>4. Rec!ApplyRecord(i, r) = [generation |-> i.generation, offset |-> i.offset,
          entries |-> i.entries, shadows |-> i.shadows, pending |-> w]
  BY <1>3 DEF IsIndex
<1> QED BY <1>1, <1>2, <1>4 DEF Rec!ReadRecord

\* The entries of an index can be counted and summed up.
LEMMA EntriesSummed ==
  ASSUME NEW e, IsEntries(e)
  PROVE  /\ IsFiniteSet(DOMAIN e) /\ Cardinality(DOMAIN e) \in Nat
         /\ Summable([k \in DOMAIN e |-> e[k].bytes])
         /\ Rec!ManagedBytes(e) = SumOf([k \in DOMAIN e |-> e[k].bytes])
         /\ Rec!ManagedBytes(e) \in Nat
<1> DEFINE b == [k \in DOMAIN e |-> e[k].bytes]
<1>1. IsFiniteSet(DOMAIN e) /\ Cardinality(DOMAIN e) \in Nat
  BY RecConstants, FS_Subset, FS_CardinalityType DEF IsEntries
<1>2. Summable(b)
  BY <1>1 DEF Summable, IsEntries
<1>3. Rec!ManagedBytes(e) = SumOf(b)
  BY SameSum DEF Rec!ManagedBytes
<1>4. SumOf(b) \in Nat
  <2> HIDE DEF b
  <2> QED BY <1>2, SumType
<1> QED BY <1>1, <1>2, <1>3, <1>4

\* The legacy files have a count and a size.
LEMMA LegacySummed ==
  /\ Cardinality(Rec!LegacyFiles) \in Nat /\ Rec!LegacyBytes \in Nat
<1>1. IsFiniteSet(Rec!LegacyFiles)
  BY RecConstants, FS_Subset DEF Rec!LegacyFiles
<1>2. Summable(Legacy)
  BY RecConstants DEF Summable
<1>3. Rec!LegacyBytes = SumOf(Legacy)
  BY SameSum DEF Rec!LegacyBytes
<1> QED BY <1>1, <1>2, <1>3, FS_CardinalityType, SumType

\* A write that fits keeps the entries within the limits, and so does a removal.
LEMMA PutWithin ==
  ASSUME NEW i, IsIndex(i), NEW w \in PendingWrite, Rec!Fits(i, w)
  PROVE  Within(Rec!With(i.entries, w.key, [bytes |-> w.content, at |-> w.at]))
<1> DEFINE e == i.entries
           o == Rec!Without(e, w.key)
           n == Rec!With(e, w.key, [bytes |-> w.content, at |-> w.at])
           fo == [k \in DOMAIN o |-> o[k].bytes]
           fn == [k \in DOMAIN n |-> n[k].bytes]
<1>1. IsEntries(o) /\ IsEntries(n) /\ w.key \in DOMAIN n /\ w.key \notin DOMAIN o
  BY DEF IsIndex, IsEntries, Rec!With, Rec!Without, PendingWrite
<1>2. DOMAIN o = DOMAIN n \ {w.key} /\ \A k \in DOMAIN o : o[k] = n[k]
  BY DEF Rec!With, Rec!Without
<1>3. n[w.key].bytes = w.content
  BY DEF Rec!With
<1> HIDE DEF o, n, e
<1>4. Cardinality(DOMAIN n) = Cardinality(DOMAIN o) + 1
  <2>1. IsFiniteSet(DOMAIN n) /\ Cardinality(DOMAIN n) \in Nat
    BY <1>1, EntriesSummed
  <2>2. Cardinality(DOMAIN n \ {w.key}) = Cardinality(DOMAIN n) - 1
    BY <1>1, <2>1, FS_RemoveElement
  <2> QED BY <1>2, <2>1, <2>2
<1>5. Rec!ManagedBytes(n) = Rec!ManagedBytes(o) + w.content
  <2>1. /\ Summable(fn) /\ Rec!ManagedBytes(n) = SumOf(fn)
        /\ Summable(fo) /\ Rec!ManagedBytes(o) = SumOf(fo)
    BY <1>1, EntriesSummed
  <2>2. /\ DOMAIN fo = DOMAIN fn \ {w.key} /\ w.key \in DOMAIN fn /\ fn[w.key] = w.content
        /\ \A k \in DOMAIN fo : fo[k] = fn[k]
    BY <1>1, <1>2, <1>3
  <2>3. SumOf(fn) = SumOf(fo) + fn[w.key]
    <3> HIDE DEF fo, fn
    <3> QED BY <2>1, <2>2, SumSplit
  <2> QED BY <2>1, <2>2, <2>3
<1>6. /\ Cardinality(Rec!LegacyFiles) + Cardinality(DOMAIN o) + 1 <= MaxCount
      /\ Rec!LegacyBytes + Rec!ManagedBytes(o) + w.content <= MaxTotal
  BY RecCount DEF Rec!Fits, o, e
<1>7. /\ Cardinality(DOMAIN o) \in Nat /\ Rec!ManagedBytes(o) \in Nat /\ w.content \in Nat
      /\ Cardinality(Rec!LegacyFiles) \in Nat /\ Rec!LegacyBytes \in Nat
      /\ MaxCount \in Nat /\ MaxTotal \in Nat
  BY <1>1, EntriesSummed, LegacySummed, RecConstants DEF PendingWrite
<1>8. Within(n)
  BY <1>4, <1>5, <1>6, <1>7 DEF Within
<1> QED BY <1>8 DEF n, e

\* Fewer and smaller entries stay within the limits.
LEMMA FewerWithin ==
  ASSUME NEW e, IsEntries(e), NEW o, IsEntries(o), DOMAIN o \subseteq DOMAIN e,
         \A k \in DOMAIN o : o[k].bytes <= e[k].bytes, Within(e)
  PROVE  Within(o)
<1> DEFINE fe == [k \in DOMAIN e |-> e[k].bytes]
           fo == [k \in DOMAIN o |-> o[k].bytes]
<1>1. /\ Summable(fe) /\ Rec!ManagedBytes(e) = SumOf(fe) /\ Rec!ManagedBytes(e) \in Nat
      /\ Rec!ManagedBytes(o) = SumOf(fo) /\ Rec!ManagedBytes(o) \in Nat
      /\ IsFiniteSet(DOMAIN e) /\ Cardinality(DOMAIN e) \in Nat /\ Cardinality(DOMAIN o) \in Nat
  BY EntriesSummed
<1>2. DOMAIN fo \subseteq DOMAIN fe /\ \A k \in DOMAIN fo : fo[k] \in Nat /\ fo[k] <= fe[k]
  BY DEF IsEntries
<1>3. SumOf(fo) <= SumOf(fe)
  <2> HIDE DEF fo, fe
  <2> QED BY <1>1, <1>2, SumMonotonic
<1>4. Cardinality(DOMAIN o) <= Cardinality(DOMAIN e)
  BY <1>1, FS_Subset
<1> HIDE DEF fo, fe
<1> QED BY <1>1, <1>3, <1>4, LegacySummed, RecConstants DEF Within


\* The index after a shadow record.
LEMMA ShadowRead ==
  ASSUME NEW i, IsIndex(i), NEW k \in Key, NEW r, r = [op |-> "shadow", key |-> k]
  PROVE  /\ r \in JournalRecord
         /\ Rec!ReadRecord(i, r) =
               [generation |-> i.generation, offset |-> i.offset + 1, entries |-> i.entries,
                shadows |-> i.shadows \cup {k}, pending |-> i.pending]
<1>1. r.op = "shadow" /\ r.key = k /\ r \in JournalRecord
  BY DEF JournalRecord
<1>2. Rec!ApplyRecord(i, r) = [i EXCEPT !.shadows = @ \cup {k}]
  BY <1>1 DEF Rec!ApplyRecord
<1>3. Rec!ApplyRecord(i, r) = [generation |-> i.generation, offset |-> i.offset,
          entries |-> i.entries, shadows |-> i.shadows \cup {k}, pending |-> i.pending]
  BY <1>2 DEF IsIndex
<1> QED BY <1>1, <1>3 DEF Rec!ReadRecord

\* A listing is a sequence.
LEMMA Listed1 ==
  ASSUME NEW S \in SUBSET Key, NEW l \in Rec!Listings(S)
  PROVE  /\ l \in Seq(S) /\ Len(l) = Cardinality(S) /\ Cardinality(S) \in Nat
         /\ \A n \in 1..Len(l) : l[n] \in S
         /\ \A x \in S : \E n \in 1..Len(l) : l[n] = x
<1>1. Cardinality(S) \in Nat
  BY RecConstants, FS_Subset, FS_CardinalityType
<1>2. /\ l \in [1..Cardinality(S) -> S]
      /\ \A x \in S : \E n \in 1..Cardinality(S) : l[n] = x
  BY RecCount DEF Rec!Listings
<1>3. l \in Seq(S)
  BY <1>1, <1>2, IsASeq
<1>4. Len(l) = Cardinality(S)
  BY <1>1, <1>2, <1>3
<1> QED BY <1>1, <1>2, <1>3, <1>4

\* Reading the compacted journal gives the index it was written from.
LEMMA JournalCompacted ==
  ASSUME RecTypes, NEW i, Journaled(i), IsIndex(i), NEW p \in Owner, receiptsIndex[p] = i,
         i.pending = Rec!NoWrite, NEW s \in Rec!Listings(i.shadows), NEW e \in Rec!ByAge(i),
         Rec!Rewrites(p, Rec!ShadowRecords(s) \o Rec!EntryRecords(i, e))
  PROVE  /\ \E j : /\ Journaled(j)' /\ IsIndex(j) /\ j.entries = i.entries
                   /\ j.shadows = i.shadows /\ j.pending = i.pending
         /\ journal' = [generation |-> journal'.generation, log |-> journal'.log]
         /\ journal'.generation \in Nat \ {0} /\ journal'.log \in Seq(JournalRecord)
         /\ DOMAIN receiptsIndex' = Owner
<1>a. PICK log : log = Rec!ShadowRecords(s) \o Rec!EntryRecords(i, e)
  OBVIOUS
<1>b. PICK j : j = [generation |-> journal.generation + 1, offset |-> Len(log),
                    entries |-> i.entries, shadows |-> i.shadows, pending |-> i.pending]
  OBVIOUS
<1>c. Rec!Rewrites(p, log)
  BY <1>a
<1> USE <1>a, <1>b, <1>c
<1> DEFINE G == journal.generation + 1
           a == Len(s)
           b == Len(e)
           S == Rec!ShadowRecords(s)
           E == Rec!EntryRecords(i, e)
           W(n) == [key |-> e[n], content |-> i.entries[e[n]].bytes,
                    at |-> i.entries[e[n]].at, shadow |-> FALSE]
<1>1. /\ i.shadows \subseteq Key /\ IsEntries(i.entries) /\ DOMAIN i.entries \subseteq Key
      /\ journal.generation \in Nat \ {0} /\ DOMAIN receiptsIndex = Owner
  BY DEF IsIndex, IsEntries, RecTypes
<1>2. /\ a \in Nat /\ \A n \in 1..a : s[n] \in i.shadows
      /\ \A k \in i.shadows : \E n \in 1..a : s[n] = k
  BY <1>1, Listed1
<1>3. /\ b \in Nat /\ \A n \in 1..b : e[n] \in DOMAIN i.entries
      /\ \A k \in DOMAIN i.entries : \E n \in 1..b : e[n] = k
  <2>1. e \in Rec!Listings(DOMAIN i.entries)
    BY DEF Rec!ByAge
  <2> QED BY <1>1, <2>1, Listed1
<1>4. ASSUME NEW n \in 1..b PROVE W(n) \in PendingWrite /\ Rec!PutRecord(W(n)) \in JournalRecord
  <2>1. e[n] \in Key /\ i.entries[e[n]].bytes \in Nat /\ i.entries[e[n]].at \in Nat
    BY <1>1, <1>3 DEF IsEntries
  <2>2. W(n) \in PendingWrite
    BY <2>1 DEF PendingWrite
  <2> QED BY <2>2 DEF Rec!PutRecord, JournalRecord, PendingWrite
<1>5. S \in Seq(JournalRecord) /\ Len(S) = a /\ \A n \in 1..a : S[n] = [op |-> "shadow", key |-> s[n]]
  <2>1. S = [n \in 1..a |-> [op |-> "shadow", key |-> s[n]]]
    BY DEF Rec!ShadowRecords
  <2>2. \A n \in 1..a : [op |-> "shadow", key |-> s[n]] \in JournalRecord
    BY <1>1, <1>2 DEF JournalRecord
  <2>3. S \in [1..a -> JournalRecord]
    BY <2>1, <2>2
  <2>4. S \in Seq(JournalRecord)
    <3> HIDE DEF S, a
    <3> QED BY <1>2, <2>3, IsASeq
  <2>5. Len(S) = a
    <3> HIDE DEF S, a
    <3> QED BY <1>2, <2>3, <2>4
  <2> QED BY <2>1, <2>4, <2>5
<1>6. E \in Seq(JournalRecord) /\ Len(E) = b /\ \A n \in 1..b : E[n] = Rec!PutRecord(W(n))
  <2>1. E = [n \in 1..b |-> Rec!PutRecord(W(n))]
    BY DEF Rec!EntryRecords
  <2>2. E \in [1..b -> JournalRecord]
    <3> HIDE DEF W
    <3> QED BY <1>4, <2>1
  <2>3. E \in Seq(JournalRecord)
    <3> HIDE DEF E, b
    <3> QED BY <1>3, <2>2, IsASeq
  <2>4. Len(E) = b
    <3> HIDE DEF E, b
    <3> QED BY <1>3, <2>2, <2>3
  <2> QED BY <2>1, <2>3, <2>4
<1> HIDE DEF S, E, W, a, b
<1>7. /\ log \in Seq(JournalRecord) /\ Len(log) = a + b
      /\ \A n \in 1..a : log[n] = [op |-> "shadow", key |-> s[n]]
      /\ \A n \in 1..b : log[a + n] = Rec!PutRecord(W(n))
  <2>1. log = S \o E
    BY DEF S, E
  <2>2. /\ log \in Seq(JournalRecord) /\ Len(log) = a + b
        /\ \A n \in 1..a + b : log[n] = IF n <= a THEN S[n] ELSE E[n - a]
    <3>1. /\ S \o E \in Seq(JournalRecord) /\ Len(S \o E) = Len(S) + Len(E)
          /\ \A n \in 1..Len(S) + Len(E) :
                (S \o E)[n] = IF n <= Len(S) THEN S[n] ELSE E[n - Len(S)]
      BY <1>5, <1>6, ConcatProperties
    <3> QED BY <1>5, <1>6, <2>1, <3>1
  <2>3. ASSUME NEW n \in 1..a PROVE log[n] = [op |-> "shadow", key |-> s[n]]
    BY <1>2, <1>3, <1>5, <2>2
  <2>4. ASSUME NEW n \in 1..b PROVE log[a + n] = Rec!PutRecord(W(n))
    <3>1. a + n \in 1..a + b /\ ~(a + n <= a) /\ (a + n) - a = n
      BY <1>2, <1>3
    <3> QED BY <1>6, <2>2, <3>1
  <2> QED BY <2>2, <2>3, <2>4
<1> DEFINE Done(n) == {e[m] : m \in 1..(n - a)}
           Seen(n) == {s[m] : m \in {q \in 1..a : q <= n}}
           T(n) == [generation |-> G, offset |-> n, entries |-> [k \in Done(n) |-> i.entries[k]],
                    shadows |-> Seen(n), pending |-> Rec!NoWrite]
           g == [n \in 0..a + b |-> T(n)]
<1>8. T(0) = Rec!Empty(G)
  <2>1. Done(0) = {} /\ Seen(0) = {}
    BY <1>2
  <2>2. [k \in Done(0) |-> i.entries[k]] = Rec!Nothing
    BY <2>1 DEF Rec!Nothing
  <2> QED BY <2>1, <2>2 DEF Rec!Empty
<1>9. ASSUME NEW n \in 0..a + b PROVE IsIndex(T(n))
  <2>1. ASSUME NEW k \in Done(n) PROVE k \in DOMAIN i.entries
    <3>1. PICK m \in 1..(n - a) : k = e[m]
      BY <2>1
    <3>2. m \in 1..b
      BY <1>2, <1>3
    <3> QED BY <1>3, <3>1, <3>2
  <2>2. Seen(n) \subseteq Key
    BY <1>1, <1>2
  <2>3. IsEntries([k \in Done(n) |-> i.entries[k]])
    <3> HIDE DEF Done
    <3> QED BY <1>1, <2>1 DEF IsEntries
  <2> HIDE DEF Done, Seen
  <2> QED BY <1>1, <1>2, <1>3, <2>2, <2>3 DEF IsIndex
<1>10. ASSUME NEW n \in 1..a PROVE T(n) = Rec!ReadRecord(T(n - 1), log[n])
  <2>1. IsIndex(T(n - 1))
    <3>1. n - 1 \in 0..a + b
      BY <1>2, <1>3
    <3> HIDE DEF T
    <3> QED BY <1>9, <3>1
  <2>2. s[n] \in Key /\ log[n] = [op |-> "shadow", key |-> s[n]]
    BY <1>1, <1>2, <1>7
  <2>3. Done(n - 1) = {} /\ Done(n) = {} /\ (n - 1) + 1 = n
    BY <1>2
  <2>4. Seen(n) = Seen(n - 1) \cup {s[n]}
    <3>1. {q \in 1..a : q <= n} = {q \in 1..a : q <= n - 1} \cup {n}
      BY <1>2
    <3> QED BY <3>1
  <2>5. Rec!ReadRecord(T(n - 1), log[n]) =
          [generation |-> G, offset |-> (n - 1) + 1, entries |-> [k \in Done(n - 1) |-> i.entries[k]],
           shadows |-> Seen(n - 1) \cup {s[n]}, pending |-> Rec!NoWrite]
    <3> HIDE DEF Done, Seen, G
    <3>1. /\ T(n - 1).generation = G /\ T(n - 1).offset = n - 1
          /\ T(n - 1).entries = [k \in Done(n - 1) |-> i.entries[k]]
          /\ T(n - 1).shadows = Seen(n - 1) /\ T(n - 1).pending = Rec!NoWrite
      OBVIOUS
    <3> HIDE DEF T
    <3>2. Rec!ReadRecord(T(n - 1), log[n]) =
             [generation |-> T(n - 1).generation, offset |-> T(n - 1).offset + 1,
              entries |-> T(n - 1).entries, shadows |-> T(n - 1).shadows \cup {s[n]},
              pending |-> T(n - 1).pending]
      BY <2>1, <2>2, ShadowRead
    <3> QED BY <3>1, <3>2
  <2> HIDE DEF Done, Seen, G
  <2> QED BY <2>3, <2>4, <2>5
<1>11. ASSUME NEW m \in 1..b PROVE T(a + m) = Rec!ReadRecord(T(a + m - 1), log[a + m])
  <2> DEFINE n == a + m
  <2>1. IsIndex(T(n - 1))
    <3>1. n - 1 \in 0..a + b
      BY <1>2, <1>3
    <3> HIDE DEF T, n
    <3> QED BY <1>9, <3>1
  <2>2. W(m) \in PendingWrite /\ log[n] = Rec!PutRecord(W(m))
    BY <1>4, <1>7
  <2>3. (n - 1) + 1 = n /\ n - a = m /\ (n - 1) - a = m - 1
    BY <1>2
  <2>4. Seen(n - 1) = Seen(n)
    <3>1. {q \in 1..a : q <= n} = {q \in 1..a : q <= n - 1}
      BY <1>2
    <3> QED BY <3>1
  <2>5. Done(n) = Done(n - 1) \cup {e[m]}
    <3>1. 1..m = (1..(m - 1)) \cup {m}
      OBVIOUS
    <3> QED BY <2>3, <3>1
  <2> HIDE DEF Done, Seen, G, n
  <2>6. /\ W(m).key = e[m] /\ W(m).shadow = FALSE
        /\ [bytes |-> W(m).content, at |-> W(m).at] = i.entries[e[m]]
    BY <1>1, <1>3 DEF W, IsEntries
  <2>7. Rec!With(T(n - 1).entries, e[m], i.entries[e[m]]) = [k \in Done(n) |-> i.entries[k]]
    BY <2>5 DEF Rec!With
  <2>8. Rec!ReadRecord(T(n - 1), log[n]) =
          [generation |-> G, offset |-> (n - 1) + 1,
           entries |-> Rec!With(T(n - 1).entries, W(m).key,
                                [bytes |-> W(m).content, at |-> W(m).at]),
           shadows |-> IF W(m).shadow THEN T(n - 1).shadows \cup {W(m).key} ELSE T(n - 1).shadows,
           pending |-> Rec!NoWrite]
    BY <2>1, <2>2, PutRead
  <2>9. Rec!ReadRecord(T(n - 1), log[n]) = T(n)
    BY <2>3, <2>4, <2>6, <2>7, <2>8
  <2> HIDE DEF T
  <2>10. n = a + m /\ n - 1 = a + m - 1
    BY <1>2, <1>3 DEF n
  <2> QED BY <2>9, <2>10
<1>12. IsTrace(g, G, log)
  <2>1. ASSUME NEW n \in 0..a + b
        PROVE  g[n] = IF n = 0 THEN Rec!Empty(G) ELSE Rec!ReadRecord(g[n - 1], log[n])
    <3> HIDE DEF T
    <3>1. CASE n = 0
      BY <1>8, <3>1
    <3>2. CASE n \in 1..a
      <4>1. n # 0 /\ n - 1 \in 0..a + b
        BY <1>2, <1>3, <3>2
      <4> QED BY <1>10, <3>2, <4>1
    <3>3. CASE n \in a + 1..a + b
      <4>1. PICK m \in 1..b : n = a + m
        <5>1. n - a \in 1..b /\ n = a + (n - a)
          BY <1>2, <1>3, <3>3
        <5> QED BY <5>1
      <4>2. n # 0 /\ n - 1 \in 0..a + b
        BY <1>2, <1>3, <3>3
      <4>3. T(n) = Rec!ReadRecord(T(n - 1), log[n])
        <5>1. n - 1 = a + m - 1
          BY <1>2, <1>3, <4>1
        <5> QED BY <1>11, <4>1, <5>1
      <4> QED BY <4>2, <4>3
    <3>4. n = 0 \/ n \in 1..a \/ n \in a + 1..a + b
      BY <1>2, <1>3
    <3> QED BY <3>1, <3>2, <3>3, <3>4
  <2>2. g = [n \in 0..Len(log) |-> g[n]]
    BY <1>7
  <2> HIDE DEF g, G
  <2>3. g = [n \in 0..Len(log) |-> IF n = 0 THEN Rec!Empty(G) ELSE Rec!ReadRecord(g[n - 1], log[n])]
    BY <1>7, <2>1, <2>2
  <2> QED BY <2>3 DEF IsTrace
<1>13. g[Len(log)] = j
  <2>1. Done(a + b) = DOMAIN i.entries /\ Seen(a + b) = i.shadows
    <3>1. (a + b) - a = b /\ {q \in 1..a : q <= a + b} = 1..a
      BY <1>2, <1>3
    <3>2. Done(a + b) = {e[m] : m \in 1..b} /\ Seen(a + b) = {s[m] : m \in 1..a}
      BY <3>1
    <3>3. {e[m] : m \in 1..b} \subseteq DOMAIN i.entries /\ {s[m] : m \in 1..a} \subseteq i.shadows
      BY <1>2, <1>3
    <3>4. DOMAIN i.entries \subseteq {e[m] : m \in 1..b} /\ i.shadows \subseteq {s[m] : m \in 1..a}
      BY <1>2, <1>3
    <3> HIDE DEF Done, Seen
    <3> QED BY <3>2, <3>3, <3>4
  <2>2. [k \in Done(a + b) |-> i.entries[k]] = i.entries
    <3> HIDE DEF Done
    <3> QED BY <1>1, <2>1 DEF IsEntries
  <2>3. g[Len(log)] = T(a + b)
    BY <1>2, <1>3, <1>7
  <2> HIDE DEF Done, Seen, g
  <2> QED BY <1>7, <2>1, <2>2, <2>3
<1>14. IsIndex(j) /\ j.generation = G /\ j.offset = Len(log) /\ G \in Nat /\ Len(log) \in Nat
  BY <1>1, <1>7 DEF IsIndex
<1>15. /\ journal'.generation = G /\ journal'.log = log
       /\ receiptsIndex'[p] = j /\ DOMAIN receiptsIndex' = Owner
       /\ \A q \in Owner : q # p => receiptsIndex'[q] = receiptsIndex[q]
  <2> HIDE <1>a
  <2>1. /\ journal' = [generation |-> G, log |-> log]
        /\ receiptsIndex' = [receiptsIndex EXCEPT ![p].generation = G, ![p].offset = Len(log)]
    BY <1>c DEF Rec!Rewrites
  <2>2. /\ DOMAIN receiptsIndex' = Owner
        /\ \A q \in Owner : q # p => receiptsIndex'[q] = receiptsIndex[q]
    BY <1>1, <2>1
  <2>3. receiptsIndex'[p] = [i EXCEPT !.generation = G, !.offset = Len(log)]
    BY <1>1, <2>1
  <2>4. receiptsIndex'[p] = j
    BY <2>3, <1>b DEF IsIndex
  <2> QED BY <2>1, <2>2, <2>4
<1>16. ASSUME NEW q \in Owner
       PROVE  /\ receiptsIndex'[q].generation \in Nat
              /\ receiptsIndex'[q].generation <= G
              /\ receiptsIndex'[q].generation = G =>
                   /\ receiptsIndex'[q].offset \in 0..Len(log)
                   /\ receiptsIndex'[q] = g[receiptsIndex'[q].offset]
  <2>1. receiptsIndex[q].generation \in Nat /\ receiptsIndex[q].generation <= journal.generation
    BY DEF Journaled
  <2>2. CASE q = p
    <3> HIDE DEF g, G
    <3> QED BY <1>13, <1>14, <1>15, <2>2
  <2>3. CASE q # p
    <3> HIDE DEF g
    <3> QED BY <1>1, <1>15, <2>1, <2>3
  <2> QED BY <2>2, <2>3
<1>17. Journaled(j)'
  <2> HIDE DEF g, G
  <2> QED BY <1>12, <1>13, <1>14, <1>15, <1>16 DEF Journaled
<1>18. j.entries = i.entries /\ j.shadows = i.shadows /\ j.pending = i.pending
  OBVIOUS
<1>19. /\ journal' = [generation |-> journal'.generation, log |-> journal'.log]
       /\ journal'.generation \in Nat \ {0} /\ journal'.log \in Seq(JournalRecord)
  BY <1>1, <1>7, <1>15 DEF Rec!Rewrites
<1> HIDE <1>a, <1>b, <1>c
<1> QED BY <1>14, <1>15, <1>17, <1>18, <1>19, Zenon


-----------------------------------------------------------------------------
RecAt(i) == Journaled(i) /\ IsIndex(i) /\ StoreInv(i) /\ Working(i)

\* No write is not a write.
LEMMA NoWriteKey == Rec!NoWrite.key = Rec!NoKey /\ Rec!NoWrite \notin PendingWrite
  BY RecConstants DEF Rec!NoWrite, Rec!Write, Rec!NoJob, PendingWrite

\* The invariant holds of an empty journal.
LEMMA InitRec ==
  ASSUME Rec!Init
  PROVE  RecInv
<1> DEFINE i == Rec!Empty(1)
           g == [n \in 0..0 |-> i]
<1>1. /\ journal = [generation |-> 1, log |-> <<>>] /\ files = Rec!Nothing /\ scratch = FALSE
      /\ turn = Rec!Nobody /\ receiptsIndex = [p \in Owner |-> Rec!Empty(0)]
      /\ step = [p \in Owner |-> "idle"] /\ job = [p \in Owner |-> Rec!NoJob]
      /\ receiptsClock = 0 /\ truth = Legacy
  BY DEF Rec!Init
<1>2. RecTypes
  <2>1. <<>> \in Seq(JournalRecord)
    BY EmptySeq
  <2>2. Rec!NoJob \in RecJob
    BY DEF Rec!NoJob, RecJob, Rec!None
  <2>3. DOMAIN files = {} /\ files = [k \in DOMAIN files |-> files[k]]
    BY <1>1 DEF Rec!Nothing
  <2>4. job \in [Owner -> RecJob] /\ DOMAIN truth = Key
    BY <1>1, <2>2, RecConstants
  <2>5. /\ journal.generation = 1 /\ journal.log = <<>>
        /\ journal = [generation |-> journal.generation, log |-> journal.log]
    BY <1>1
  <2>6. DOMAIN receiptsIndex = Owner /\ DOMAIN step = Owner
    BY <1>1
  <2>7. /\ journal.generation \in Nat \ {0} /\ journal.log \in Seq(JournalRecord)
        /\ scratch \in BOOLEAN /\ turn \in Owner \cup {Rec!Nobody} /\ receiptsClock \in Nat
    <3>1. journal.log \in Seq(JournalRecord)
      BY <2>1, <2>5, Zenon
    <3>2. scratch \in BOOLEAN /\ turn \in Owner \cup {Rec!Nobody}
      BY <1>1, Zenon
    <3>3. journal.generation \in Nat \ {0} /\ receiptsClock \in Nat
      BY <1>1, <2>5
    <3> QED BY <3>1, <3>2, <3>3, Zenon
  <2>8. DOMAIN files \subseteq Key /\ \A k \in DOMAIN files : files[k] \in Nat
    BY <2>3
  <2> HIDE DEF RecJob
  <2> QED BY <2>3, <2>4, <2>5, <2>6, <2>7, <2>8, Zenon DEF RecTypes
<1>3. i = [generation |-> 1, offset |-> 0, entries |-> Rec!Nothing, shadows |-> {},
           pending |-> Rec!NoWrite]
  BY DEF Rec!Empty
<1>4. IsEntries(Rec!Nothing) /\ DOMAIN Rec!Nothing = {}
  BY DEF IsEntries, Rec!Nothing
<1>5. IsIndex(i)
  BY <1>3, <1>4 DEF IsIndex
<1>6. Journaled(i)
  <2>1. Len(<<>>) = 0 /\ IsTrace(g, 1, <<>>)
    BY DEF IsTrace
  <2>2. g[0] = i /\ Rec!Empty(0).generation = 0
    BY DEF Rec!Empty
  <2> QED BY <1>1, <1>3, <2>1, <2>2 DEF Journaled
<1>7. StoreInv(i)
  <2>1. FilesKnown(i) /\ PendingSound(i)
    BY <1>1, <1>3, <1>4 DEF FilesKnown, PendingSound, Listed
  <2>2. TruthKept(i)
    BY <1>1, <1>3, <1>4 DEF TruthKept
  <2>3. Within(i.entries)
    <3>1. Rec!ManagedBytes(Rec!Nothing) = 0
      <4>1. SumOf([k \in DOMAIN Rec!Nothing |-> Rec!Nothing[k].bytes]) = 0
        BY <1>4, SumEmpty
      <4> QED BY <1>4, <4>1, EntriesSummed
    <3>2. Cardinality(DOMAIN Rec!Nothing) = 0
      BY <1>4, FS_EmptySet
    <3> QED BY <1>3, <3>1, <3>2, RecCount, LegacySummed, RecConstants DEF Within, Rec!LegacyComplete
  <2> QED BY <2>1, <2>2, <2>3 DEF StoreInv
<1>8. Working(i)
  BY <1>1, RecConstants DEF Working
<1> QED BY <1>2, <1>5, <1>6, <1>7, <1>8 DEF RecInv

\* Steps that leave what is stored alone.
LEMMA StoreKept ==
  ASSUME NEW i, StoreInv(i), UNCHANGED <<files, scratch, truth>>
  PROVE  StoreInv(i)'
<1>1. FilesKnown(i)' /\ PendingSound(i)' /\ TruthKept(i)'
  BY DEF StoreInv, FilesKnown, PendingSound, TruthKept, Listed, ListedAt, Rec!Landed
<1> QED BY <1>1 DEF StoreInv

\* Taking the lock and refreshing the index keeps the invariant.
LEMMA OpensStep ==
  ASSUME RecTypes, NEW i, RecAt(i), NEW p \in Owner, NEW work \in RecJob,
         work.op \in {"put", "get"}, work.key \in Key, Rec!Opens(p, work)
  PROVE  RecInv'
<1>1. /\ turn' = p /\ job' = [job EXCEPT ![p] = work]
      /\ receiptsIndex' = [receiptsIndex EXCEPT ![p] = i]
      /\ step' = [step EXCEPT ![p] = IF i.pending = Rec!NoWrite THEN "ready" ELSE "reconcile"]
      /\ UNCHANGED <<journal, files, scratch, receiptsClock, truth>>
  BY RefreshedFull DEF Rec!Opens, Rec!Goes, RecAt
<1>2. RecTypes'
  BY <1>1 DEF RecTypes
<1>3. Journaled(i)' /\ StoreInv(i)'
  BY <1>1, JournalKept, StoreKept DEF RecAt, RecTypes
<1>4. Working(i)'
  <2>1. /\ receiptsIndex'[p] = i /\ job'[p] = work
        /\ step'[p] = IF i.pending = Rec!NoWrite THEN "ready" ELSE "reconcile"
    BY <1>1 DEF RecTypes
  <2>2. WorkingOn(i, p)'
    BY <1>1, <2>1 DEF WorkingOn
  <2> QED BY <1>1, <2>2 DEF Working
<1> QED BY <1>2, <1>3, <1>4 DEF RecAt, RecInv

\* An operation is over.
LEMMA ReturnsStep ==
  ASSUME RecTypes, NEW i, RecAt(i), NEW p \in Owner, Rec!Returns(p),
         receiptsIndex' \in {receiptsIndex, [receiptsIndex EXCEPT ![p] = Rec!Empty(0)]},
         UNCHANGED <<journal, files, scratch, receiptsClock, truth>>
  PROVE  RecInv'
<1>1. /\ turn' = Rec!Nobody /\ job' = [job EXCEPT ![p] = Rec!NoJob]
      /\ step' = [step EXCEPT ![p] = "idle"]
  BY DEF Rec!Returns, Rec!Goes
<1>2. RecTypes'
  <2>1. Rec!NoJob \in RecJob
    BY DEF Rec!NoJob, RecJob, Rec!None
  <2>2. job' \in [Owner -> RecJob]
    BY <1>1, <2>1 DEF RecTypes
  <2> HIDE DEF RecJob
  <2> QED BY <1>1, <2>2 DEF RecTypes
<1>3. Journaled(i)' /\ StoreInv(i)'
  BY JournalKept, StoreKept DEF RecAt, RecTypes
<1>4. Working(i)'
  BY <1>1, RecConstants DEF Working
<1> QED BY <1>2, <1>3, <1>4 DEF RecAt, RecInv

\* Removing the scratch file of an interrupted write keeps the invariant.
LEMMA RemovesScratchStep ==
  ASSUME RecTypes, NEW i, RecAt(i), NEW p \in Owner, Rec!RemovesScratch(p)
  PROVE  RecInv'
<1>1. /\ turn = p /\ step[p] = "reconcile" /\ scratch
      /\ scratch' = FALSE /\ step' = [step EXCEPT ![p] = "abort"]
      /\ UNCHANGED <<journal, files, turn, receiptsIndex, job, receiptsClock, truth>>
  BY DEF Rec!RemovesScratch, Rec!At, Rec!Goes
<1>2. RecTypes'
  BY <1>1 DEF RecTypes
<1>3. Journaled(i)'
  BY <1>1, JournalKept DEF RecAt
<1>4. Listed(i) /\ StoreInv(i)
  BY <1>1 DEF RecAt, StoreInv, FilesKnown
<1>5. Listed(i)'
  BY <1>1, <1>4 DEF Listed, ListedAt
<1>6. StoreInv(i)'
  BY <1>1, <1>4, <1>5 DEF StoreInv, FilesKnown, PendingSound, TruthKept
<1>7. Working(i)'
  <2>1. WorkingOn(i, p) /\ step'[p] = "abort"
    BY <1>1 DEF RecAt, Working, RecTypes
  <2>2. WorkingOn(i, p)'
    BY <1>1, <1>5, <2>1 DEF WorkingOn
  <2> QED BY <1>1, <2>2 DEF Working
<1> QED BY <1>2, <1>3, <1>6, <1>7 DEF RecAt, RecInv

\* An appended record leaves the journal well typed.
LEMMA AppendTyped ==
  ASSUME RecTypes, NEW p \in Owner, NEW r \in JournalRecord, Rec!Appends(p, r)
  PROVE  /\ journal' = [generation |-> journal'.generation, log |-> journal'.log]
         /\ journal'.generation \in Nat \ {0} /\ journal'.log \in Seq(JournalRecord)
         /\ DOMAIN receiptsIndex' = Owner
<1>1. /\ journal.log \in Seq(JournalRecord) /\ journal.generation \in Nat \ {0}
      /\ journal = [generation |-> journal.generation, log |-> journal.log]
  BY DEF RecTypes
<1>2. Append(journal.log, r) \in Seq(JournalRecord)
  BY <1>1, AppendProperties
<1>3. journal' = [generation |-> journal.generation, log |-> Append(journal.log, r)]
  BY <1>1 DEF Rec!Appends
<1>4. DOMAIN receiptsIndex' = Owner
  BY DEF Rec!Appends, RecTypes
<1> QED BY <1>1, <1>2, <1>3, <1>4

\* A put record for a write that is in place.
LEMMA PutStep ==
  ASSUME RecTypes, NEW i, RecAt(i), NEW p \in Owner, turn = p, NEW w, w = i.pending,
         w # Rec!NoWrite, ~scratch, Rec!Landed(w), Rec!Appends(p, Rec!PutRecord(w)),
         NEW s \in {"ready", "compact"}, step' = [step EXCEPT ![p] = s],
         UNCHANGED <<files, scratch, turn, job, receiptsClock, truth>>
  PROVE  RecInv'
<1> DEFINE e == Rec!With(i.entries, w.key, [bytes |-> w.content, at |-> w.at])
           j == [generation |-> i.generation, offset |-> i.offset + 1, entries |-> e,
                 shadows |-> IF w.shadow THEN i.shadows \cup {w.key} ELSE i.shadows,
                 pending |-> Rec!NoWrite]
           r == Rec!PutRecord(w)
<1>1. w \in PendingWrite /\ IsIndex(i) /\ receiptsIndex[p] = i
  BY DEF RecAt, IsIndex, Working, WorkingOn
<1>2. /\ r \in JournalRecord /\ IsIndex(j) /\ j = Rec!ReadRecord(i, r)
      /\ Rec!ApplyRecord(i, r).offset = i.offset
      /\ [Rec!ApplyRecord(i, r) EXCEPT !.offset = i.offset + 1] = j
  BY <1>1, PutRead
<1>3. /\ j.generation = i.generation /\ j.offset = i.offset + 1 /\ j.entries = e
      /\ j.shadows = (IF w.shadow THEN i.shadows \cup {w.key} ELSE i.shadows)
      /\ j.pending = Rec!NoWrite
  OBVIOUS
<1> HIDE DEF j, r
<1>4. Journaled(j)' /\ receiptsIndex'[p] = j
  BY <1>1, <1>2, <1>3, JournalAppended DEF RecAt, r
<1>5. RecTypes'
  BY <1>2, AppendTyped DEF r, RecTypes
<1>6. /\ w.key \in DOMAIN files /\ files[w.key] = w.content /\ w.key \in Key
      /\ \A k \in DOMAIN files : k # w.key => ListedAt(i, k)
  BY <1>1 DEF RecAt, StoreInv, FilesKnown, Listed, Rec!Landed, PendingWrite
<1>7. /\ w.key \in DOMAIN e /\ e[w.key].bytes = w.content /\ DOMAIN e = DOMAIN i.entries \cup {w.key}
      /\ \A k \in DOMAIN i.entries : k # w.key => k \in DOMAIN e /\ e[k] = i.entries[k]
  BY DEF Rec!With
<1>8. Within(e) /\ (Legacy[w.key] # Rec!None => w.shadow)
  BY <1>1, PutWithin DEF RecAt, StoreInv, PendingSound
<1> HIDE DEF e
<1>9. StoreInv(j)'
  <2>1. Listed(j)'
    BY <1>3, <1>6, <1>7 DEF Listed, ListedAt
  <2>2. TruthKept(j)'
    <3>1. ASSUME NEW k \in Key, k \notin DOMAIN files
          PROVE  k \in DOMAIN j.entries \/ k \in j.shadows
                    <=> k \in DOMAIN i.entries \/ k \in i.shadows
      BY <1>3, <1>6, <1>7, <3>1
    <3>2. \A k \in DOMAIN j.entries : Legacy[k] # Rec!None => k \in j.shadows
      BY <1>3, <1>7, <1>8 DEF RecAt, StoreInv, TruthKept
    <3> QED BY <3>1, <3>2 DEF RecAt, StoreInv, TruthKept
  <2>3. PendingSound(j)'
    BY <1>3 DEF PendingSound
  <2> QED BY <1>3, <1>8, <2>1, <2>2, <2>3 DEF StoreInv, FilesKnown, Within
<1>10. Working(j)'
  <2>1. WorkingOn(i, p) /\ step'[p] = s
    BY DEF RecAt, Working, RecTypes
  <2>2. WorkingOn(j, p)'
    BY <1>3, <1>4, <2>1 DEF WorkingOn
  <2> QED BY <2>2 DEF Working
<1> QED BY <1>2, <1>4, <1>5, <1>9, <1>10 DEF RecAt, RecInv

\* An abort record for a write that is not in place.
LEMMA AbortStep ==
  ASSUME RecTypes, NEW i, RecAt(i), NEW p \in Owner, turn = p, i.pending # Rec!NoWrite, ~scratch,
         Listed(i), Rec!Appends(p, [op |-> "abort"]), step' = [step EXCEPT ![p] = "ready"],
         UNCHANGED <<files, scratch, turn, job, receiptsClock, truth>>
  PROVE  RecInv'
<1> DEFINE j == [generation |-> i.generation, offset |-> i.offset + 1, entries |-> i.entries,
                 shadows |-> i.shadows, pending |-> Rec!NoWrite]
           r == [op |-> "abort"]
<1>1. IsIndex(i) /\ receiptsIndex[p] = i
  BY DEF RecAt, Working, WorkingOn
<1>2. /\ r \in JournalRecord /\ IsIndex(j) /\ j = Rec!ReadRecord(i, r)
      /\ Rec!ApplyRecord(i, r).offset = i.offset
      /\ [Rec!ApplyRecord(i, r) EXCEPT !.offset = i.offset + 1] = j
  BY <1>1, AbortRead
<1>3. /\ j.generation = i.generation /\ j.offset = i.offset + 1 /\ j.entries = i.entries
      /\ j.shadows = i.shadows /\ j.pending = Rec!NoWrite
  OBVIOUS
<1> HIDE DEF j, r
<1>4. Journaled(j)' /\ receiptsIndex'[p] = j
  BY <1>1, <1>2, <1>3, JournalAppended DEF RecAt, r
<1>5. RecTypes'
  BY <1>2, AppendTyped DEF r, RecTypes
<1>6. StoreInv(j)'
  <2>1. Listed(j)'
    BY <1>3 DEF Listed, ListedAt
  <2>2. TruthKept(j)'
    BY <1>3 DEF RecAt, StoreInv, TruthKept
  <2>3. PendingSound(j)'
    BY <1>3 DEF PendingSound
  <2> QED BY <1>3, <2>1, <2>2, <2>3 DEF RecAt, StoreInv, FilesKnown, Within
<1>7. Working(j)'
  <2>1. WorkingOn(i, p) /\ step'[p] = "ready"
    BY DEF RecAt, Working, RecTypes
  <2>2. WorkingOn(j, p)'
    BY <1>3, <1>4, <2>1 DEF WorkingOn
  <2> QED BY <2>2 DEF Working
<1> QED BY <1>2, <1>4, <1>5, <1>6, <1>7 DEF RecAt, RecInv

\* Settling an interrupted write keeps the invariant.
LEMMA ReconcilesStep ==
  ASSUME RecTypes, NEW i, RecAt(i), NEW p \in Owner, Rec!Reconciles(p)
  PROVE  RecInv'
<1>1. /\ turn = p /\ step' = [step EXCEPT ![p] = "ready"]
      /\ UNCHANGED <<files, scratch, turn, job, receiptsClock, truth>>
  BY DEF Rec!Reconciles, Rec!At, Rec!Goes
<1>2. WorkingOn(i, p)
  BY <1>1 DEF RecAt, Working
<1>3. receiptsIndex[p] = i
  BY <1>2 DEF WorkingOn
<1>4. CASE step[p] = "abort" /\ Rec!Appends(p, [op |-> "abort"])
  <2>1. i.pending # Rec!NoWrite /\ ~scratch /\ Listed(i)
    BY <1>2, <1>4 DEF WorkingOn
  <2> QED BY <1>1, <1>4, <2>1, AbortStep
<1>5. CASE step[p] = "reconcile" /\ ~scratch /\ Rec!Appends(p, Rec!Settlement(i.pending))
  <2>1. i.pending # Rec!NoWrite
    BY <1>2, <1>5 DEF WorkingOn
  <2>2. CASE Rec!Landed(i.pending)
    <3>1. Rec!Settlement(i.pending) = Rec!PutRecord(i.pending)
      BY <2>2 DEF Rec!Settlement
    <3>2. "ready" \in {"ready", "compact"}
      OBVIOUS
    <3> QED BY <1>1, <1>5, <2>1, <2>2, <3>1, <3>2, PutStep
  <2>3. CASE ~Rec!Landed(i.pending)
    <3>1. Rec!Settlement(i.pending) = [op |-> "abort"]
      BY <2>3 DEF Rec!Settlement
    <3>2. Listed(i)
      BY <2>3 DEF RecAt, StoreInv, FilesKnown
    <3> QED BY <1>1, <1>5, <2>1, <3>1, <3>2, AbortStep
  <2> QED BY <2>2, <2>3
<1> QED BY <1>3, <1>4, <1>5 DEF Rec!Reconciles, Rec!At


\* A lookup keeps the invariant.
LEMMA GetsStep ==
  ASSUME RecTypes, NEW i, RecAt(i), NEW p \in Owner, Rec!Gets(p)
  PROVE  RecInv'
<1>1. /\ turn = p /\ step[p] = "ready" /\ job[p].op = "get"
      /\ UNCHANGED <<journal, files, scratch, receiptsIndex, receiptsClock, truth>>
  BY DEF Rec!Gets, Rec!At
<1>2. WorkingOn(i, p)
  BY <1>1 DEF RecAt, Working
<1>3. receiptsIndex[p] = i
  BY <1>2 DEF WorkingOn
<1>4. CASE Rec!Returns(p)
  BY <1>1, <1>4, ReturnsStep
<1>5. CASE /\ job[p].key \in DOMAIN i.entries /\ step' = [step EXCEPT ![p] = "evict"]
           /\ UNCHANGED <<turn, job>>
  <2>1. RecTypes'
    BY <1>1, <1>5 DEF RecTypes
  <2>2. Journaled(i)' /\ StoreInv(i)'
    BY <1>1, JournalKept, StoreKept DEF RecAt
  <2>3. step'[p] = "evict"
    BY <1>5 DEF RecTypes
  <2>4. WorkingOn(i, p)'
    BY <1>1, <1>2, <1>5, <2>3 DEF WorkingOn
  <2> QED BY <1>1, <1>5, <2>1, <2>2, <2>4 DEF RecAt, RecInv, Working
<1> QED BY <1>3, <1>4, <1>5 DEF Rec!Gets, Rec!Goes

\* Admitting a put keeps the invariant.
LEMMA AdmitsStep ==
  ASSUME RecTypes, NEW i, RecAt(i), NEW p \in Owner, Rec!Admits(p)
  PROVE  RecInv'
<1> DEFINE b == job[p].key \in i.shadows \/ Legacy[job[p].key] # Rec!None
<1>1. /\ turn = p /\ step[p] = "ready" /\ job[p].op = "put"
      /\ UNCHANGED <<journal, files, scratch, receiptsIndex, receiptsClock, truth>>
  BY DEF Rec!Admits, Rec!At
<1>2. WorkingOn(i, p)
  BY <1>1 DEF RecAt, Working
<1>3. receiptsIndex[p] = i
  BY <1>2 DEF WorkingOn
<1>4. CASE Rec!Returns(p)
  BY <1>1, <1>4, ReturnsStep
<1>5. CASE /\ step' = [step EXCEPT ![p] = "room"] /\ UNCHANGED turn
           /\ job' = [job EXCEPT ![p].at = receiptsClock, ![p].shadow = b]
  <2>1. job' \in [Owner -> RecJob]
    <3> DEFINE work == [job[p] EXCEPT !.at = receiptsClock, !.shadow = b]
    <3>1. job[p] \in RecJob /\ receiptsClock \in Nat /\ b \in BOOLEAN
      BY DEF RecTypes
    <3>2. work \in RecJob
      BY <3>1 DEF RecJob
    <3>3. job' = [job EXCEPT ![p] = work]
      BY <1>5
    <3> HIDE DEF work, RecJob
    <3> QED BY <3>2, <3>3 DEF RecTypes
  <2>2. /\ step'[p] = "room" /\ job'[p].op = job[p].op /\ job'[p].key = job[p].key
        /\ job'[p].shadow = b
    BY <1>5 DEF RecTypes, RecJob
  <2>3. RecTypes'
    BY <1>1, <1>5, <2>1 DEF RecTypes
  <2>4. Journaled(i)' /\ StoreInv(i)'
    BY <1>1, JournalKept, StoreKept DEF RecAt
  <2>5. WorkingOn(i, p)'
    BY <1>1, <1>2, <2>2 DEF WorkingOn
  <2> QED BY <1>1, <1>5, <2>3, <2>4, <2>5 DEF RecAt, RecInv, Working
<1> QED BY <1>3, <1>4, <1>5 DEF Rec!Admits, Rec!Goes

\* The file goes first: until its record follows, the entry stands for nothing.
LEMMA RemovesFileStep ==
  ASSUME RecTypes, NEW i, RecAt(i), NEW p \in Owner, turn = p, step[p] \in {"room", "evict"},
         NEW k \in DOMAIN i.entries, Rec!RemovesFile(p, k)
  PROVE  RecInv'
<1>1. /\ files' = Rec!Without(files, k) /\ truth' = [truth EXCEPT ![k] = Rec!None]
      /\ step' = [step EXCEPT ![p] = "unlist"] /\ job' = [job EXCEPT ![p].victim = k]
      /\ UNCHANGED <<journal, scratch, turn, receiptsIndex, receiptsClock>>
  BY DEF Rec!RemovesFile, Rec!Goes
<1>2. WorkingOn(i, p) /\ IsIndex(i)
  BY DEF RecAt, Working
<1>3. k \in Key /\ i.pending = Rec!NoWrite
  BY <1>2 DEF WorkingOn, IsIndex, IsEntries
<1>4. /\ DOMAIN files' = DOMAIN files \ {k} /\ \A x \in DOMAIN files' : files'[x] = files[x]
      /\ files' = [x \in DOMAIN files' |-> files'[x]]
  BY <1>1 DEF Rec!Without
<1>5. Listed(i) /\ StoreInv(i)
  BY <1>3 DEF RecAt, StoreInv, FilesKnown
<1>6. RecTypes'
  <2>1. job' \in [Owner -> RecJob]
    <3> DEFINE work == [job[p] EXCEPT !.victim = k]
    <3>1. job[p] \in RecJob
      BY DEF RecTypes
    <3>2. work \in RecJob
      BY <1>3, <3>1 DEF RecJob
    <3>3. job' = [job EXCEPT ![p] = work]
      BY <1>1
    <3> HIDE DEF work, RecJob
    <3> QED BY <3>2, <3>3 DEF RecTypes
  <2> QED BY <1>1, <1>4, <2>1 DEF RecTypes
<1>7. Journaled(i)'
  BY <1>1, JournalKept DEF RecAt
<1>8. StoreInv(i)'
  <2>1. FilesKnown(i)'
    BY <1>4, <1>5 DEF FilesKnown, Listed, ListedAt
  <2>2. PendingSound(i)'
    BY <1>1, <1>3, <1>5 DEF PendingSound, StoreInv
  <2>3. ASSUME NEW x \in Key
        PROVE  truth'[x] = IF x \in DOMAIN files' THEN files'[x]
                           ELSE IF x \in DOMAIN i.entries \/ x \in i.shadows THEN Rec!None
                           ELSE Legacy[x]
    <3>1. CASE x = k
      BY <1>1, <1>4, <3>1 DEF RecTypes
    <3>2. CASE x # k
      BY <1>1, <1>4, <1>5, <3>2 DEF RecTypes, StoreInv, TruthKept
    <3> QED BY <3>1, <3>2
  <2>4. TruthKept(i)'
    BY <1>5, <2>3 DEF StoreInv, TruthKept
  <2> QED BY <1>5, <2>1, <2>2, <2>4 DEF StoreInv, Within
<1>9. Working(i)'
  <2>1. step'[p] = "unlist" /\ job'[p] = [job[p] EXCEPT !.victim = k]
    BY <1>1 DEF RecTypes
  <2>2. /\ job'[p].op = job[p].op /\ job'[p].key = job[p].key /\ job'[p].victim = k
        /\ job'[p].shadow = job[p].shadow
    BY <2>1 DEF RecTypes, RecJob
  <2>3. WorkingOn(i, p)'
    BY <1>1, <1>2, <1>3, <1>4, <2>1, <2>2 DEF WorkingOn
  <2> QED BY <1>1, <2>3 DEF Working
<1> QED BY <1>2, <1>6, <1>7, <1>8, <1>9 DEF RecAt, RecInv

\* Removing an evicted receipt's file keeps the invariant.
LEMMA EvictsStep ==
  ASSUME RecTypes, NEW i, RecAt(i), NEW p \in Owner, Rec!Evicts(p)
  PROVE  RecInv'
<1>1. turn = p
  BY DEF Rec!Evicts, Rec!At
<1>2. WorkingOn(i, p)
  BY <1>1 DEF RecAt, Working
<1>3. receiptsIndex[p] = i
  BY <1>2 DEF WorkingOn
<1>4. CASE step[p] = "room" /\ \E k \in Rec!Victims(i, job[p]) : Rec!RemovesFile(p, k)
  <2>1. PICK k \in Rec!Victims(i, job[p]) : Rec!RemovesFile(p, k)
    BY <1>4
  <2>2. k \in DOMAIN i.entries
    BY DEF Rec!Victims, Rec!Oldest
  <2> QED BY <1>1, <1>4, <2>1, <2>2, RemovesFileStep
<1>5. CASE step[p] = "evict" /\ Rec!RemovesFile(p, job[p].key)
  <2>1. job[p].key \in DOMAIN i.entries
    BY <1>2, <1>5 DEF WorkingOn
  <2> QED BY <1>1, <1>5, <2>1, RemovesFileStep
<1> QED BY <1>3, <1>4, <1>5 DEF Rec!Evicts, Rec!At

\* Recording an eviction keeps the invariant.
LEMMA UnlistsStep ==
  ASSUME RecTypes, NEW i, RecAt(i), NEW p \in Owner, Rec!Unlists(p)
  PROVE  RecInv'
<1>0. PICK k : k = job[p].victim
  OBVIOUS
<1> DEFINE e == Rec!Without(i.entries, k)
           j == [generation |-> i.generation, offset |-> i.offset + 1, entries |-> e,
                 shadows |-> i.shadows, pending |-> i.pending]
           r == [op |-> "remove", key |-> k]
           s == IF job[p].op = "put" THEN "room" ELSE "compact"
<1>1. /\ turn = p /\ step[p] = "unlist" /\ Rec!Appends(p, r)
      /\ step' = [step EXCEPT ![p] = s]
      /\ job' = [job EXCEPT ![p].victim = Rec!NoKey]
      /\ UNCHANGED <<files, scratch, turn, receiptsClock, truth>>
  BY <1>0 DEF Rec!Unlists, Rec!At, Rec!Goes
<1>2. WorkingOn(i, p) /\ IsIndex(i)
  BY <1>1 DEF RecAt, Working
<1>3. k \in Key /\ k \notin DOMAIN files /\ i.pending = Rec!NoWrite /\ receiptsIndex[p] = i
  BY <1>0, <1>1, <1>2 DEF WorkingOn
<1>4. /\ r \in JournalRecord /\ IsIndex(j) /\ j = Rec!ReadRecord(i, r)
      /\ Rec!ApplyRecord(i, r).offset = i.offset
      /\ [Rec!ApplyRecord(i, r) EXCEPT !.offset = i.offset + 1] = j
  BY <1>2, <1>3, RemoveRead
<1>5. /\ j.generation = i.generation /\ j.offset = i.offset + 1 /\ j.entries = e
      /\ j.shadows = i.shadows /\ j.pending = Rec!NoWrite
  BY <1>3
<1>6. IsEntries(e) /\ IsEntries(i.entries)
  BY <1>2, <1>4, <1>5 DEF IsIndex
<1> HIDE DEF j, r
<1>7. Journaled(j)' /\ receiptsIndex'[p] = j
  BY <1>1, <1>3, <1>4, <1>5, JournalAppended DEF RecAt
<1>8. DOMAIN e = DOMAIN i.entries \ {k} /\ \A x \in DOMAIN e : e[x] = i.entries[x]
  BY DEF Rec!Without
<1> HIDE DEF e
<1>9. RecTypes'
  <2>1. job' \in [Owner -> RecJob]
    <3> DEFINE work == [job[p] EXCEPT !.victim = Rec!NoKey]
    <3>1. job[p] \in RecJob
      BY DEF RecTypes
    <3>2. work \in RecJob
      BY <3>1 DEF RecJob
    <3>3. job' = [job EXCEPT ![p] = work]
      BY <1>1
    <3> HIDE DEF work, RecJob
    <3> QED BY <3>2, <3>3 DEF RecTypes
  <2> QED BY <1>1, <1>4, <2>1, AppendTyped DEF RecTypes
<1>10. Listed(i) /\ StoreInv(i)
  BY <1>3 DEF RecAt, StoreInv, FilesKnown
<1>11. StoreInv(j)'
  <2>1. Listed(j)'
    BY <1>1, <1>3, <1>5, <1>8, <1>10 DEF Listed, ListedAt
  <2>2. PendingSound(j)'
    BY <1>1, <1>3, <1>5, <1>10 DEF PendingSound, StoreInv
  <2>3. ASSUME NEW x \in Key
        PROVE  truth[x] = IF x \in DOMAIN files THEN files[x]
                          ELSE IF x \in DOMAIN e \/ x \in i.shadows THEN Rec!None
                          ELSE Legacy[x]
    <3>1. CASE x = k
      BY <1>3, <1>8, <1>10, <3>1 DEF StoreInv, TruthKept
    <3>2. CASE x # k
      BY <1>8, <1>10, <3>2 DEF StoreInv, TruthKept
    <3> QED BY <3>1, <3>2
  <2>4. TruthKept(j)'
    BY <1>1, <1>5, <1>8, <1>10, <2>3 DEF StoreInv, TruthKept
  <2>5. Within(e)
    <3>1. \A x \in DOMAIN e : e[x].bytes <= i.entries[x].bytes
      BY <1>6, <1>8 DEF IsEntries
    <3>2. DOMAIN e \subseteq DOMAIN i.entries /\ Within(i.entries)
      BY <1>8, <1>10 DEF StoreInv
    <3> QED BY <1>6, <3>1, <3>2, FewerWithin
  <2> QED BY <1>5, <2>1, <2>2, <2>4, <2>5 DEF StoreInv, FilesKnown, Within
<1>12. Working(j)'
  <2>1. step'[p] = s /\ job'[p] = [job[p] EXCEPT !.victim = Rec!NoKey]
    BY <1>1 DEF RecTypes
  <2>2. /\ job'[p].op = job[p].op /\ job'[p].key = job[p].key
        /\ job'[p].shadow = job[p].shadow
    BY <2>1 DEF RecTypes, RecJob
  <2>3. WorkingOn(j, p)'
    BY <1>1, <1>2, <1>3, <1>5, <1>7, <2>1, <2>2 DEF WorkingOn
  <2> QED BY <1>1, <2>3 DEF Working
<1> QED BY <1>4, <1>7, <1>9, <1>11, <1>12 DEF RecAt, RecInv

\* Announcing a write that fits keeps the invariant.
LEMMA PreparesStep ==
  ASSUME RecTypes, NEW i, RecAt(i), NEW p \in Owner, Rec!Prepares(p)
  PROVE  RecInv'
<1>0. PICK w : w = Rec!Write(job[p])
  OBVIOUS
<1> DEFINE j == [generation |-> i.generation, offset |-> i.offset + 1, entries |-> i.entries,
                 shadows |-> i.shadows, pending |-> w]
           r == [op |-> "prepare", write |-> w]
<1>1. turn = p /\ step[p] = "room"
  BY DEF Rec!Prepares, Rec!At
<1>2. WorkingOn(i, p) /\ IsIndex(i)
  BY <1>1 DEF RecAt, Working
<1>3. i.pending = Rec!NoWrite /\ receiptsIndex[p] = i /\ job[p].key \in Key
  BY <1>1, <1>2 DEF WorkingOn
<1>4. /\ Rec!Fits(i, job[p]) /\ Rec!Appends(p, r) /\ step' = [step EXCEPT ![p] = "write"]
      /\ UNCHANGED <<files, scratch, turn, job, receiptsClock, truth>>
  BY <1>0, <1>3 DEF Rec!Prepares, Rec!Goes
<1>5. /\ w \in PendingWrite /\ w # Rec!NoWrite
      /\ w.key = job[p].key /\ w.content = job[p].content /\ w.shadow = job[p].shadow
  <2>1. job[p].content \in Nat /\ job[p].at \in Nat /\ job[p].shadow \in BOOLEAN
    BY DEF RecTypes, RecJob
  <2> QED BY <1>0, <1>3, <2>1, NoWriteKey DEF Rec!Write, PendingWrite
<1>6. /\ r \in JournalRecord /\ IsIndex(j) /\ j = Rec!ReadRecord(i, r)
      /\ Rec!ApplyRecord(i, r).offset = i.offset
      /\ [Rec!ApplyRecord(i, r) EXCEPT !.offset = i.offset + 1] = j
  BY <1>2, <1>5, PrepareRead
<1>7. /\ j.generation = i.generation /\ j.offset = i.offset + 1 /\ j.entries = i.entries
      /\ j.shadows = i.shadows /\ j.pending = w
  OBVIOUS
<1> HIDE DEF j, r
<1>8. Journaled(j)' /\ receiptsIndex'[p] = j
  BY <1>3, <1>4, <1>6, <1>7, JournalAppended DEF RecAt
<1>9. RecTypes'
  BY <1>4, <1>6, AppendTyped DEF RecTypes
<1>10. Listed(i) /\ StoreInv(i) /\ ~scratch
  BY <1>3 DEF RecAt, StoreInv, FilesKnown, PendingSound
<1>11. Listed(j)'
  BY <1>4, <1>7, <1>10 DEF Listed, ListedAt
<1>12. StoreInv(j)'
  <2>1. Legacy[w.key] # Rec!None => w.shadow
    BY <1>1, <1>2, <1>5 DEF WorkingOn
  <2>2. Rec!Fits(j, w)
    BY <1>4, <1>5, <1>7 DEF Rec!Fits
  <2>3. PendingSound(j)'
    BY <1>5, <1>7, <2>1, <2>2 DEF PendingSound
  <2>4. TruthKept(j)'
    BY <1>4, <1>7, <1>10 DEF StoreInv, TruthKept
  <2> QED BY <1>7, <1>10, <1>11, <2>3, <2>4 DEF StoreInv, FilesKnown, Within
<1>13. Working(j)'
  <2>1. step'[p] = "write"
    BY <1>4 DEF RecTypes
  <2>2. j.pending = Rec!Write(job[p])
    BY <1>0, <1>7
  <2>3. WorkingOn(j, p)'
    BY <1>1, <1>2, <1>4, <1>8, <1>10, <1>11, <2>1, <2>2 DEF WorkingOn
  <2> QED BY <1>1, <1>4, <2>3 DEF Working
<1> QED BY <1>6, <1>8, <1>9, <1>12, <1>13 DEF RecAt, RecInv

\* Writing the scratch file keeps the invariant.
LEMMA WritesStep ==
  ASSUME RecTypes, NEW i, RecAt(i), NEW p \in Owner, Rec!Writes(p)
  PROVE  RecInv'
<1>1. /\ turn = p /\ step[p] = "write" /\ scratch' = TRUE /\ step' = [step EXCEPT ![p] = "rename"]
      /\ UNCHANGED <<journal, files, turn, receiptsIndex, job, receiptsClock, truth>>
  BY DEF Rec!Writes, Rec!At, Rec!Goes
<1>2. WorkingOn(i, p) /\ IsIndex(i)
  BY <1>1 DEF RecAt, Working
<1>3. i.pending # Rec!NoWrite /\ Listed(i)
  <2>1. i.pending = Rec!Write(job[p]) /\ job[p].key \in Key /\ Listed(i)
    BY <1>1, <1>2 DEF WorkingOn
  <2> QED BY <2>1, NoWriteKey, RecConstants DEF Rec!Write
<1>4. RecTypes'
  BY <1>1 DEF RecTypes
<1>5. Journaled(i)'
  BY <1>1, JournalKept DEF RecAt
<1>6. Listed(i)'
  BY <1>1, <1>3 DEF Listed, ListedAt
<1>7. StoreInv(i)'
  BY <1>1, <1>3, <1>6 DEF RecAt, StoreInv, FilesKnown, PendingSound, TruthKept
<1>8. Working(i)'
  <2>1. step'[p] = "rename"
    BY <1>1 DEF RecTypes
  <2>2. WorkingOn(i, p)'
    BY <1>1, <1>2, <1>6, <2>1 DEF WorkingOn
  <2> QED BY <1>1, <2>2 DEF Working
<1> QED BY <1>2, <1>4, <1>5, <1>7, <1>8 DEF RecAt, RecInv

\* Renaming the scratch file into place keeps the invariant.
LEMMA RenamesStep ==
  ASSUME RecTypes, NEW i, RecAt(i), NEW p \in Owner, Rec!Renames(p)
  PROVE  RecInv'
<1> DEFINE k == job[p].key
           v == job[p].content
<1>1. /\ turn = p /\ step[p] = "rename" /\ scratch' = FALSE /\ files' = Rec!With(files, k, v)
      /\ truth' = [truth EXCEPT ![k] = v] /\ step' = [step EXCEPT ![p] = "commit"]
      /\ UNCHANGED <<journal, turn, receiptsIndex, job, receiptsClock>>
  BY DEF Rec!Renames, Rec!At, Rec!Goes
<1>2. WorkingOn(i, p) /\ IsIndex(i)
  BY <1>1 DEF RecAt, Working
<1>3. i.pending = Rec!Write(job[p]) /\ Listed(i) /\ k \in Key /\ v \in Nat
  BY <1>1, <1>2 DEF WorkingOn, RecTypes, RecJob
<1>4. i.pending.key = k /\ i.pending.content = v /\ i.pending # Rec!NoWrite
  BY <1>3, NoWriteKey, RecConstants DEF Rec!Write
<1>5. /\ DOMAIN files' = DOMAIN files \cup {k} /\ files'[k] = v
      /\ \A x \in DOMAIN files : x # k => files'[x] = files[x]
      /\ files' = [x \in DOMAIN files' |-> files'[x]]
  BY <1>1 DEF Rec!With
<1> HIDE DEF k, v
<1>6. RecTypes'
  BY <1>1, <1>3, <1>5 DEF RecTypes
<1>7. Journaled(i)'
  BY <1>1, JournalKept DEF RecAt
<1>8. Rec!Landed(i.pending)'
  BY <1>4, <1>5 DEF Rec!Landed
<1>9. StoreInv(i)'
  <2>1. FilesKnown(i)'
    BY <1>1, <1>3, <1>4, <1>5, <1>8 DEF FilesKnown, Listed, ListedAt
  <2>2. PendingSound(i)'
    BY <1>1 DEF PendingSound, RecAt, StoreInv
  <2>3. ASSUME NEW x \in Key
        PROVE  truth'[x] = IF x \in DOMAIN files' THEN files'[x]
                           ELSE IF x \in DOMAIN i.entries \/ x \in i.shadows THEN Rec!None
                           ELSE Legacy[x]
    <3>1. CASE x = k
      BY <1>1, <1>5, <3>1 DEF RecTypes
    <3>2. CASE x # k
      BY <1>1, <1>5, <3>2 DEF RecTypes, RecAt, StoreInv, TruthKept
    <3> QED BY <3>1, <3>2
  <2>4. TruthKept(i)'
    BY <2>3 DEF RecAt, StoreInv, TruthKept
  <2> QED BY <2>1, <2>2, <2>4 DEF RecAt, StoreInv, Within
<1>10. Working(i)'
  <2>1. step'[p] = "commit"
    BY <1>1 DEF RecTypes
  <2>2. WorkingOn(i, p)'
    BY <1>1, <1>2, <1>8, <2>1 DEF WorkingOn
  <2> QED BY <1>1, <2>2 DEF Working
<1> QED BY <1>2, <1>6, <1>7, <1>9, <1>10 DEF RecAt, RecInv

\* Recording a finished write keeps the invariant.
LEMMA CommitsStep ==
  ASSUME RecTypes, NEW i, RecAt(i), NEW p \in Owner, Rec!Commits(p)
  PROVE  RecInv'
<1>1. /\ turn = p /\ step[p] = "commit" /\ Rec!Appends(p, Rec!PutRecord(Rec!Write(job[p])))
      /\ step' = [step EXCEPT ![p] = "compact"]
      /\ UNCHANGED <<files, scratch, turn, job, receiptsClock, truth>>
  BY DEF Rec!Commits, Rec!At, Rec!Goes
<1>2. WorkingOn(i, p)
  BY <1>1 DEF RecAt, Working
<1>3. i.pending = Rec!Write(job[p]) /\ ~scratch /\ Rec!Landed(i.pending) /\ job[p].key \in Key
  BY <1>1, <1>2 DEF WorkingOn
<1>4. i.pending # Rec!NoWrite
  BY <1>3, NoWriteKey, RecConstants DEF Rec!Write
<1>5. "compact" \in {"ready", "compact"}
  OBVIOUS
<1> QED BY <1>1, <1>3, <1>4, <1>5, PutStep

\* Compacting the journal keeps the invariant.
LEMMA CompactsStep ==
  ASSUME RecTypes, NEW i, RecAt(i), NEW p \in Owner, Rec!Compacts(p)
  PROVE  RecInv'
<1>1. /\ turn = p /\ step[p] = "compact" /\ Rec!Returns(p)
      /\ UNCHANGED <<files, scratch, receiptsClock, truth>>
  BY DEF Rec!Compacts, Rec!At
<1>2. WorkingOn(i, p) /\ IsIndex(i)
  BY <1>1 DEF RecAt, Working
<1>3. i.pending = Rec!NoWrite /\ receiptsIndex[p] = i
  BY <1>1, <1>2 DEF WorkingOn
<1>4. CASE UNCHANGED <<journal, receiptsIndex>>
  BY <1>1, <1>4, ReturnsStep
<1>5. CASE \E s \in Rec!Listings(i.shadows), e \in Rec!ByAge(i) :
              Rec!Rewrites(p, Rec!ShadowRecords(s) \o Rec!EntryRecords(i, e))
  <2>1. PICK s \in Rec!Listings(i.shadows), e \in Rec!ByAge(i) :
              Rec!Rewrites(p, Rec!ShadowRecords(s) \o Rec!EntryRecords(i, e))
    BY <1>5
  <2>2. PICK j : /\ Journaled(j)' /\ IsIndex(j) /\ j.entries = i.entries
                 /\ j.shadows = i.shadows /\ j.pending = i.pending
    BY <1>2, <1>3, <2>1, JournalCompacted DEF RecAt
  <2>3. j.entries = i.entries /\ j.shadows = i.shadows /\ j.pending = i.pending
    BY <2>2
  <2>4. /\ journal' = [generation |-> journal'.generation, log |-> journal'.log]
        /\ journal'.generation \in Nat \ {0} /\ journal'.log \in Seq(JournalRecord)
        /\ DOMAIN receiptsIndex' = Owner
    BY <1>2, <1>3, <2>1, JournalCompacted DEF RecAt
  <2>5. /\ turn' = Rec!Nobody /\ job' = [job EXCEPT ![p] = Rec!NoJob]
        /\ step' = [step EXCEPT ![p] = "idle"]
    BY <1>1 DEF Rec!Returns, Rec!Goes
  <2>6. RecTypes'
    <3>1. Rec!NoJob \in RecJob
      BY DEF Rec!NoJob, RecJob, Rec!None
    <3>2. job' \in [Owner -> RecJob]
      BY <2>5, <3>1 DEF RecTypes
    <3> HIDE DEF RecJob
    <3> QED BY <1>1, <2>4, <2>5, <3>2 DEF RecTypes
  <2>7. StoreInv(j)
    BY <1>3, <2>3 DEF RecAt, StoreInv, FilesKnown, PendingSound, TruthKept, Listed, ListedAt
  <2>8. StoreInv(j)'
    BY <1>1, <2>7, StoreKept
  <2>9. Working(j)'
    BY <2>5, RecConstants DEF Working
  <2> QED BY <2>2, <2>6, <2>8, <2>9 DEF RecInv
<1> QED BY <1>3, <1>4, <1>5 DEF Rec!Compacts

\* Beginning a put or a get keeps the invariant.
LEMMA OpensWork ==
  ASSUME RecTypes, NEW i, RecAt(i), NEW p \in Owner, Rec!OpensPut(p) \/ Rec!OpensGet(p)
  PROVE  RecInv'
<1>1. CASE Rec!OpensPut(p)
  <2>1. PICK k \in Key, v \in ReceiptSize :
           Rec!Opens(p, [Rec!NoJob EXCEPT !.op = "put", !.key = k, !.content = v])
    BY <1>1 DEF Rec!OpensPut
  <2> DEFINE work == [Rec!NoJob EXCEPT !.op = "put", !.key = k, !.content = v]
  <2>2. v \in Nat
    BY RecConstants
  <2>3. work \in RecJob /\ work.op = "put" /\ work.key = k
    BY <2>2 DEF Rec!NoJob, RecJob, Rec!None
  <2> HIDE DEF work
  <2>4. Rec!Opens(p, work)
    BY <2>1 DEF work
  <2> QED BY <2>3, <2>4, OpensStep
<1>2. CASE Rec!OpensGet(p)
  <2>1. PICK k \in Key : Rec!Opens(p, [Rec!NoJob EXCEPT !.op = "get", !.key = k])
    BY <1>2 DEF Rec!OpensGet
  <2> DEFINE work == [Rec!NoJob EXCEPT !.op = "get", !.key = k]
  <2>3. work \in RecJob /\ work.op = "get" /\ work.key = k
    BY DEF Rec!NoJob, RecJob, Rec!None
  <2> HIDE DEF work
  <2>4. Rec!Opens(p, work)
    BY <2>1 DEF work
  <2> QED BY <2>3, <2>4, OpensStep
<1> QED BY <1>1, <1>2

\* Every step of every process, failures included, keeps the invariant.
LEMMA RecNext ==
  ASSUME RecInv, [Rec!Next]_Rec!vars
  PROVE  RecInv'
<1>1. RecTypes
  BY DEF RecInv
<1>2. PICK i : RecAt(i)
  BY DEF RecInv, RecAt
<1>3. CASE \E p \in Owner :
              \/ Rec!OpensPut(p) \/ Rec!OpensGet(p) \/ Rec!RemovesScratch(p) \/ Rec!Reconciles(p)
              \/ Rec!Gets(p) \/ Rec!Admits(p) \/ Rec!Evicts(p) \/ Rec!Unlists(p) \/ Rec!NoRoom(p)
              \/ Rec!Prepares(p) \/ Rec!Writes(p) \/ Rec!Renames(p) \/ Rec!Commits(p)
              \/ Rec!Compacts(p) \/ Rec!Fails(p)
  <2>1. PICK p \in Owner :
              \/ Rec!OpensPut(p) \/ Rec!OpensGet(p) \/ Rec!RemovesScratch(p) \/ Rec!Reconciles(p)
              \/ Rec!Gets(p) \/ Rec!Admits(p) \/ Rec!Evicts(p) \/ Rec!Unlists(p) \/ Rec!NoRoom(p)
              \/ Rec!Prepares(p) \/ Rec!Writes(p) \/ Rec!Renames(p) \/ Rec!Commits(p)
              \/ Rec!Compacts(p) \/ Rec!Fails(p)
    BY <1>3
  <2>2. CASE Rec!NoRoom(p)
    <3>1. Rec!Returns(p) /\ UNCHANGED <<journal, files, scratch, receiptsIndex, receiptsClock, truth>>
      BY <2>2 DEF Rec!NoRoom
    <3> QED BY <1>1, <1>2, <3>1, ReturnsStep
  <2>3. CASE Rec!Fails(p)
    <3>1. /\ Rec!Returns(p) /\ UNCHANGED <<journal, files, scratch, receiptsClock, truth>>
          /\ receiptsIndex' \in {receiptsIndex, [receiptsIndex EXCEPT ![p] = Rec!Empty(0)]}
      BY <2>3 DEF Rec!Fails
    <3> QED BY <1>1, <1>2, <3>1, ReturnsStep
  <2> QED BY <1>1, <1>2, <2>1, <2>2, <2>3, OpensWork, RemovesScratchStep, ReconcilesStep, GetsStep,
             AdmitsStep, EvictsStep, UnlistsStep, PreparesStep, WritesStep, RenamesStep, CommitsStep,
             CompactsStep
<1>4. CASE Rec!Tick \/ UNCHANGED Rec!vars
  <2>1. UNCHANGED <<journal, files, scratch, turn, receiptsIndex, step, job, truth>>
    BY <1>4 DEF Rec!Tick, Rec!vars
  <2>2. receiptsClock' \in Nat
    BY <1>1, <1>4 DEF Rec!Tick, Rec!vars, RecTypes
  <2>3. RecTypes'
    BY <1>1, <2>1, <2>2 DEF RecTypes
  <2>4. Journaled(i)' /\ StoreInv(i)'
    BY <1>1, <1>2, <2>1, JournalKept, StoreKept DEF RecAt
  <2>5. Working(i)'
    BY <1>2, <2>1 DEF RecAt, Working, WorkingOn, Listed, ListedAt, Rec!Landed
  <2> QED BY <1>2, <2>3, <2>4, <2>5 DEF RecAt, RecInv
<1> QED BY <1>3, <1>4 DEF Rec!Next


-----------------------------------------------------------------------------
\* Settling the interrupted write gives an index that answers for every key.
LEMMA SettledServes ==
  ASSUME RecInv, NEW p \in Owner, NEW k \in Key
  PROVE  LET i == Rec!Settled(receiptsIndex[p]) IN
         \/ Rec!Lookup(i, k) = truth[k]
         \/ k \in DOMAIN i.entries /\ Rec!Expired(i.entries[k].at, receiptsClock)
<1>1. PICK i : RecAt(i) /\ RecTypes
  BY DEF RecInv, RecAt
<1>2. Rec!Refreshed(receiptsIndex[p]) = i /\ IsIndex(i) /\ StoreInv(i)
  BY <1>1, RefreshedFull DEF RecAt
<1>a. PICK z : z = Rec!Settled(receiptsIndex[p])
  OBVIOUS
<1> SUFFICES \/ Rec!Lookup(z, k) = truth[k]
             \/ k \in DOMAIN z.entries /\ Rec!Expired(z.entries[k].at, receiptsClock)
  BY <1>a
<1> DEFINE w == i.pending
<1>3. truth[k] = IF k \in DOMAIN files THEN files[k]
                 ELSE IF k \in DOMAIN i.entries \/ k \in i.shadows THEN Rec!None
                 ELSE Legacy[k]
  BY <1>2 DEF StoreInv, TruthKept
<1>4. CASE w = Rec!NoWrite
  <2>1. z = i
    BY <1>a, <1>2, <1>4 DEF Rec!Settled
  <2>2. k \in DOMAIN files => k \in DOMAIN i.entries
    BY <1>2, <1>4 DEF StoreInv, FilesKnown, Listed, ListedAt
  <2> QED BY <1>3, <2>1, <2>2 DEF Rec!Lookup
<1>5. CASE w # Rec!NoWrite /\ ~scratch /\ Rec!Landed(w)
  <2>1. w \in PendingWrite
    BY <1>2, <1>5 DEF IsIndex
  <2>2. z = Rec!ApplyRecord(i, Rec!PutRecord(w))
    BY <1>a, <1>2, <1>5 DEF Rec!Settled, Rec!Settlement
  <2>3. /\ z.entries = Rec!With(i.entries, w.key, [bytes |-> w.content, at |-> w.at])
        /\ z.shadows = IF w.shadow THEN i.shadows \cup {w.key} ELSE i.shadows
    <3>1. z = [i EXCEPT !.entries = Rec!With(@, w.key, [bytes |-> w.content, at |-> w.at]),
                        !.shadows = IF w.shadow THEN @ \cup {w.key} ELSE @,
                        !.pending = Rec!NoWrite]
      BY <2>2 DEF Rec!ApplyRecord, Rec!PutRecord
    <3> QED BY <1>2, <3>1 DEF IsIndex
  <2>4. DOMAIN z.entries = DOMAIN i.entries \cup {w.key}
    BY <2>3 DEF Rec!With
  <2>5. w.key \in DOMAIN files
    BY <1>5 DEF Rec!Landed
  <2>6. k \in DOMAIN files /\ k # w.key => k \in DOMAIN i.entries
    BY <1>2 DEF StoreInv, FilesKnown, Listed, ListedAt
  <2>7. k # w.key => (k \in z.shadows <=> k \in i.shadows)
    BY <2>3
  <2> QED BY <1>3, <2>4, <2>5, <2>6, <2>7 DEF Rec!Lookup
<1>6. CASE w # Rec!NoWrite /\ (scratch \/ ~Rec!Landed(w))
  <2>1. z = Rec!ApplyRecord(i, [op |-> "abort"])
    BY <1>a, <1>2, <1>6 DEF Rec!Settled, Rec!Settlement
  <2>2. z.entries = i.entries /\ z.shadows = i.shadows
    <3>1. z = [i EXCEPT !.pending = Rec!NoWrite]
      BY <2>1 DEF Rec!ApplyRecord
    <3> QED BY <1>2, <3>1 DEF IsIndex
  <2>3. k \in DOMAIN files => k \in DOMAIN i.entries
    BY <1>2, <1>6 DEF StoreInv, FilesKnown, Listed, ListedAt
  <2> QED BY <1>3, <2>2, <2>3 DEF Rec!Lookup
<1> QED BY <1>4, <1>5, <1>6

\* What a set of files takes, by the entries that list them.
LEMMA FilesWithin ==
  ASSUME RecTypes, NEW e, IsEntries(e), Within(e), Rec!LegacyComplete,
         \A k \in DOMAIN files : k \in DOMAIN e /\ files[k] = e[k].bytes
  PROVE  /\ Cardinality(Rec!LegacyFiles) + Cardinality(DOMAIN files) <= MaxCount
         /\ Rec!LegacyBytes + SumOf(files) <= MaxTotal
<1> DEFINE b == [k \in DOMAIN e |-> e[k].bytes]
<1>1. /\ IsFiniteSet(DOMAIN e) /\ Cardinality(DOMAIN e) \in Nat
      /\ Summable(b) /\ Rec!ManagedBytes(e) = SumOf(b) /\ SumOf(b) \in Nat
  BY EntriesSummed
<1>2. DOMAIN files \subseteq DOMAIN b /\ \A k \in DOMAIN files : files[k] \in Nat /\ files[k] <= b[k]
  BY DEF RecTypes
<1>3. Summable(files) /\ SumOf(files) <= SumOf(b)
  <2> HIDE DEF b
  <2> QED BY <1>1, <1>2, SumMonotonic
<1>4. SumOf(files) \in Nat
  BY <1>3, SumType
<1>5. Cardinality(DOMAIN files) \in Nat /\ Cardinality(DOMAIN files) <= Cardinality(DOMAIN e)
  <2>1. DOMAIN files \in SUBSET DOMAIN e
    OBVIOUS
  <2> QED BY <1>1, <2>1, FS_Subset, FS_CardinalityType
<1> HIDE DEF b
<1> QED BY <1>1, <1>3, <1>4, <1>5, LegacySummed, RecConstants DEF Within

\* The invariant implies FilesAccounted.
LEMMA InvAccounts ==
  ASSUME RecInv
  PROVE  Rec!FilesAccounted
<1>1. PICK i : RecAt(i) /\ RecTypes
  BY DEF RecInv, RecAt
<1>2. Rec!Refreshed(Rec!Empty(0)) = i /\ IsIndex(i) /\ StoreInv(i)
  BY <1>1, RefreshedFull DEF RecAt
<1>3. \A k \in DOMAIN files : k # i.pending.key => ListedAt(i, k)
  BY <1>2 DEF StoreInv, FilesKnown, Listed
<1>4. /\ DOMAIN files \subseteq DOMAIN i.entries \cup {i.pending.key}
      /\ \A k \in DOMAIN files : k # i.pending.key => files[k] = i.entries[k].bytes
  BY <1>3 DEF ListedAt
<1>5. ASSUME Rec!LegacyComplete
      PROVE  /\ Cardinality(Rec!LegacyFiles) + Cardinality(DOMAIN files) <= MaxCount
             /\ Rec!LegacyBytes + SumOf(files) <= MaxTotal
  <2>1. CASE Listed(i)
    <3>1. IsEntries(i.entries) /\ Within(i.entries)
      BY <1>2 DEF IsIndex, StoreInv
    <3> QED BY <1>1, <1>5, <2>1, <3>1, FilesWithin DEF Listed, ListedAt
  <2>2. CASE i.pending # Rec!NoWrite /\ Rec!Landed(i.pending)
    <3> DEFINE w == i.pending
               e == Rec!With(i.entries, w.key, [bytes |-> w.content, at |-> w.at])
    <3>1. w \in PendingWrite /\ Rec!Fits(i, w)
      BY <1>2, <2>2 DEF IsIndex, StoreInv, PendingSound
    <3>2. Within(e)
      BY <1>2, <3>1, PutWithin
    <3>3. IsEntries(e)
      BY <1>2, <3>1 DEF IsEntries, IsIndex, Rec!With, PendingWrite
    <3>4. /\ DOMAIN e = DOMAIN i.entries \cup {w.key} /\ e[w.key].bytes = w.content
          /\ \A k \in DOMAIN i.entries : k # w.key => e[k] = i.entries[k]
      BY DEF Rec!With
    <3> HIDE DEF e
    <3>5. \A k \in DOMAIN files : k \in DOMAIN e /\ files[k] = e[k].bytes
      BY <1>4, <2>2, <3>4 DEF Rec!Landed
    <3> QED BY <1>1, <1>5, <3>2, <3>3, <3>5, FilesWithin
  <2> QED BY <1>2, <2>1, <2>2 DEF StoreInv, FilesKnown
<1> QED BY <1>2, <1>4, <1>5, RecCount, SameSum DEF Rec!FilesAccounted

\* The receipt store runs as Receipts says.
LEMMA RecSteps ==
  ASSUME component = "receipts" => RecInv, [Next]_vars, component' = "receipts"
  PROVE  RecInv'
<1>1. component = "receipts"
  BY DEF Next, vars
<1>2. [Rec!Next]_(Rec!vars)
  BY <1>1 DEF Next, vars, receiptsVars, Rec!vars
<1> QED BY <1>1, <1>2, RecNext

\* Whatever step of whichever put, get, eviction or compaction is interrupted by
\* an error or the end of its process, every process, with the index that it has
\* cached or none, is served what was last stored under a key, or nothing once that
\* was evicted or has expired (refresh_index, reconcile_pending, compact_if_needed).
THEOREM ServesLastStoredHolds == Spec => []ServesLastStored
<1> DEFINE Inv == component = "receipts" => RecInv
<1>1. Init => Inv
  BY InitRec DEF Init
<1>2. Inv /\ [Next]_vars => Inv'
  BY RecSteps
<1>3. Inv => ServesLastStored
  BY SettledServes DEF ServesLastStored, Rec!ServesLastStored
<1> QED BY <1>1, <1>2, <1>3, PTL DEF Spec

\* Every managed file is in the journal at its size, or is the one being put, and
\* with the legacy files they stay within MAX_RECEIPTS and the byte limit: no
\* interrupted put or eviction leaves a file that evict_for_capacity does not count.
THEOREM FilesAccountedHolds == Spec => []FilesAccounted
<1> DEFINE Inv == component = "receipts" => RecInv
<1>1. Init => Inv
  BY InitRec DEF Init
<1>2. Inv /\ [Next]_vars => Inv'
  BY RecSteps
<1>3. Inv => FilesAccounted
  BY InvAccounts DEF FilesAccounted
<1> QED BY <1>1, <1>2, <1>3, PTL DEF Spec
=============================================================================

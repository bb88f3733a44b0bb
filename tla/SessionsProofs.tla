--------------------------- MODULE SessionsProofs ---------------------------
(***************************************************************************)
(* Proofs about Sessions for any number of users, sessions, requests and   *)
(* job runs and any prices.  First what holds under every interleaving;    *)
(* then, for the behaviours in which no status goes stale between read and *)
(* commit, that the books of every session balance and that the handlers   *)
(* implement Escrow.                                                       *)
(***************************************************************************)
EXTENDS Sessions, SumTheorems

-----------------------------------------------------------------------------
(* The inductive invariant of Spec. *)

\* What a request remembers between its read and its commit.
RequestsOK ==
  \A h \in Handlers :
    /\ request[h].op # "none" => request[h].session \in SessionIds
    /\ request[h].op = "book" =>
         /\ request[h].actor \in Users \ {MentorOf[request[h].session]}
         /\ request[h].cost \in Prices

\* A session that is not yet scheduled has no learner; nobody learns from himself.
ClaimsOK ==
  \A s \in SessionIds :
    /\ status[s] \in {"ABSENT", "PENDING"} => learner[s] = Nobody
    /\ learner[s] # MentorOf[s]

\* A session without a learner has moved no credits.
UnclaimedUntouched ==
  \A s \in SessionIds, u \in Users : learner[s] = Nobody => ledger[s][u] = 0

\* What the job collected is out of reach of a claim, so the learner it noted
\* still is the learner.
DueOK ==
  \A j \in Sweepers : \A d \in due[j] :
    status[d[1]] \notin {"ABSENT", "PENDING"} /\ learner[d[1]] = d[2]

Books == ClaimsOK /\ UnclaimedUntouched /\ OnlyPartiesMove /\ RefundWithinHold

IInv == TypeOK /\ RequestsOK /\ Books /\ DueOK

-----------------------------------------------------------------------------
(* What the pieces of the handlers do. *)

\* The amount held is what the ledger says the learner paid and did not get back.
LEMMA HeldFacts ==
  ASSUME IInv, NEW s \in SessionIds
  PROVE  /\ Held(s, learner[s]) \in Nat
         /\ learner[s] = Nobody => Held(s, learner[s]) = 0
         /\ learner[s] # Nobody =>
              /\ learner[s] \in Users /\ ledger[s][learner[s]] \in Int
              /\ Held(s, learner[s]) = -ledger[s][learner[s]]
<1>1. CASE learner[s] = Nobody
  BY <1>1 DEF Held
<1>2. CASE learner[s] # Nobody
  <2>1. learner[s] \in Users /\ learner[s] # MentorOf[s]
    BY <1>2 DEF IInv, TypeOK, Books, ClaimsOK
  <2>2. ledger[s][learner[s]] \in Int /\ ledger[s][learner[s]] <= 0
    BY <2>1 DEF IInv, TypeOK, Books, RefundWithinHold
  <2> QED BY <1>2, <2>1, <2>2 DEF Held
<1> QED BY <1>1, <1>2

\* transfer changes one balance and one entry of the ledger by the same amount.
LEMMA TransferFacts ==
  ASSUME TypeOK, NEW s \in SessionIds, NEW u \in Users, NEW n \in Int, Transfer(s, u, n)
  PROVE  /\ balance' \in [Users -> Nat]
         /\ balance'[u] = balance[u] + n
         /\ \A v \in Users : v # u => balance'[v] = balance[v]
         /\ ledger' \in [SessionIds -> [Users -> Int]]
         /\ ledger'[s][u] = ledger[s][u] + n
         /\ \A x \in SessionIds, v \in Users :
              x # s \/ v # u => ledger'[x][v] = ledger[x][v]
<1>1. /\ balance \in [Users -> Nat]
      /\ ledger \in [SessionIds -> [Users -> Int]]
      /\ balance[u] + n >= 0
      /\ balance' = [balance EXCEPT ![u] = balance[u] + n]
      /\ ledger' = [ledger EXCEPT ![s] = [ledger[s] EXCEPT ![u] = ledger[s][u] + n]]
  BY DEF Transfer, Affords, TypeOK
<1>2. balance[u] + n \in Nat /\ ledger[s][u] + n \in Int
  BY <1>1
<1>3. [ledger[s] EXCEPT ![u] = ledger[s][u] + n] \in [Users -> Int]
  BY <1>1, <1>2
<1> QED BY <1>1, <1>2, <1>3

\* A claim: an unclaimed session gets its learner, who pays for it.
LEMMA ClaimKeepsBooks ==
  ASSUME IInv, NEW s \in SessionIds, NEW u \in Users, NEW c \in Nat,
         u # MentorOf[s], status[s] \in {"ABSENT", "PENDING"},
         SetStatus(s, "SCHEDULED"), learner' = [learner EXCEPT ![s] = u],
         Transfer(s, u, -c), due' = due
  PROVE  Books' /\ DueOK'
<1> USE SessionConstants
<1>1. /\ status \in [SessionIds -> Statuses]
      /\ learner \in [SessionIds -> Users \cup {Nobody}]
      /\ due \in [Sweepers -> SUBSET (SessionIds \X (Users \cup {Nobody}))]
      /\ ledger \in [SessionIds -> [Users -> Int]]
      /\ learner[s] = Nobody /\ \A v \in Users : ledger[s][v] = 0
  BY DEF IInv, TypeOK, Books, ClaimsOK, UnclaimedUntouched
<1>2. /\ status' = [status EXCEPT ![s] = "SCHEDULED"]
      /\ ledger'[s][u] = -c
      /\ \A x \in SessionIds, v \in Users : x # s \/ v # u => ledger'[x][v] = ledger[x][v]
  <2>1. -c \in Int /\ TypeOK
    BY DEF IInv
  <2>2. ledger'[s][u] = ledger[s][u] + (-c)
    BY <2>1, TransferFacts
  <2>3. \A x \in SessionIds, v \in Users : x # s \/ v # u => ledger'[x][v] = ledger[x][v]
    BY <2>1, TransferFacts
  <2> QED BY <1>1, <2>2, <2>3 DEF SetStatus
<1>3. ClaimsOK' /\ UnclaimedUntouched'
  BY <1>1, <1>2 DEF IInv, Books, ClaimsOK, UnclaimedUntouched
<1>4. OnlyPartiesMove'
  BY <1>1, <1>2 DEF IInv, Books, OnlyPartiesMove
<1>5. RefundWithinHold'
  BY <1>1, <1>2 DEF IInv, Books, RefundWithinHold
<1>6. DueOK'
  BY <1>1, <1>2 DEF IInv, DueOK, Books, ClaimsOK
<1> QED BY <1>3, <1>4, <1>5, <1>6 DEF Books

\* A settlement: the mentor earns what is held, or the learner gets it back, or
\* nothing moves; the session is scheduled, completed or cancelled.
LEMMA SettlementKeepsBooks ==
  ASSUME IInv, NEW s \in SessionIds, NEW st \in {"SCHEDULED", "COMPLETED", "CANCELLED"},
         SetStatus(s, st), learner' = learner,
         \A j \in Sweepers : due'[j] \subseteq due[j],
         \/ Transfer(s, MentorOf[s], Held(s, learner[s]))
         \/ learner[s] # Nobody /\ Transfer(s, learner[s], Held(s, learner[s]))
         \/ UNCHANGED credits
  PROVE  Books' /\ DueOK'
<1> USE SessionConstants
<1>1. /\ status \in [SessionIds -> Statuses]
      /\ due \in [Sweepers -> SUBSET (SessionIds \X (Users \cup {Nobody}))]
      /\ MentorOf[s] \in Users
      /\ status' = [status EXCEPT ![s] = st]
  BY DEF IInv, TypeOK, SetStatus, SessionConstants
<1>2. ClaimsOK' /\ DueOK'
  BY <1>1 DEF IInv, Books, ClaimsOK, DueOK
<1>3. CASE Transfer(s, MentorOf[s], Held(s, learner[s]))
  <2>1. /\ ledger'[s][MentorOf[s]] = ledger[s][MentorOf[s]] + Held(s, learner[s])
        /\ \A x \in SessionIds, v \in Users :
             x # s \/ v # MentorOf[s] => ledger'[x][v] = ledger[x][v]
    BY <1>1, <1>3, TransferFacts, HeldFacts DEF IInv
  <2>2. learner[s] = Nobody => ledger'[s][MentorOf[s]] = 0
    BY <1>1, <2>1, HeldFacts DEF IInv, Books, UnclaimedUntouched
  <2> QED BY <1>1, <1>2, <2>1, <2>2
          DEF IInv, Books, UnclaimedUntouched, OnlyPartiesMove, RefundWithinHold
<1>4. CASE learner[s] # Nobody /\ Transfer(s, learner[s], Held(s, learner[s]))
  <2>1. learner[s] \in Users /\ ledger[s][learner[s]] \in Int
        /\ Held(s, learner[s]) = -ledger[s][learner[s]] /\ Held(s, learner[s]) \in Int
    BY <1>4, HeldFacts
  <2>2. /\ ledger'[s][learner[s]] = 0
        /\ \A x \in SessionIds, v \in Users :
             x # s \/ v # learner[s] => ledger'[x][v] = ledger[x][v]
    BY <1>4, <2>1, TransferFacts DEF IInv
  <2> QED BY <1>2, <1>4, <2>1, <2>2
          DEF IInv, Books, UnclaimedUntouched, OnlyPartiesMove, RefundWithinHold
<1>5. CASE UNCHANGED credits
  BY <1>2, <1>5 DEF credits, IInv, Books, UnclaimedUntouched, OnlyPartiesMove, RefundWithinHold
<1> QED BY <1>3, <1>4, <1>5

\* Steps that move no row and no credits keep the books.
LEMMA IdleKeepsBooks ==
  ASSUME IInv, UNCHANGED <<status, learner, ledger>>,
         \A j \in Sweepers : due'[j] \subseteq due[j] \cup Collected
  PROVE  Books' /\ DueOK'
<1>1. Books'
  BY DEF IInv, Books, ClaimsOK, UnclaimedUntouched, OnlyPartiesMove, RefundWithinHold
<1>2. DueOK'
  BY DEF IInv, DueOK, Collected
<1> QED BY <1>1, <1>2

-----------------------------------------------------------------------------
(* The invariant, action by action. *)

LEMMA InitEstablishes == Init => IInv
<1> USE SessionConstants
<1> SUFFICES ASSUME Init PROVE IInv
  OBVIOUS
<1>1. TypeOK
  <2>1. MaxDeaths \in Nat /\ 0 \in 0..MaxDeaths
    BY DEF SessionConstants
  <2>2. NoRequest \in Requests
    BY DEF NoRequest, Requests, Statuses
  <2>3. balance \in [Users -> Nat] /\ taught \in [Users -> Nat]
    BY DEF Init, SessionConstants
  <2> QED BY <2>1, <2>2, <2>3 DEF Init, TypeOK, Statuses
<1>2. RequestsOK
  BY DEF Init, RequestsOK, NoRequest
<1>3. Books /\ DueOK
  <2>1. \A s \in SessionIds : MentorOf[s] # Nobody
    BY DEF SessionConstants
  <2> QED BY <2>1 DEF Init, Books, DueOK, ClaimsOK, UnclaimedUntouched, OnlyPartiesMove,
                      RefundWithinHold
<1> QED BY <1>1, <1>2, <1>3 DEF IInv

\* Answering a request forgets what it read.
LEMMA ReplyFacts ==
  ASSUME TypeOK, RequestsOK, NEW h \in Handlers, Reply(h)
  PROVE  request' \in [Handlers -> Requests] /\ RequestsOK'
<1>1. NoRequest \in Requests /\ NoRequest.op = "none"
  BY DEF NoRequest, Requests, Statuses
<1>2. request' = [request EXCEPT ![h] = NoRequest] /\ request \in [Handlers -> Requests]
  BY DEF Reply, TypeOK
<1>3. request'[h] = NoRequest /\ \A g \in Handlers : g # h => request'[g] = request[g]
  BY <1>2
<1> QED BY <1>1, <1>2, <1>3 DEF RequestsOK

LEMMA CreateSessionPreserves ==
  ASSUME IInv, NEW s \in SessionIds, CreateSession(s)
  PROVE  IInv'
<1>1. TypeOK'
  BY DEF IInv, TypeOK, CreateSession, SetStatus, Statuses, credits, clock
<1>2. RequestsOK'
  BY DEF IInv, RequestsOK, CreateSession
<1>3. status' = [status EXCEPT ![s] = "PENDING"] /\ status[s] = "ABSENT"
      /\ UNCHANGED <<learner, ledger, due>>
  BY DEF CreateSession, SetStatus, credits
<1>4. Books'
  BY <1>3 DEF IInv, TypeOK, Books, ClaimsOK, UnclaimedUntouched, OnlyPartiesMove, RefundWithinHold
<1>5. DueOK'
  BY <1>3 DEF IInv, TypeOK, DueOK
<1> QED BY <1>1, <1>2, <1>4, <1>5 DEF IInv

LEMMA AcceptRequestPreserves ==
  ASSUME IInv, NEW s \in SessionIds, NEW u \in Users, NEW c \in Prices, AcceptRequest(s, u, c)
  PROVE  IInv'
<1>1. c \in Nat /\ -c \in Int
  <2>1. c \in Nat
    BY SessionConstants DEF SessionConstants
  <2> QED BY <2>1
<1>2. Transfer(s, u, -c)
  BY DEF AcceptRequest
<1>3. balance' \in [Users -> Nat] /\ ledger' \in [SessionIds -> [Users -> Int]]
  BY <1>1, <1>2, TransferFacts DEF IInv
<1>4. TypeOK'
  BY <1>3 DEF IInv, TypeOK, AcceptRequest, SetStatus, Statuses, clock
<1>5. RequestsOK'
  BY DEF IInv, RequestsOK, AcceptRequest
<1>6. Books' /\ DueOK'
  BY <1>1, <1>2, ClaimKeepsBooks DEF AcceptRequest
<1> QED BY <1>4, <1>5, <1>6 DEF IInv

LEMMA BookLoadPreserves ==
  ASSUME IInv, NEW h \in Handlers, NEW s \in SessionIds, NEW u \in Users, BookLoad(h, s, u)
  PROVE  IInv'
<1> DEFINE q == [NoRequest EXCEPT !.op = "book", !.session = s, !.actor = u, !.cost = price[s]]
<1>1. /\ request' = [request EXCEPT ![h] = q]
      /\ u # MentorOf[s]
      /\ UNCHANGED <<rows, credits, clock, inbox, due, deaths>>
  BY DEF BookLoad
<1>2. /\ q.op = "book" /\ q.session = s /\ q.actor = u /\ q.cost = price[s]
      /\ price[s] \in Prices /\ q \in Requests
  BY DEF NoRequest, Requests, Statuses, IInv, TypeOK
<1>3. TypeOK'
  BY <1>1, <1>2 DEF IInv, TypeOK, rows, credits, clock
<1>4. RequestsOK'
  BY <1>1, <1>2 DEF IInv, TypeOK, RequestsOK
<1>5. Books' /\ DueOK'
  BY <1>1, IdleKeepsBooks DEF rows, credits
<1> QED BY <1>3, <1>4, <1>5 DEF IInv

LEMMA BookCommitPreserves ==
  ASSUME IInv, NEW h \in Handlers, BookCommit(h)
  PROVE  IInv'
<1> DEFINE s == request[h].session
           u == request[h].actor
           c == request[h].cost
<1>1. s \in SessionIds /\ u \in Users /\ u # MentorOf[s] /\ c \in Prices
  BY DEF BookCommit, IInv, RequestsOK
<1>2. c \in Nat /\ -c \in Int
  <2>1. c \in Nat
    BY <1>1, SessionConstants DEF SessionConstants
  <2> QED BY <2>1
<1>3. /\ status[s] \in {"ABSENT", "PENDING"}
      /\ SetStatus(s, "SCHEDULED")
      /\ learner' = [learner EXCEPT ![s] = u]
      /\ Transfer(s, u, -c)
      /\ Tell(s, {"booked"})
      /\ Reply(h)
      /\ UNCHANGED <<taught, clock, due, deaths>>
  BY DEF BookCommit, Available
<1>4. balance' \in [Users -> Nat] /\ ledger' \in [SessionIds -> [Users -> Int]]
  BY <1>1, <1>2, <1>3, TransferFacts DEF IInv
<1>5. request' \in [Handlers -> Requests] /\ RequestsOK'
  BY <1>3, ReplyFacts DEF IInv
<1>6. TypeOK'
  BY <1>1, <1>3, <1>4, <1>5 DEF IInv, TypeOK, SetStatus, Tell, Statuses, Kinds, clock
<1>7. Books' /\ DueOK'
  BY <1>1, <1>2, <1>3, ClaimKeepsBooks
<1> QED BY <1>5, <1>6, <1>7 DEF IInv

LEMMA UpdateLoadPreserves ==
  ASSUME IInv, NEW h \in Handlers, NEW s \in SessionIds, NEW a \in Users \cup Admins,
         NEW st \in Statuses, UpdateLoad(h, s, a, st)
  PROVE  IInv'
<1> DEFINE q == [NoRequest EXCEPT !.op = "update", !.session = s, !.actor = a,
                                  !.target = st, !.seen = status[s]]
<1>1. /\ request' = [request EXCEPT ![h] = q]
      /\ UNCHANGED <<rows, credits, clock, inbox, due, deaths>>
  BY DEF UpdateLoad
<1>2. q.op = "update" /\ q.session = s /\ q \in Requests
  BY DEF NoRequest, Requests, Statuses, IInv, TypeOK
<1>3. TypeOK'
  BY <1>1, <1>2 DEF IInv, TypeOK, rows, credits, clock
<1>4. RequestsOK'
  BY <1>1, <1>2 DEF IInv, TypeOK, RequestsOK
<1>5. Books' /\ DueOK'
  BY <1>1, IdleKeepsBooks DEF rows, credits
<1> QED BY <1>3, <1>4, <1>5 DEF IInv

LEMMA ScheduleCommitPreserves ==
  ASSUME IInv, NEW h \in Handlers, ScheduleCommit(h)
  PROVE  IInv'
<1> DEFINE s == request[h].session
<1>1. /\ s \in SessionIds
      /\ SetStatus(s, "SCHEDULED")
      /\ Reply(h)
      /\ UNCHANGED <<learner, taught, credits, clock, inbox, due, deaths>>
  BY DEF ScheduleCommit, Updating, IInv, RequestsOK
<1>2. request' \in [Handlers -> Requests] /\ RequestsOK'
  BY <1>1, ReplyFacts DEF IInv
<1>3. TypeOK'
  BY <1>1, <1>2 DEF IInv, TypeOK, SetStatus, Statuses, credits, clock
<1>4. Books' /\ DueOK'
  BY <1>1, SettlementKeepsBooks
<1> QED BY <1>2, <1>3, <1>4 DEF IInv

\* Paying the mentor keeps the types of balances, ledger and counter.
LEMMA PayMentorFacts ==
  ASSUME IInv, NEW s \in SessionIds, PayMentor(s, learner[s])
  PROVE  /\ Transfer(s, MentorOf[s], Held(s, learner[s]))
         /\ balance' \in [Users -> Nat]
         /\ ledger' \in [SessionIds -> [Users -> Int]]
         /\ taught' \in [Users -> Nat]
<1>1. MentorOf[s] \in Users
  BY SessionConstants DEF SessionConstants
<1>2. Held(s, learner[s]) \in Int
  BY HeldFacts
<1>3. /\ Transfer(s, MentorOf[s], Held(s, learner[s]))
      /\ taught' = [taught EXCEPT ![MentorOf[s]] = @ + 1]
  BY DEF PayMentor
<1>4. balance' \in [Users -> Nat] /\ ledger' \in [SessionIds -> [Users -> Int]]
  BY <1>1, <1>2, <1>3, TransferFacts DEF IInv
<1>5. taught' \in [Users -> Nat]
  BY <1>1, <1>3 DEF IInv, TypeOK
<1> QED BY <1>3, <1>4, <1>5

LEMMA CompleteCommitPreserves ==
  ASSUME IInv, NEW h \in Handlers, CompleteCommit(h)
  PROVE  IInv'
<1> DEFINE s == request[h].session
<1>1. /\ s \in SessionIds
      /\ SetStatus(s, "COMPLETED")
      /\ PayMentor(s, learner[s])
      /\ Tell(s, IF learner[s] = Nobody THEN {} ELSE {"completed"})
      /\ Reply(h)
      /\ UNCHANGED <<learner, clock, due, deaths>>
  BY DEF CompleteCommit, Updating, IInv, RequestsOK
<1>2. request' \in [Handlers -> Requests] /\ RequestsOK'
  BY <1>1, ReplyFacts DEF IInv
<1>3. /\ Transfer(s, MentorOf[s], Held(s, learner[s]))
      /\ balance' \in [Users -> Nat]
      /\ ledger' \in [SessionIds -> [Users -> Int]]
      /\ taught' \in [Users -> Nat]
  BY <1>1, PayMentorFacts
<1>4. TypeOK'
  BY <1>1, <1>2, <1>3 DEF IInv, TypeOK, SetStatus, Statuses, Tell, Kinds, clock
<1>5. Books' /\ DueOK'
  BY <1>1, <1>3, SettlementKeepsBooks
<1> QED BY <1>2, <1>4, <1>5 DEF IInv

LEMMA CancelCommitPreserves ==
  ASSUME IInv, NEW h \in Handlers, CancelCommit(h)
  PROVE  IInv'
<1> DEFINE s == request[h].session
           l == learner[s]
<1>1. /\ s \in SessionIds
      /\ SetStatus(s, "CANCELLED")
      /\ \/ l # Nobody /\ Transfer(s, l, Held(s, l))
         \/ UNCHANGED credits
      /\ Tell(s, IF {MentorOf[s], l} \ {Nobody, request[h].actor} = {} THEN {} ELSE {"cancelled"})
      /\ Reply(h)
      /\ UNCHANGED <<learner, taught, clock, due, deaths>>
  BY DEF CancelCommit, Updating, Refundable, IInv, RequestsOK
<1>2. request' \in [Handlers -> Requests] /\ RequestsOK'
  BY <1>1, ReplyFacts DEF IInv
<1>3. balance' \in [Users -> Nat] /\ ledger' \in [SessionIds -> [Users -> Int]]
  <2>1. CASE l # Nobody /\ Transfer(s, l, Held(s, l))
    <3>1. l \in Users /\ Held(s, l) \in Int
      BY <1>1, <2>1, HeldFacts
    <3> QED BY <1>1, <2>1, <3>1, TransferFacts DEF IInv
  <2>2. CASE UNCHANGED credits
    BY <2>2 DEF credits, IInv, TypeOK
  <2> QED BY <1>1, <2>1, <2>2
<1>4. TypeOK'
  BY <1>1, <1>2, <1>3 DEF IInv, TypeOK, SetStatus, Statuses, Tell, Kinds, clock
<1>5. Books' /\ DueOK'
  BY <1>1, SettlementKeepsBooks
<1> QED BY <1>2, <1>4, <1>5 DEF IInv

LEMMA AbandonPreserves ==
  ASSUME IInv, NEW h \in Handlers, Abandon(h)
  PROVE  IInv'
<1>1. request' \in [Handlers -> Requests] /\ RequestsOK'
  BY ReplyFacts DEF IInv, Abandon
<1>2. TypeOK'
  BY <1>1 DEF IInv, TypeOK, Abandon, rows, credits, clock
<1>3. Books' /\ DueOK'
  BY IdleKeepsBooks DEF Abandon, rows, credits
<1> QED BY <1>1, <1>2, <1>3 DEF IInv

LEMMA SweepStartPreserves ==
  ASSUME IInv, NEW j \in Sweepers, SweepStart(j)
  PROVE  IInv'
<1>1. /\ due' = [due EXCEPT ![j] = Collected]
      /\ UNCHANGED <<rows, credits, clock, inbox, request, deaths>>
  BY DEF SweepStart
<1>2. Collected \in SUBSET (SessionIds \X (Users \cup {Nobody}))
  BY DEF Collected, IInv, TypeOK
<1>3. TypeOK'
  BY <1>1, <1>2 DEF IInv, TypeOK, rows, credits, clock
<1>4. RequestsOK'
  BY <1>1 DEF IInv, RequestsOK
<1>5. Books' /\ DueOK'
  <2>1. \A i \in Sweepers : due'[i] \subseteq due[i] \cup Collected
    BY <1>1 DEF IInv, TypeOK
  <2> QED BY <1>1, <2>1, IdleKeepsBooks DEF rows, credits
<1> QED BY <1>3, <1>4, <1>5 DEF IInv

LEMMA SweepFlipPreserves ==
  ASSUME IInv, NEW j \in Sweepers, NEW s \in SessionIds, NEW l \in Users \cup {Nobody},
         SweepFlip(j, s, l)
  PROVE  IInv'
<1>1. /\ <<s, l>> \in due[j]
      /\ SetStatus(s, "COMPLETED")
      /\ PayMentor(s, l)
      /\ Tell(s, AutoNotice(l))
      /\ due' = [due EXCEPT ![j] = @ \ {<<s, l>>}]
      /\ UNCHANGED <<learner, clock, request, deaths>>
  BY DEF SweepFlip
<1>2. l = learner[s]
  BY <1>1 DEF IInv, DueOK
<1>3. /\ Transfer(s, MentorOf[s], Held(s, learner[s]))
      /\ balance' \in [Users -> Nat]
      /\ ledger' \in [SessionIds -> [Users -> Int]]
      /\ taught' \in [Users -> Nat]
  BY <1>1, <1>2, PayMentorFacts
<1>4. \A i \in Sweepers : due'[i] \subseteq due[i]
  BY <1>1 DEF IInv, TypeOK
<1>5. due' \in [Sweepers -> SUBSET (SessionIds \X (Users \cup {Nobody}))]
  BY <1>1 DEF IInv, TypeOK
<1>6. TypeOK'
  BY <1>1, <1>3, <1>5 DEF IInv, TypeOK, SetStatus, Statuses, Tell, AutoNotice, Kinds, clock
<1>7. RequestsOK'
  BY <1>1 DEF IInv, RequestsOK
<1>8. Books' /\ DueOK'
  BY <1>1, <1>3, <1>4, SettlementKeepsBooks
<1> QED BY <1>6, <1>7, <1>8 DEF IInv

LEMMA SweepSkipPreserves ==
  ASSUME IInv, NEW j \in Sweepers, NEW s \in SessionIds, NEW l \in Users \cup {Nobody},
         SweepSkip(j, s, l)
  PROVE  IInv'
<1>1. /\ Tell(s, AutoNotice(l))
      /\ due' = [due EXCEPT ![j] = @ \ {<<s, l>>}]
      /\ UNCHANGED <<rows, credits, clock, request, deaths>>
  BY DEF SweepSkip
<1>2. TypeOK'
  BY <1>1 DEF IInv, TypeOK, Tell, AutoNotice, Kinds, rows, credits, clock
<1>3. RequestsOK'
  BY <1>1 DEF IInv, RequestsOK
<1>4. Books' /\ DueOK'
  <2>1. \A i \in Sweepers : due'[i] \subseteq due[i]
    BY <1>1 DEF IInv, TypeOK
  <2> QED BY <1>1, <2>1, IdleKeepsBooks DEF rows, credits
<1> QED BY <1>2, <1>3, <1>4 DEF IInv

LEMMA MishapPreserves ==
  ASSUME IInv, NEW j \in Sweepers, Mishap(j)
  PROVE  IInv'
<1>1. /\ deaths < MaxDeaths /\ deaths' = deaths + 1
      /\ UNCHANGED <<rows, credits, clock, inbox, request>>
  BY DEF Mishap, SweepDie, SweepFail
<1>a. PICK left \in SUBSET due[j] : due' = [due EXCEPT ![j] = left]
  <2>1. CASE SweepDie(j)
    BY <2>1 DEF SweepDie
  <2>2. ASSUME NEW s \in SessionIds, NEW l \in Users \cup {Nobody}, SweepFail(j, s, l)
        PROVE  \E left \in SUBSET due[j] : due' = [due EXCEPT ![j] = left]
    BY <2>2 DEF SweepFail
  <2> QED BY <2>1, <2>2 DEF Mishap
<1>2. deaths' \in 0..MaxDeaths
  BY <1>1, SessionConstants DEF IInv, TypeOK, SessionConstants
<1>3. TypeOK'
  BY <1>1, <1>a, <1>2 DEF IInv, TypeOK, rows, credits, clock
<1>4. RequestsOK'
  BY <1>1 DEF IInv, RequestsOK
<1>5. Books' /\ DueOK'
  <2>1. \A i \in Sweepers : due'[i] \subseteq due[i]
    BY <1>a DEF IInv, TypeOK
  <2> QED BY <1>1, <2>1, IdleKeepsBooks DEF rows, credits
<1> QED BY <1>3, <1>4, <1>5 DEF IInv

\* The clock, the skills' prices and the administrators do not touch a session.
LEMMA SurroundingsPreserve ==
  ASSUME IInv,
         \/ \E s \in SessionIds : PassTime(s)
         \/ \E s \in SessionIds, c \in Prices : Reprice(s, c)
         \/ \E u \in Users, n \in Adjustments : AdminAdjust(u, n)
  PROVE  IInv'
<1>1. UNCHANGED <<rows, ledger, inbox, request, due, deaths>>
  BY DEF PassTime, Reprice, AdminAdjust, credits
<1>2. /\ phase' \in [SessionIds -> {"future", "started", "stale"}]
      /\ price' \in [SessionIds -> Prices]
      /\ balance' \in [Users -> Nat]
  <2>1. CASE \E s \in SessionIds : PassTime(s)
    BY <2>1 DEF PassTime, credits, IInv, TypeOK
  <2>2. CASE \E s \in SessionIds, c \in Prices : Reprice(s, c)
    BY <2>2 DEF Reprice, credits, IInv, TypeOK
  <2>3. CASE \E u \in Users, n \in Adjustments : AdminAdjust(u, n)
    <3>1. PICK u \in Users, n \in Adjustments : AdminAdjust(u, n)
      BY <2>3
    <3>2. n \in Int /\ balance \in [Users -> Nat]
      BY SessionConstants DEF SessionConstants, IInv, TypeOK
    <3>3. balance[u] + n >= 0 /\ balance' = [balance EXCEPT ![u] = @ + n]
      BY <3>1 DEF AdminAdjust, Affords
    <3>4. balance' \in [Users -> Nat]
      BY <3>2, <3>3
    <3> QED BY <3>1, <3>4 DEF AdminAdjust, clock, IInv, TypeOK
  <2> QED BY <2>1, <2>2, <2>3
<1>3. TypeOK'
  BY <1>1, <1>2 DEF IInv, TypeOK, rows
<1>4. RequestsOK'
  BY <1>1 DEF IInv, RequestsOK
<1>5. Books' /\ DueOK'
  BY <1>1, IdleKeepsBooks DEF rows
<1> QED BY <1>3, <1>4, <1>5 DEF IInv

\* Every step keeps the invariant.
LEMMA NextPreserves == IInv /\ [Next]_vars => IInv'
<1> SUFFICES ASSUME IInv, [Next]_vars PROVE IInv'
  OBVIOUS
<1>1. CASE UNCHANGED vars
  <2>1. TypeOK' /\ RequestsOK'
    BY <1>1 DEF vars, rows, credits, clock, IInv, TypeOK, RequestsOK
  <2>2. Books' /\ DueOK'
    BY <1>1, IdleKeepsBooks DEF vars, rows, credits
  <2> QED BY <2>1, <2>2 DEF IInv
<1>2. ASSUME NEW s \in SessionIds,
             CreateSession(s) \/ \E u \in Users, c \in Prices : AcceptRequest(s, u, c)
      PROVE  IInv'
  BY <1>2, CreateSessionPreserves, AcceptRequestPreserves
<1>3. ASSUME NEW h \in Handlers, Handle(h) \/ Update(h)
      PROVE  IInv'
  <2>1. ASSUME \E s \in SessionIds, u \in Users : BookLoad(h, s, u)
        PROVE  IInv'
    BY <2>1, BookLoadPreserves
  <2>2. ASSUME \E s \in SessionIds, a \in Users \cup Admins, st \in Statuses :
                 UpdateLoad(h, s, a, st)
        PROVE  IInv'
    BY <2>2, UpdateLoadPreserves
  <2>3. ASSUME BookCommit(h) \/ ScheduleCommit(h) \/ CompleteCommit(h) \/ CancelCommit(h)
               \/ Abandon(h)
        PROVE  IInv'
    BY <2>3, BookCommitPreserves, ScheduleCommitPreserves, CompleteCommitPreserves,
       CancelCommitPreserves, AbandonPreserves
  <2> QED BY <1>3, <2>1, <2>2, <2>3 DEF Handle, Update
<1>4. ASSUME NEW j \in Sweepers, Sweep(j) \/ Mishap(j)
      PROVE  IInv'
  <2>1. ASSUME NEW s \in SessionIds, NEW l \in Users \cup {Nobody},
               SweepFlip(j, s, l) \/ SweepSkip(j, s, l)
        PROVE  IInv'
    BY <2>1, SweepFlipPreserves, SweepSkipPreserves
  <2> QED BY <1>4, <2>1, SweepStartPreserves, MishapPreserves DEF Sweep
<1> QED BY <1>1, <1>2, <1>3, <1>4, SurroundingsPreserve DEF Next, Around, AtRest

\* The invariant holds throughout.
THEOREM Invariance == Spec => []IInv
BY InitEstablishes, NextPreserves, PTL DEF Spec

\* Every variable keeps its type; no balance is ever negative.
THEOREM TypeCorrect == Spec => []TypeOK
<1>1. IInv => TypeOK
  BY DEF IInv
<1> QED BY <1>1, Invariance, PTL

\* Two bookings that share a balance never overdraw it.
THEOREM NoOverdraft == Spec => []NeverOverdrawn
<1>1. IInv => NeverOverdrawn
  BY DEF IInv, TypeOK, NeverOverdrawn
<1> QED BY <1>1, Invariance, PTL

\* Credits of a session only ever move for its learner and its mentor.
THEOREM PartiesOnly == Spec => []OnlyPartiesMove
<1>1. IInv => OnlyPartiesMove
  BY DEF IInv, Books
<1> QED BY <1>1, Invariance, PTL

\* No learner ever gets back more than the session cost.
THEOREM RefundBounded == Spec => []RefundWithinHold
<1>1. IInv => RefundWithinHold
  BY DEF IInv, Books
<1> QED BY <1>1, Invariance, PTL

-----------------------------------------------------------------------------
(* What a step can do to a session: five kinds of change, and no other. *)

Idles == UNCHANGED <<status, learner, taught, credits>>

Adjusts(u, n) ==
  /\ balance[u] + n >= 0
  /\ n > 0 => balance[u] + n <= MaxCredits
  /\ balance' = [balance EXCEPT ![u] = @ + n]
  /\ UNCHANGED <<status, learner, taught, ledger>>

Opens(s) ==
  /\ status[s] = "ABSENT"
  /\ SetStatus(s, "PENDING")
  /\ UNCHANGED <<learner, taught, credits>>

Claims(s, u, c) ==
  /\ u # MentorOf[s]
  /\ status[s] \in {"ABSENT", "PENDING"}
  /\ SetStatus(s, "SCHEDULED")
  /\ learner' = [learner EXCEPT ![s] = u]
  /\ Transfer(s, u, -c)
  /\ UNCHANGED taught

Schedules(s) ==
  /\ SetStatus(s, "SCHEDULED")
  /\ UNCHANGED <<learner, taught, credits>>

Completes(s) ==
  /\ SetStatus(s, "COMPLETED")
  /\ Transfer(s, MentorOf[s], Held(s, learner[s]))
  /\ taught' = [taught EXCEPT ![MentorOf[s]] = @ + 1]
  /\ UNCHANGED learner

Cancels(s) ==
  /\ SetStatus(s, "CANCELLED")
  /\ \/ learner[s] # Nobody /\ Transfer(s, learner[s], Held(s, learner[s]))
     \/ (phase[s] = "future" => learner[s] = Nobody) /\ UNCHANGED credits
  /\ UNCHANGED <<learner, taught>>

\* From which status a guarded update or the job leaves.
From(guarded, s, froms) == guarded => status[s] \in froms

Changes(guarded) ==
  \/ Idles
  \/ \E u \in Users, n \in Adjustments : Adjusts(u, n)
  \/ \E s \in SessionIds :
       \/ Opens(s)
       \/ \E u \in Users, c \in Prices : Claims(s, u, c)
       \/ From(guarded, s, {"PENDING"}) /\ Schedules(s)
       \/ From(guarded, s, {"SCHEDULED"}) /\ Completes(s)
       \/ From(guarded, s, {"PENDING", "SCHEDULED"}) /\ Cancels(s)

\* An update in flight asks for a transition valid from the status it read.
SnapshotOK ==
  \A h \in Handlers : request[h].op = "update" =>
    request[h].seen \in Statuses /\ request[h].target \in ValidTransitions[request[h].seen]

Steps(guarded) == [IF guarded THEN GuardedNext ELSE Next]_vars

LEMMA EveryStepChanges ==
  ASSUME IInv, SnapshotOK, NEW guarded \in BOOLEAN, Steps(guarded)
  PROVE  Changes(guarded)
<1>1. CASE UNCHANGED vars
  BY <1>1 DEF vars, rows, Changes, Idles
<1>2. ASSUME NEW s \in SessionIds, CreateSession(s)
      PROVE  Changes(guarded)
  BY <1>2 DEF CreateSession, Changes, Opens
<1>3. ASSUME NEW s \in SessionIds, NEW u \in Users, NEW c \in Prices, AcceptRequest(s, u, c)
      PROVE  Changes(guarded)
  <2>1. Claims(s, u, c)
    BY <1>3 DEF AcceptRequest, Claims
  <2> QED BY <2>1 DEF Changes
<1>4. ASSUME NEW h \in Handlers, NEW s \in SessionIds, NEW u \in Users, BookLoad(h, s, u)
      PROVE  Changes(guarded)
  BY <1>4 DEF BookLoad, rows, Changes, Idles
<1>5. ASSUME NEW h \in Handlers, NEW s \in SessionIds, NEW a \in Users \cup Admins,
             NEW st \in Statuses, UpdateLoad(h, s, a, st)
      PROVE  Changes(guarded)
  BY <1>5 DEF UpdateLoad, rows, Changes, Idles
<1>6. ASSUME NEW h \in Handlers, BookCommit(h)
      PROVE  Changes(guarded)
  <2> DEFINE s == request[h].session
             u == request[h].actor
             c == request[h].cost
  <2>1. s \in SessionIds /\ u \in Users /\ u # MentorOf[s] /\ c \in Prices
    BY <1>6 DEF BookCommit, IInv, RequestsOK
  <2>2. Claims(s, u, c)
    BY <1>6, <2>1 DEF BookCommit, Available, Claims
  <2> QED BY <2>1, <2>2 DEF Changes
<1>7. ASSUME NEW h \in Handlers, NEW st \in Statuses, Updating(h, st), Unchanged(h)
      PROVE  st \in ValidTransitions[status[request[h].session]]
  BY <1>7 DEF Updating, Unchanged, SnapshotOK
<1>8. \A h \in Handlers : \A st \in Statuses : Updating(h, st) =>
        /\ request[h].session \in SessionIds
        /\ status[request[h].session] \in Statuses
  BY DEF Updating, IInv, RequestsOK, TypeOK
<1>9. /\ \A x \in Statuses : "SCHEDULED" \in ValidTransitions[x] => x = "PENDING"
      /\ \A x \in Statuses : "COMPLETED" \in ValidTransitions[x] => x = "SCHEDULED"
      /\ \A x \in Statuses : "CANCELLED" \in ValidTransitions[x] => x \in {"PENDING", "SCHEDULED"}
      /\ {"SCHEDULED", "COMPLETED", "CANCELLED"} \subseteq Statuses
  BY DEF Statuses, ValidTransitions
<1>10. ASSUME NEW h \in Handlers, ScheduleCommit(h), guarded => Unchanged(h)
       PROVE  Changes(guarded)
  <2> DEFINE s == request[h].session
  <2>1. Updating(h, "SCHEDULED") /\ s \in SessionIds /\ status[s] \in Statuses
    BY <1>8, <1>9, <1>10 DEF ScheduleCommit
  <2>2. From(guarded, s, {"PENDING"})
    BY <1>7, <1>9, <1>10, <2>1 DEF From
  <2>3. Schedules(s)
    BY <1>10 DEF ScheduleCommit, Schedules
  <2> QED BY <2>1, <2>2, <2>3 DEF Changes
<1>11. ASSUME NEW h \in Handlers, CompleteCommit(h), guarded => Unchanged(h)
       PROVE  Changes(guarded)
  <2> DEFINE s == request[h].session
  <2>1. Updating(h, "COMPLETED") /\ s \in SessionIds /\ status[s] \in Statuses
    BY <1>8, <1>9, <1>11 DEF CompleteCommit
  <2>2. From(guarded, s, {"SCHEDULED"})
    BY <1>7, <1>9, <1>11, <2>1 DEF From
  <2>3. Completes(s)
    BY <1>11 DEF CompleteCommit, Completes, PayMentor
  <2> QED BY <2>1, <2>2, <2>3 DEF Changes
<1>12. ASSUME NEW h \in Handlers, CancelCommit(h), guarded => Unchanged(h)
       PROVE  Changes(guarded)
  <2> DEFINE s == request[h].session
  <2>1. Updating(h, "CANCELLED") /\ s \in SessionIds /\ status[s] \in Statuses
    BY <1>8, <1>9, <1>12 DEF CancelCommit
  <2>2. From(guarded, s, {"PENDING", "SCHEDULED"})
    BY <1>7, <1>9, <1>12, <2>1 DEF From
  <2>3. Cancels(s)
    BY <1>12 DEF CancelCommit, Cancels, Refundable, Refunds
  <2> QED BY <2>1, <2>2, <2>3 DEF Changes
<1>13. ASSUME NEW h \in Handlers, Abandon(h)
       PROVE  Changes(guarded)
  BY <1>13 DEF Abandon, rows, Changes, Idles
<1>14. ASSUME NEW j \in Sweepers, NEW s \in SessionIds, NEW l \in Users \cup {Nobody},
              SweepFlip(j, s, l)
       PROVE  Changes(guarded)
  <2>1. l = learner[s]
    BY <1>14 DEF SweepFlip, IInv, DueOK
  <2>2. From(guarded, s, {"SCHEDULED"}) /\ Completes(s)
    BY <1>14, <2>1 DEF SweepFlip, StillScheduled, From, Completes, PayMentor
  <2> QED BY <2>2 DEF Changes
<1>15. ASSUME NEW j \in Sweepers,
              \/ SweepStart(j) \/ Mishap(j)
              \/ \E s \in SessionIds, l \in Users \cup {Nobody} : SweepSkip(j, s, l)
       PROVE  Changes(guarded)
  BY <1>15 DEF SweepStart, Mishap, SweepDie, SweepFail, SweepSkip, rows, Changes, Idles
<1>16. ASSUME NEW s \in SessionIds, PassTime(s) \/ \E c \in Prices : Reprice(s, c)
       PROVE  Changes(guarded)
  BY <1>16 DEF PassTime, Reprice, rows, Changes, Idles
<1>17. ASSUME NEW u \in Users, NEW n \in Adjustments, AdminAdjust(u, n)
       PROVE  Changes(guarded)
  <2>1. Adjusts(u, n)
    BY <1>17 DEF AdminAdjust, Adjusts, Affords, rows
  <2> QED BY <2>1 DEF Changes
<1>18. CASE Around
  BY <1>2, <1>3, <1>4, <1>5, <1>6, <1>13, <1>14, <1>15, <1>16, <1>17, <1>18, <1>1
     DEF Around, Handle, Sweep, AtRest
<1>19. CASE \E h \in Handlers : Update(h) /\ (guarded => Unchanged(h))
  BY <1>10, <1>11, <1>12, <1>19 DEF Update
<1> QED
  BY <1>1, <1>18, <1>19 DEF Steps, GuardedNext, Next

LEMMA StepChanges ==
  ASSUME IInv, SnapshotOK, [Next]_vars
  PROVE  Changes(FALSE)
BY EveryStepChanges DEF Steps

LEMMA GuardedStepChanges ==
  ASSUME IInv, SnapshotOK, [GuardedNext]_vars
  PROVE  Changes(TRUE)
BY EveryStepChanges DEF Steps

\* Snapshots are taken of valid transitions, and kept.
LEMMA SnapshotInvariant == Spec => []SnapshotOK
<1>1. Init => SnapshotOK
  BY DEF Init, SnapshotOK, NoRequest
<1>2. IInv /\ SnapshotOK /\ [Next]_vars => SnapshotOK'
  <2> SUFFICES ASSUME IInv, SnapshotOK, [Next]_vars PROVE SnapshotOK'
    OBVIOUS
  <2>1. CASE UNCHANGED request
    BY <2>1 DEF SnapshotOK
  <2>2. ASSUME NEW h \in Handlers, NEW q, request' = [request EXCEPT ![h] = q],
               q.op = "update" => q.seen \in Statuses /\ q.target \in ValidTransitions[q.seen]
        PROVE  SnapshotOK'
    <3>1. request'[h] = q /\ \A g \in Handlers : g # h => request'[g] = request[g]
      BY <2>2 DEF IInv, TypeOK
    <3> QED BY <2>2, <3>1 DEF SnapshotOK
  <2>3. ASSUME NEW h \in Handlers, Reply(h)
        PROVE  SnapshotOK'
    <3>1. request' = [request EXCEPT ![h] = NoRequest] /\ NoRequest.op # "update"
      BY <2>3 DEF Reply, NoRequest
    <3> QED BY <2>2, <3>1
  <2>4. ASSUME NEW h \in Handlers, NEW s \in SessionIds, NEW u \in Users, BookLoad(h, s, u)
        PROVE  SnapshotOK'
    <3> DEFINE q == [NoRequest EXCEPT !.op = "book", !.session = s, !.actor = u,
                                      !.cost = price[s]]
    <3>1. request' = [request EXCEPT ![h] = q] /\ q.op # "update"
      BY <2>4 DEF BookLoad, NoRequest
    <3> QED BY <2>2, <3>1
  <2>5. ASSUME NEW h \in Handlers, NEW s \in SessionIds, NEW a \in Users \cup Admins,
               NEW st \in Statuses, UpdateLoad(h, s, a, st)
        PROVE  SnapshotOK'
    <3> DEFINE q == [NoRequest EXCEPT !.op = "update", !.session = s, !.actor = a,
                                      !.target = st, !.seen = status[s]]
    <3>1. request' = [request EXCEPT ![h] = q] /\ q.seen = status[s] /\ q.target = st
      BY <2>5 DEF UpdateLoad, NoRequest
    <3>2. status[s] \in Statuses /\ st \in ValidTransitions[status[s]]
      BY <2>5 DEF UpdateLoad, IInv, TypeOK
    <3> QED BY <2>2, <3>1, <3>2
  <2>6. ASSUME NEW h \in Handlers, Handle(h) \/ Update(h)
        PROVE  SnapshotOK'
    BY <2>3, <2>4, <2>5, <2>6
       DEF Handle, Update, BookCommit, ScheduleCommit, CompleteCommit, CancelCommit, Abandon
  <2>7. ASSUME NEW j \in Sweepers, Sweep(j) \/ Mishap(j)
        PROVE  UNCHANGED request
    BY <2>7 DEF Sweep, SweepStart, SweepFlip, SweepSkip, Mishap, SweepDie, SweepFail
  <2> QED BY <2>1, <2>6, <2>7
          DEF Next, Around, vars, AtRest, CreateSession, AcceptRequest, PassTime, Reprice, AdminAdjust
<1> QED BY <1>1, <1>2, Invariance, PTL DEF Spec

-----------------------------------------------------------------------------
(* What a step may never do. *)

\* The facts about a transfer that the changes below make.
LEMMA ChangeFacts ==
  ASSUME IInv, NEW s \in SessionIds
  PROVE  /\ Completes(s) =>
              /\ ledger'[s][MentorOf[s]] = ledger[s][MentorOf[s]] + Held(s, learner[s])
              /\ balance'[MentorOf[s]] = balance[MentorOf[s]] + Held(s, learner[s])
              /\ \A v \in Users : v # MentorOf[s] => balance'[v] = balance[v]
              /\ \A x \in SessionIds, v \in Users :
                   x # s \/ v # MentorOf[s] => ledger'[x][v] = ledger[x][v]
         /\ learner[s] # Nobody /\ Transfer(s, learner[s], Held(s, learner[s])) =>
              /\ ledger'[s][learner[s]] = 0
              /\ balance'[learner[s]] = balance[learner[s]] + Held(s, learner[s])
              /\ \A v \in Users : v # learner[s] => balance'[v] = balance[v]
              /\ \A x \in SessionIds, v \in Users :
                   x # s \/ v # learner[s] => ledger'[x][v] = ledger[x][v]
         /\ \A u \in Users, c \in Prices : Claims(s, u, c) =>
              /\ learner[s] = Nobody
              /\ ledger'[s][u] = -c
              /\ balance'[u] = balance[u] - c /\ balance[u] >= c
              /\ \A v \in Users : v # u => balance'[v] = balance[v]
              /\ \A x \in SessionIds, v \in Users :
                   x # s \/ v # u => ledger'[x][v] = ledger[x][v]
<1>1. MentorOf[s] \in Users /\ TypeOK
  BY SessionConstants DEF SessionConstants, IInv
<1>2. ASSUME Completes(s)
      PROVE  /\ ledger'[s][MentorOf[s]] = ledger[s][MentorOf[s]] + Held(s, learner[s])
             /\ balance'[MentorOf[s]] = balance[MentorOf[s]] + Held(s, learner[s])
             /\ \A v \in Users : v # MentorOf[s] => balance'[v] = balance[v]
             /\ \A x \in SessionIds, v \in Users :
                  x # s \/ v # MentorOf[s] => ledger'[x][v] = ledger[x][v]
  <2>1. Transfer(s, MentorOf[s], Held(s, learner[s])) /\ Held(s, learner[s]) \in Int
    BY <1>2, HeldFacts DEF Completes
  <2> QED BY <1>1, <2>1, TransferFacts
<1>3. ASSUME learner[s] # Nobody, Transfer(s, learner[s], Held(s, learner[s]))
      PROVE  /\ ledger'[s][learner[s]] = 0
             /\ balance'[learner[s]] = balance[learner[s]] + Held(s, learner[s])
             /\ \A v \in Users : v # learner[s] => balance'[v] = balance[v]
             /\ \A x \in SessionIds, v \in Users :
                  x # s \/ v # learner[s] => ledger'[x][v] = ledger[x][v]
  <2>1. /\ learner[s] \in Users /\ ledger[s][learner[s]] \in Int
        /\ Held(s, learner[s]) = -ledger[s][learner[s]] /\ Held(s, learner[s]) \in Int
    BY <1>3, HeldFacts
  <2>2. ledger'[s][learner[s]] = ledger[s][learner[s]] + Held(s, learner[s])
    BY <1>1, <1>3, <2>1, TransferFacts
  <2>3. ledger'[s][learner[s]] = 0
    BY <2>1, <2>2
  <2> QED BY <1>1, <1>3, <2>1, <2>3, TransferFacts
<1>4. ASSUME NEW u \in Users, NEW c \in Prices, Claims(s, u, c)
      PROVE  /\ learner[s] = Nobody
             /\ ledger'[s][u] = -c
             /\ balance'[u] = balance[u] - c /\ balance[u] >= c
             /\ \A v \in Users : v # u => balance'[v] = balance[v]
             /\ \A x \in SessionIds, v \in Users :
                  x # s \/ v # u => ledger'[x][v] = ledger[x][v]
  <2>1. c \in Nat
    BY SessionConstants DEF SessionConstants
  <2>2. -c \in Int
    BY <2>1
  <2>3. learner[s] = Nobody /\ ledger[s][u] = 0
    BY <1>4 DEF Claims, IInv, Books, ClaimsOK, UnclaimedUntouched
  <2>4. Transfer(s, u, -c)
    BY <1>4 DEF Claims
  <2>5. /\ balance'[u] = balance[u] + (-c)
        /\ ledger'[s][u] = ledger[s][u] + (-c)
        /\ \A v \in Users : v # u => balance'[v] = balance[v]
        /\ \A x \in SessionIds, v \in Users : x # s \/ v # u => ledger'[x][v] = ledger[x][v]
    BY <1>1, <2>2, <2>4, TransferFacts
  <2>6. balance[u] + (-c) >= 0 /\ balance[u] \in Int
    BY <2>4 DEF Transfer, Affords, IInv, TypeOK
  <2>7. balance'[u] = balance[u] - c /\ balance[u] >= c /\ ledger'[s][u] = -c
    BY <2>1, <2>3, <2>5, <2>6
  <2> QED BY <2>3, <2>5, <2>7
<1> QED BY <1>2, <1>3, <1>4

\* A claimed slot stays with its learner, however many compete for it.
THEOREM OneWinner == Spec => SlotClaimedOnce
<1>1. IInv /\ SnapshotOK /\ [Next]_vars =>
        [\A s \in SessionIds : learner[s] # Nobody => learner'[s] = learner[s]]_vars
  <2> SUFFICES ASSUME IInv, SnapshotOK, [Next]_vars, NEW s \in SessionIds, learner[s] # Nobody
               PROVE  learner'[s] = learner[s]
    OBVIOUS
  <2>1. CASE UNCHANGED learner
    BY <2>1
  <2>2. CASE \E x \in SessionIds, u \in Users, c \in Prices : Claims(x, u, c)
    <3>1. PICK x \in SessionIds, u \in Users, c \in Prices : Claims(x, u, c)
      BY <2>2
    <3>2. learner[x] = Nobody /\ learner' = [learner EXCEPT ![x] = u]
      BY <3>1, ChangeFacts DEF Claims
    <3> QED BY <3>2 DEF IInv, TypeOK
  <2> QED BY <2>1, <2>2, StepChanges
          DEF Changes, Idles, Adjusts, Opens, Schedules, Completes, Cancels
<1> QED BY <1>1, Invariance, SnapshotInvariant, PTL DEF Spec, SlotClaimedOnce

\* A payout is exactly the learner's charge, and completes the session.
THEOREM PayoutExact == Spec => PayoutIsTheHold
<1>1. IInv /\ SnapshotOK /\ [Next]_vars =>
        [\A s \in SessionIds :
           ledger'[s][MentorOf[s]] # ledger[s][MentorOf[s]] =>
             /\ status'[s] = "COMPLETED"
             /\ ledger'[s][MentorOf[s]] - ledger[s][MentorOf[s]] = -ledger[s][learner[s]]]_vars
  <2> SUFFICES ASSUME IInv, SnapshotOK, [Next]_vars, NEW s \in SessionIds,
                      ledger'[s][MentorOf[s]] # ledger[s][MentorOf[s]]
               PROVE  /\ status'[s] = "COMPLETED"
                      /\ ledger'[s][MentorOf[s]] - ledger[s][MentorOf[s]] = -ledger[s][learner[s]]
    OBVIOUS
  <2>0. MentorOf[s] \in Users /\ ledger[s][MentorOf[s]] \in Int
    BY SessionConstants DEF SessionConstants, IInv, TypeOK
  <2>1. CASE UNCHANGED ledger
    BY <2>1
  <2>2. ASSUME NEW x \in SessionIds, NEW u \in Users, NEW c \in Prices, Claims(x, u, c)
        PROVE  FALSE
    <3>1. u # MentorOf[x]
      BY <2>2 DEF Claims
    <3> QED BY <2>0, <2>2, <3>1, ChangeFacts
  <2>3. ASSUME NEW x \in SessionIds, learner[x] # Nobody,
               Transfer(x, learner[x], Held(x, learner[x]))
        PROVE  FALSE
    <3>1. learner[x] # MentorOf[x]
      BY DEF IInv, Books, ClaimsOK
    <3> QED BY <2>0, <2>3, <3>1, ChangeFacts
  <2>4. ASSUME NEW x \in SessionIds, Completes(x)
        PROVE  /\ status'[s] = "COMPLETED"
               /\ ledger'[s][MentorOf[s]] - ledger[s][MentorOf[s]] = -ledger[s][learner[s]]
    <3>1. x = s
      BY <2>0, <2>4, ChangeFacts
    <3>2. ledger'[s][MentorOf[s]] = ledger[s][MentorOf[s]] + Held(s, learner[s])
          /\ Held(s, learner[s]) \in Nat
      BY <2>4, <3>1, ChangeFacts, HeldFacts
    <3>3. learner[s] # Nobody
      BY <2>0, <3>2, HeldFacts
    <3>4. Held(s, learner[s]) = -ledger[s][learner[s]]
      BY <3>3, HeldFacts
    <3>5. status'[s] = "COMPLETED"
      BY <2>4, <3>1 DEF Completes, SetStatus, IInv, TypeOK
    <3> QED BY <2>0, <3>2, <3>4, <3>5
  <2> QED BY <2>1, <2>2, <2>3, <2>4, StepChanges
          DEF Changes, Idles, Adjusts, Opens, Schedules, Cancels, credits
<1> QED BY <1>1, Invariance, SnapshotInvariant, PTL DEF Spec, PayoutIsTheHold

\* Whoever cancels before the start, the learner ends up with nothing to pay.
THEOREM FreeCancellation == Spec => CancelBeforeStartIsFree
<1>1. IInv /\ SnapshotOK /\ [Next]_vars =>
        [\A s \in SessionIds :
           /\ status[s] # "CANCELLED" /\ status'[s] = "CANCELLED"
           /\ phase[s] = "future" /\ learner[s] # Nobody
           => ledger'[s][learner[s]] = 0]_vars
  <2> SUFFICES ASSUME IInv, SnapshotOK, [Next]_vars, NEW s \in SessionIds,
                      status[s] # "CANCELLED", status'[s] = "CANCELLED",
                      phase[s] = "future", learner[s] # Nobody
               PROVE  ledger'[s][learner[s]] = 0
    OBVIOUS
  <2>1. ASSUME NEW x \in SessionIds, NEW st, SetStatus(x, st)
        PROVE  st = "CANCELLED" /\ x = s
    BY <2>1 DEF SetStatus, IInv, TypeOK
  <2>2. CASE \E x \in SessionIds : Cancels(x)
    <3>1. Cancels(s)
      BY <2>1, <2>2 DEF Cancels
    <3> QED BY <3>1, ChangeFacts DEF Cancels
  <2>3. CASE UNCHANGED status
    BY <2>3
  <2>4. ASSUME NEW x \in SessionIds,
               SetStatus(x, "PENDING") \/ SetStatus(x, "SCHEDULED") \/ SetStatus(x, "COMPLETED")
        PROVE  FALSE
    BY <2>1, <2>4
  <2> QED BY <2>2, <2>3, <2>4, StepChanges
          DEF Changes, Idles, Adjusts, Opens, Claims, Schedules, Completes
<1> QED BY <1>1, Invariance, SnapshotInvariant, PTL DEF Spec, CancelBeforeStartIsFree
-----------------------------------------------------------------------------
(* When no update commits over a status that has changed. *)

LEMMA GuardedIsNext == [GuardedNext]_vars => [Next]_vars
BY DEF GuardedNext, Next

LEMMA GuardedInvariance == GuardedSpec => Spec /\ [](IInv /\ SnapshotOK)
BY GuardedIsNext, Invariance, SnapshotInvariant, PTL DEF GuardedSpec, Spec

\* The books of one session.
Exact(s) ==
  LET l == learner[s]
      earned == ledger[s][MentorOf[s]]
  IN  IF l = Nobody THEN earned = 0
      ELSE /\ status[s] \in {"SCHEDULED", "COMPLETED", "CANCELLED"}
           /\ status[s] = "SCHEDULED" => earned = 0 /\ ledger[s][l] < 0
           /\ status[s] = "COMPLETED" => earned = -ledger[s][l] /\ earned > 0
           /\ status[s] = "CANCELLED" => earned = 0

\* Each change of a session keeps its books, and every other's.
LEMMA ChangeKeepsExact ==
  ASSUME IInv, SettlementExact, NEW x \in SessionIds, NEW s \in SessionIds,
         \/ Opens(x)
         \/ \E u \in Users, c \in Prices : Claims(x, u, c)
         \/ From(TRUE, x, {"PENDING"}) /\ Schedules(x)
         \/ From(TRUE, x, {"SCHEDULED"}) /\ Completes(x)
         \/ From(TRUE, x, {"PENDING", "SCHEDULED"}) /\ Cancels(x)
  PROVE  Exact(s)'
<1>1. /\ MentorOf[s] \in Users /\ learner[s] \in Users \cup {Nobody} /\ learner[s] # MentorOf[s]
      /\ Nobody \notin Users
      /\ learner \in [SessionIds -> Users \cup {Nobody}] /\ status \in [SessionIds -> Statuses]
      /\ status[s] \in {"ABSENT", "PENDING"} => learner[s] = Nobody
      /\ learner[s] # Nobody => ledger[s][learner[s]] \in Int
      /\ \A v \in Users : ledger[s][v] \in Int
      /\ learner[s] = Nobody => \A v \in Users : ledger[s][v] = 0
      /\ Exact(s)
  BY SessionConstants DEF SessionConstants, IInv, TypeOK, Books, ClaimsOK, UnclaimedUntouched,
                          SettlementExact, Exact
<1>2. ASSUME status'[s] = status[s], learner'[s] = learner[s],
             \A v \in Users : ledger'[s][v] = ledger[s][v]
      PROVE  Exact(s)'
  BY <1>1, <1>2 DEF Exact
<1>3. ASSUME Opens(x) PROVE Exact(s)'
  <2>1. UNCHANGED <<learner, ledger>> /\ status' = [status EXCEPT ![x] = "PENDING"] /\ status[x] = "ABSENT"
    BY <1>3 DEF Opens, SetStatus, credits
  <2> QED BY <1>1, <2>1 DEF Exact
<1>4. ASSUME NEW u \in Users, NEW c \in Prices, Claims(x, u, c) PROVE Exact(s)'
  <2>1. /\ learner[x] = Nobody /\ ledger'[x][u] = -c
        /\ \A y \in SessionIds, v \in Users : y # x \/ v # u => ledger'[y][v] = ledger[y][v]
    BY <1>4, ChangeFacts
  <2>2. /\ u # MentorOf[x] /\ status' = [status EXCEPT ![x] = "SCHEDULED"]
        /\ learner' = [learner EXCEPT ![x] = u]
    BY <1>4 DEF Claims, SetStatus
  <2>3. c \in Int /\ c > 0 /\ -c < 0
    <3>1. c \in Nat \ {0}
      BY SessionConstants DEF SessionConstants
    <3> QED BY <3>1
  <2> QED BY <1>1, <2>1, <2>2, <2>3 DEF Exact
<1>5. ASSUME From(TRUE, x, {"PENDING"}), Schedules(x) PROVE Exact(s)'
  <2>1. /\ UNCHANGED <<learner, ledger>> /\ status' = [status EXCEPT ![x] = "SCHEDULED"]
        /\ status[x] = "PENDING"
    BY <1>5 DEF From, Schedules, SetStatus, credits
  <2> QED BY <1>1, <2>1 DEF Exact
<1>6. ASSUME From(TRUE, x, {"SCHEDULED"}), Completes(x) PROVE Exact(s)'
  <2>1. /\ learner' = learner /\ status' = [status EXCEPT ![x] = "COMPLETED"]
        /\ status[x] = "SCHEDULED"
    BY <1>6 DEF From, Completes, SetStatus
  <2>2. /\ ledger'[x][MentorOf[x]] = ledger[x][MentorOf[x]] + Held(x, learner[x])
        /\ \A y \in SessionIds, v \in Users :
             y # x \/ v # MentorOf[x] => ledger'[y][v] = ledger[y][v]
    BY <1>6, ChangeFacts
  <2>3. /\ learner[x] = Nobody => Held(x, learner[x]) = 0
        /\ learner[x] # Nobody => Held(x, learner[x]) = -ledger[x][learner[x]]
    BY HeldFacts
  <2>4. CASE x # s
    BY <1>1, <1>2, <2>1, <2>2, <2>4
  <2>5. CASE x = s /\ learner[s] = Nobody
    BY <1>1, <2>1, <2>2, <2>3, <2>5 DEF Exact
  <2>6. CASE x = s /\ learner[s] # Nobody
    <3>1. ledger'[s][learner[s]] = ledger[s][learner[s]]
      BY <1>1, <2>2, <2>6
    <3>2. ledger[s][MentorOf[s]] = 0 /\ ledger[s][learner[s]] < 0
      BY <1>1, <2>1, <2>6 DEF Exact
    <3>3. ledger'[s][MentorOf[s]] = -ledger[s][learner[s]]
      BY <1>1, <2>2, <2>3, <2>6, <3>2
    <3>4. status'[s] = "COMPLETED"
      BY <1>1, <2>1, <2>6
    <3> QED BY <1>1, <2>1, <2>6, <3>1, <3>2, <3>3, <3>4 DEF Exact
  <2> QED BY <2>4, <2>5, <2>6
<1>7. ASSUME From(TRUE, x, {"PENDING", "SCHEDULED"}), Cancels(x) PROVE Exact(s)'
  <2>1. /\ learner' = learner /\ status' = [status EXCEPT ![x] = "CANCELLED"]
        /\ status[x] \in {"PENDING", "SCHEDULED"}
    BY <1>7 DEF From, Cancels, SetStatus
  <2>2. \A y \in SessionIds, v \in Users : y # x \/ v # learner[x] => ledger'[y][v] = ledger[y][v]
    BY <1>7, ChangeFacts DEF Cancels, credits
  <2>3. CASE x # s
    BY <1>1, <1>2, <2>1, <2>2, <2>3
  <2>4. CASE x = s
    <3>1. ledger[s][MentorOf[s]] = 0
      BY <1>1, <2>1, <2>4 DEF Exact
    <3>2. ledger'[s][MentorOf[s]] = 0 /\ status'[s] = "CANCELLED"
      BY <1>1, <2>1, <2>2, <2>4, <3>1
    <3> QED BY <2>1, <3>2 DEF Exact
  <2> QED BY <2>3, <2>4
<1> QED BY <1>3, <1>4, <1>5, <1>6, <1>7

LEMMA SettlementStep ==
  ASSUME IInv, SnapshotOK, SettlementExact, [GuardedNext]_vars
  PROVE  SettlementExact'
<1>1. ASSUME NEW s \in SessionIds PROVE Exact(s)'
  <2>1. CASE Idles \/ \E u \in Users, n \in Adjustments : Adjusts(u, n)
    BY <2>1 DEF Idles, Adjusts, credits, SettlementExact, Exact
  <2> QED BY <2>1, ChangeKeepsExact, GuardedStepChanges DEF Changes
<1> QED BY <1>1 DEF Exact, SettlementExact

\* As long as no update acts on a status that has changed, the mentor of a completed
\* session has earned exactly what its learner paid, and of any other nothing
\* (session.service.ts:279-300).
THEOREM BooksBalance == GuardedSpec => []SettlementExact
<1>1. Init => SettlementExact
  BY SessionConstants DEF SessionConstants, Init, SettlementExact
<1>2. IInv /\ SnapshotOK /\ SettlementExact /\ [GuardedNext]_vars => SettlementExact'
  BY SettlementStep
<1> QED BY <1>1, <1>2, GuardedInvariance, PTL DEF GuardedSpec

-----------------------------------------------------------------------------
(* What was told and what was counted. *)

Ended == {"COMPLETED", "CANCELLED"}

\* No change leaves the end of a session.
LEMMA EndStays ==
  ASSUME IInv, SnapshotOK, [GuardedNext]_vars, NEW s \in SessionIds, status[s] \in Ended
  PROVE  status'[s] = status[s]
<1>1. ASSUME NEW x \in SessionIds, NEW st, status[x] \notin Ended, SetStatus(x, st)
      PROVE  status'[s] = status[s]
  BY <1>1 DEF SetStatus, IInv, TypeOK
<1>2. CASE UNCHANGED status
  BY <1>2
<1> QED BY <1>1, <1>2, GuardedStepChanges
        DEF Changes, Idles, Adjusts, Opens, Claims, From, Schedules, Completes, Cancels, Ended

\* Told now means true now.
LEMMA ToldIsTrue ==
  ASSUME IInv, [Next]_vars, NEW s \in SessionIds
  PROVE  /\ "cancelled" \in inbox'[s] => "cancelled" \in inbox[s] \/ status'[s] = "CANCELLED"
         /\ "completed" \in inbox'[s] => "completed" \in inbox[s] \/ status'[s] = "COMPLETED"
<1>1. /\ inbox \in [SessionIds -> SUBSET Kinds] /\ status \in [SessionIds -> Statuses]
      /\ \A h \in Handlers : request[h].op # "none" => request[h].session \in SessionIds
  BY DEF IInv, TypeOK, RequestsOK
<1>2. ASSUME NEW x \in SessionIds, NEW kinds, Tell(x, kinds),
             "cancelled" \in kinds => status'[x] = "CANCELLED",
             "completed" \in kinds => status'[x] = "COMPLETED"
      PROVE  /\ "cancelled" \in inbox'[s] => "cancelled" \in inbox[s] \/ status'[s] = "CANCELLED"
             /\ "completed" \in inbox'[s] => "completed" \in inbox[s] \/ status'[s] = "COMPLETED"
  <2>1. inbox' = [inbox EXCEPT ![x] = inbox[x] \cup kinds]
    BY <1>2 DEF Tell
  <2>2. CASE s = x
    <3>1. inbox'[s] = inbox[s] \cup kinds
      BY <1>1, <2>1, <2>2
    <3> QED BY <1>2, <2>2, <3>1
  <2>3. CASE s # x
    BY <1>1, <2>1, <2>3
  <2> QED BY <2>2, <2>3
<1>3. ASSUME NEW h \in Handlers, BookCommit(h) PROVE \E x \in SessionIds : Tell(x, {"booked"})
  BY <1>1, <1>3 DEF BookCommit
<1>4. ASSUME NEW h \in Handlers, CompleteCommit(h)
      PROVE  \E x \in SessionIds, kinds \in SUBSET {"completed"} :
               Tell(x, kinds) /\ status'[x] = "COMPLETED"
  <2> DEFINE x == request[h].session
             kinds == IF learner[x] = Nobody THEN {} ELSE {"completed"}
  <2>1. x \in SessionIds /\ Tell(x, kinds) /\ status' = [status EXCEPT ![x] = "COMPLETED"]
    BY <1>1, <1>4 DEF CompleteCommit, SetStatus, Updating
  <2>2. kinds \in SUBSET {"completed"} /\ status'[x] = "COMPLETED"
    BY <1>1, <2>1
  <2> QED BY <2>1, <2>2
<1>5. ASSUME NEW h \in Handlers, CancelCommit(h)
      PROVE  \E x \in SessionIds, kinds \in SUBSET {"cancelled"} :
               Tell(x, kinds) /\ status'[x] = "CANCELLED"
  <2> DEFINE x == request[h].session
             kinds == IF {MentorOf[x], learner[x]} \ {Nobody, request[h].actor} = {}
                        THEN {} ELSE {"cancelled"}
  <2>1. x \in SessionIds /\ Tell(x, kinds) /\ status' = [status EXCEPT ![x] = "CANCELLED"]
    BY <1>1, <1>5 DEF CancelCommit, SetStatus, Updating
  <2>2. kinds \in SUBSET {"cancelled"} /\ status'[x] = "CANCELLED"
    BY <1>1, <2>1
  <2> QED BY <2>1, <2>2
<1>6. ASSUME NEW j \in Sweepers, NEW x \in SessionIds, NEW l, SweepFlip(j, x, l)
      PROVE  Tell(x, AutoNotice(l))
  BY <1>6 DEF SweepFlip
<1>7. ASSUME NEW j \in Sweepers, NEW x \in SessionIds, NEW l, SweepSkip(j, x, l)
      PROVE  Tell(x, AutoNotice(l))
  BY <1>7 DEF SweepSkip
<1>8. \A l : "cancelled" \notin AutoNotice(l) /\ "completed" \notin AutoNotice(l)
  BY DEF AutoNotice
<1>9. CASE UNCHANGED inbox
  BY <1>9
<1>10. ASSUME NEW h \in Handlers, Handle(h) \/ Update(h)
       PROVE  UNCHANGED inbox \/ BookCommit(h) \/ CompleteCommit(h) \/ CancelCommit(h)
  BY <1>10 DEF Handle, Update, BookLoad, UpdateLoad, ScheduleCommit, Abandon
<1>11. ASSUME NEW j \in Sweepers, Sweep(j) \/ Mishap(j)
       PROVE  \/ UNCHANGED inbox
              \/ \E x \in SessionIds, l \in Users \cup {Nobody} : SweepFlip(j, x, l) \/ SweepSkip(j, x, l)
  <2>1. SweepStart(j) \/ SweepDie(j) => UNCHANGED inbox
    BY DEF SweepStart, SweepDie
  <2>2. \A x \in SessionIds, l \in Users \cup {Nobody} : SweepFail(j, x, l) => UNCHANGED inbox
    BY DEF SweepFail
  <2> QED BY <1>11, <2>1, <2>2 DEF Sweep, Mishap
<1>12. \/ UNCHANGED inbox
       \/ \E h \in Handlers : BookCommit(h) \/ CompleteCommit(h) \/ CancelCommit(h)
       \/ \E j \in Sweepers, x \in SessionIds, l \in Users \cup {Nobody} :
            SweepFlip(j, x, l) \/ SweepSkip(j, x, l)
  <2>1. CASE \E y \in SessionIds : CreateSession(y)
    BY <2>1 DEF CreateSession
  <2>2. CASE \E y \in SessionIds, u \in Users, c \in Prices : AcceptRequest(y, u, c)
    BY <2>2 DEF AcceptRequest
  <2>3. CASE \E h \in Handlers : Handle(h) \/ Update(h)
    BY <1>10, <2>3
  <2>4. CASE \E j \in Sweepers : Sweep(j) \/ Mishap(j)
    BY <1>11, <2>4
  <2>5. CASE \E y \in SessionIds : PassTime(y) \/ \E c \in Prices : Reprice(y, c)
    BY <2>5 DEF PassTime, Reprice
  <2>6. CASE \E u \in Users, n \in Adjustments : AdminAdjust(u, n)
    BY <2>6 DEF AdminAdjust
  <2>7. CASE UNCHANGED vars \/ AtRest
    BY <2>7 DEF vars, AtRest
  <2> QED BY <2>1, <2>2, <2>3, <2>4, <2>5, <2>6, <2>7 DEF Next, Around
<1>13. CASE \E h \in Handlers : BookCommit(h)
  <2>1. PICK x \in SessionIds : Tell(x, {"booked"})
    BY <1>3, <1>13
  <2>2. "cancelled" \notin {"booked"} /\ "completed" \notin {"booked"}
    OBVIOUS
  <2> QED BY <1>2, <2>1, <2>2
<1>14. CASE \E h \in Handlers : CompleteCommit(h)
  <2>1. PICK x \in SessionIds, kinds \in SUBSET {"completed"} :
          Tell(x, kinds) /\ status'[x] = "COMPLETED"
    BY <1>4, <1>14
  <2>2. "cancelled" \notin kinds
    OBVIOUS
  <2> QED BY <1>2, <2>1, <2>2
<1>15. CASE \E h \in Handlers : CancelCommit(h)
  <2>1. PICK x \in SessionIds, kinds \in SUBSET {"cancelled"} :
          Tell(x, kinds) /\ status'[x] = "CANCELLED"
    BY <1>5, <1>15
  <2>2. "completed" \notin kinds
    OBVIOUS
  <2> QED BY <1>2, <2>1, <2>2
<1>16. CASE \E j \in Sweepers, x \in SessionIds, l \in Users \cup {Nobody} :
              SweepFlip(j, x, l) \/ SweepSkip(j, x, l)
  <2>1. PICK x \in SessionIds, l \in Users \cup {Nobody} : Tell(x, AutoNotice(l))
    BY <1>6, <1>7, <1>16
  <2> QED BY <1>2, <1>8, <2>1
<1> QED BY <1>9, <1>12, <1>13, <1>14, <1>15, <1>16

\* What the parties were told by a request is true for good: an ended session
\* stays as it ended (session.service.ts:330-357).
THEOREM NoticesTrue == GuardedSpec => []NoticesStayTrue
<1>1. Init => NoticesStayTrue
  BY DEF Init, NoticesStayTrue
<1>2. IInv /\ SnapshotOK /\ NoticesStayTrue /\ [GuardedNext]_vars => NoticesStayTrue'
  <2> SUFFICES ASSUME IInv, SnapshotOK, NoticesStayTrue, [GuardedNext]_vars, NEW s \in SessionIds
               PROVE  /\ "cancelled" \in inbox'[s] => status'[s] = "CANCELLED"
                      /\ "completed" \in inbox'[s] => status'[s] = "COMPLETED"
    BY DEF NoticesStayTrue
  <2> QED BY EndStays, ToldIsTrue, GuardedIsNext DEF NoticesStayTrue, Ended
<1> QED BY <1>1, <1>2, GuardedInvariance, PTL DEF GuardedSpec

CompletedBy(u) == {s \in SessionIds : MentorOf[s] = u /\ status[s] = "COMPLETED"}

CountInv == \A u \in Users : IsFiniteSet(CompletedBy(u)) /\ taught[u] = Cardinality(CompletedBy(u))

\* A step leaves the count and the completed sessions alone, or adds one session
\* to both.
LEMMA CountStep ==
  ASSUME IInv, SnapshotOK, CountInv, [GuardedNext]_vars
  PROVE  CountInv'
<1>1. status \in [SessionIds -> Statuses] /\ taught \in [Users -> Nat]
      /\ \A s \in SessionIds : MentorOf[s] \in Users
  BY SessionConstants DEF SessionConstants, IInv, TypeOK
<1>2. ASSUME UNCHANGED taught,
             \A s \in SessionIds : status'[s] = "COMPLETED" <=> status[s] = "COMPLETED"
      PROVE  CountInv'
  <2>1. ASSUME NEW u \in Users PROVE CompletedBy(u)' = CompletedBy(u)
    BY <1>2 DEF CompletedBy
  <2> QED BY <1>2, <2>1 DEF CountInv
<1>3. ASSUME NEW x \in SessionIds, status[x] = "SCHEDULED", Completes(x) PROVE CountInv'
  <2>1. status' = [status EXCEPT ![x] = "COMPLETED"]
        /\ taught' = [taught EXCEPT ![MentorOf[x]] = taught[MentorOf[x]] + 1]
    BY <1>3 DEF Completes, SetStatus
  <2>2. ASSUME NEW u \in Users, u # MentorOf[x]
        PROVE  CompletedBy(u)' = CompletedBy(u) /\ taught'[u] = taught[u]
    BY <1>1, <2>1, <2>2 DEF CompletedBy
  <2> DEFINE m == MentorOf[x]
  <2>3. CompletedBy(m)' = CompletedBy(m) \cup {x} /\ x \notin CompletedBy(m)
        /\ taught'[m] = taught[m] + 1
    BY <1>1, <1>3, <2>1 DEF CompletedBy
  <2>4. IsFiniteSet(CompletedBy(m) \cup {x})
        /\ Cardinality(CompletedBy(m) \cup {x}) = Cardinality(CompletedBy(m)) + 1
    BY <1>1, <2>3, FS_AddElement DEF CountInv
  <2> QED BY <1>1, <2>2, <2>3, <2>4 DEF CountInv
<1>4. ASSUME NEW x \in SessionIds, NEW st \in Statuses \ {"COMPLETED"}, status[x] # "COMPLETED",
             SetStatus(x, st), UNCHANGED taught
      PROVE  CountInv'
  BY <1>1, <1>2, <1>4 DEF SetStatus
<1> QED BY <1>2, <1>3, <1>4, GuardedStepChanges
        DEF Changes, Idles, Adjusts, Opens, Claims, From, Schedules, Cancels, Statuses

\* The counter of a mentor counts each completed session once, whether a request
\* completed it or the job (session.service.ts:297-300, 495-498).
THEOREM CountExact == GuardedSpec => []TaughtCountsCompleted
<1>1. Init => CountInv
  <2> SUFFICES ASSUME Init, NEW u \in Users
               PROVE  IsFiniteSet(CompletedBy(u)) /\ taught[u] = Cardinality(CompletedBy(u))
    BY DEF CountInv
  <2>1. CompletedBy(u) = {} /\ taught[u] = 0
    BY DEF Init, CompletedBy
  <2> QED BY <2>1, FS_EmptySet
<1>2. IInv /\ SnapshotOK /\ CountInv /\ [GuardedNext]_vars => CountInv'
  BY CountStep
<1>3. CountInv => TaughtCountsCompleted
  BY DEF CountInv, TaughtCountsCompleted, CompletedBy
<1> QED BY <1>1, <1>2, <1>3, GuardedInvariance, PTL DEF GuardedSpec

-----------------------------------------------------------------------------
(* The refinement of Escrow. *)

\* How the escrow sees a session.
Seen(s) ==
  /\ learner[s] = Nobody => Pot[s] = 0 /\ Stage[s] = "free"
  /\ learner[s] # Nobody =>
       /\ Pot[s] = -(ledger[s][learner[s]] + ledger[s][MentorOf[s]])
       /\ status[s] = "SCHEDULED" => Stage[s] = "held"
       /\ status[s] = "COMPLETED" => Stage[s] = "released"
       /\ status[s] = "CANCELLED" =>
            Stage[s] = IF ledger[s][learner[s]] = 0 THEN "refunded" ELSE "forfeited"

LEMMA View == ASSUME NEW s \in SessionIds PROVE Seen(s) /\ Seen(s)'
BY DEF Seen, Pot, Stage

\* The escrow sees of a step what it does to one session.
LEMMA OthersUnseen ==
  ASSUME IInv, NEW s \in SessionIds,
         \A y \in SessionIds : y # s => status'[y] = status[y] /\ learner'[y] = learner[y],
         \A y \in SessionIds, v \in Users : y # s => ledger'[y][v] = ledger[y][v]
  PROVE  /\ Pot' = [Pot EXCEPT ![s] = Pot'[s]]
         /\ Stage' = [Stage EXCEPT ![s] = Stage'[s]]
<1>1. \A y \in SessionIds : MentorOf[y] \in Users /\ learner[y] \in Users \cup {Nobody}
  BY SessionConstants DEF SessionConstants, IInv, TypeOK
<1>2. ASSUME NEW y \in SessionIds, y # s PROVE Pot'[y] = Pot[y]
  BY <1>1, <1>2 DEF Pot
<1>3. ASSUME NEW y \in SessionIds, y # s PROVE Stage'[y] = Stage[y]
  BY <1>1, <1>3 DEF Stage
<1>4. /\ Pot = [y \in SessionIds |-> Pot[y]] /\ Pot' = [y \in SessionIds |-> Pot'[y]]
      /\ Stage = [y \in SessionIds |-> Stage[y]] /\ Stage' = [y \in SessionIds |-> Stage'[y]]
  BY DEF Pot, Stage
<1> QED BY <1>2, <1>3, <1>4

\* A step that leaves a session's learner, its entries and what the escrow sees of
\* its status alone is invisible.
LEMMA Unseen ==
  ASSUME IInv, NEW s \in SessionIds, learner' = learner, learner[s] = Nobody,
         \A y \in SessionIds : y # s => status'[y] = status[y],
         \A y \in SessionIds, v \in Users : y # s => ledger'[y][v] = ledger[y][v]
  PROVE  Pot' = Pot /\ Stage' = Stage
<1>1. Pot'[s] = Pot[s] /\ Stage'[s] = Stage[s]
  BY View DEF Seen
<1>2. Pot' = [Pot EXCEPT ![s] = Pot'[s]] /\ Stage' = [Stage EXCEPT ![s] = Stage'[s]]
  BY OthersUnseen
<1>3. Pot = [y \in SessionIds |-> Pot[y]] /\ Stage = [y \in SessionIds |-> Stage[y]]
  BY DEF Pot, Stage
<1> QED BY <1>1, <1>2, <1>3

\* A claim holds, a completion releases, a cancellation refunds or forfeits.
LEMMA ChangeRefines ==
  ASSUME IInv, SettlementExact, NEW x \in SessionIds,
         \/ Opens(x)
         \/ \E u \in Users, c \in Prices : Claims(x, u, c)
         \/ From(TRUE, x, {"PENDING"}) /\ Schedules(x)
         \/ From(TRUE, x, {"SCHEDULED"}) /\ Completes(x)
         \/ From(TRUE, x, {"PENDING", "SCHEDULED"}) /\ Cancels(x)
  PROVE  [AsEscrow!Next]_(AsEscrow!vars)
<1>1. /\ MentorOf[x] \in Users /\ learner[x] \in Users \cup {Nobody} /\ learner[x] # MentorOf[x]
      /\ Nobody \notin Users
      /\ status \in [SessionIds -> Statuses] /\ balance \in [Users -> Nat]
      /\ ledger[x][MentorOf[x]] \in Int
      /\ status[x] \in {"ABSENT", "PENDING"} => learner[x] = Nobody
      /\ learner[x] # Nobody => ledger[x][learner[x]] \in Int
      /\ learner[x] = Nobody => ledger[x][MentorOf[x]] = 0
      /\ Exact(x) /\ Exact(x)'
  <2>1. Exact(x)'
    BY ChangeKeepsExact
  <2> QED BY <2>1, SessionConstants
      DEF SessionConstants, IInv, TypeOK, Books, ClaimsOK, UnclaimedUntouched, SettlementExact, Exact
<1>2. Seen(x) /\ Seen(x)'
  BY View
<1>3. ASSUME Opens(x) \/ (From(TRUE, x, {"PENDING"}) /\ Schedules(x)) PROVE UNCHANGED AsEscrow!vars
  <2>1. /\ UNCHANGED <<learner, ledger, balance>> /\ learner[x] = Nobody
        /\ \A y \in SessionIds : y # x => status'[y] = status[y]
    BY <1>1, <1>3 DEF Opens, From, Schedules, SetStatus, credits
  <2> QED BY <2>1, Unseen DEF AsEscrow!vars
<1>4. ASSUME NEW u \in Users, NEW c \in Prices, Claims(x, u, c) PROVE AsEscrow!Next
  <2>1. /\ learner[x] = Nobody /\ ledger'[x][u] = -c /\ balance[u] >= c
        /\ \A y \in SessionIds, v \in Users : y # x \/ v # u => ledger'[y][v] = ledger[y][v]
    BY <1>4, ChangeFacts
  <2>2. /\ u # MentorOf[x] /\ status' = [status EXCEPT ![x] = "SCHEDULED"]
        /\ learner' = [learner EXCEPT ![x] = u] /\ learner \in [SessionIds -> Users \cup {Nobody}]
        /\ balance' = [balance EXCEPT ![u] = balance[u] + (-c)]
    BY <1>4 DEF Claims, SetStatus, Transfer, IInv, TypeOK
  <2>3. c \in Nat
    BY SessionConstants DEF SessionConstants
  <2>4. balance' = [balance EXCEPT ![u] = balance[u] - c]
    <3>1. balance[u] + (-c) = balance[u] - c
      BY <1>1, <2>3
    <3> QED BY <2>2, <3>1
  <2>5. learner'[x] = u /\ status'[x] = "SCHEDULED" /\ ledger'[x][MentorOf[x]] = 0 /\ u # Nobody
    BY <1>1, <2>1, <2>2
  <2>6. Stage[x] = "free" /\ Stage'[x] = "held" /\ Pot'[x] = c
    BY <1>2, <2>1, <2>3, <2>5 DEF Seen
  <2>7. Pot' = [Pot EXCEPT ![x] = c] /\ Stage' = [Stage EXCEPT ![x] = "held"]
    <3>1. \A y \in SessionIds : y # x => status'[y] = status[y] /\ learner'[y] = learner[y]
      BY <1>1, <2>2
    <3> QED BY <2>1, <2>6, <3>1, OthersUnseen
  <2>8. AsEscrow!Hold(x, u, c)
    BY <2>1, <2>2, <2>4, <2>6, <2>7 DEF AsEscrow!Hold
  <2> QED BY <2>8 DEF AsEscrow!Next
<1>5. ASSUME From(TRUE, x, {"SCHEDULED"}), Completes(x) PROVE [AsEscrow!Next]_(AsEscrow!vars)
  <2>1. /\ learner' = learner /\ status' = [status EXCEPT ![x] = "COMPLETED"]
        /\ status[x] = "SCHEDULED"
        /\ balance' = [balance EXCEPT ![MentorOf[x]] = balance[MentorOf[x]] + Held(x, learner[x])]
    BY <1>5 DEF From, Completes, SetStatus, Transfer
  <2>2. /\ \A y \in SessionIds : y # x => status'[y] = status[y]
        /\ \A y \in SessionIds, v \in Users : y # x => ledger'[y][v] = ledger[y][v]
    BY <1>1, <1>5, <2>1, ChangeFacts
  <2>3. CASE learner[x] = Nobody
    <3>1. balance' = balance
      BY <1>1, <2>1, <2>3, HeldFacts
    <3> QED BY <2>1, <2>2, <2>3, <3>1, Unseen DEF AsEscrow!vars
  <2>4. CASE learner[x] # Nobody
    <3>1. /\ Stage[x] = "held" /\ Pot[x] = -(ledger[x][learner[x]] + ledger[x][MentorOf[x]])
          /\ ledger[x][MentorOf[x]] = 0
      BY <1>1, <1>2, <2>1, <2>4 DEF Seen, Exact
    <3>2. Pot[x] = Held(x, learner[x])
      BY <1>1, <2>4, <3>1, HeldFacts
    <3>3. status'[x] = "COMPLETED"
      BY <1>1, <2>1
    <3>4. ledger'[x][MentorOf[x]] = -ledger'[x][learner[x]] /\ ledger'[x][learner[x]] = ledger[x][learner[x]]
      BY <1>1, <1>5, <2>1, <2>4, <3>3, ChangeFacts DEF Exact
    <3>5. Stage'[x] = "released" /\ Pot'[x] = 0
      BY <1>1, <1>2, <2>1, <2>4, <3>3, <3>4 DEF Seen
    <3>6. Pot' = [Pot EXCEPT ![x] = 0] /\ Stage' = [Stage EXCEPT ![x] = "released"]
      BY <2>1, <2>2, <3>5, OthersUnseen
    <3>7. AsEscrow!Release(x)
      BY <2>1, <3>1, <3>2, <3>6 DEF AsEscrow!Release, AsEscrow!Empty
    <3> QED BY <3>7 DEF AsEscrow!Next
  <2> QED BY <2>3, <2>4
<1>6. ASSUME From(TRUE, x, {"PENDING", "SCHEDULED"}), Cancels(x) PROVE [AsEscrow!Next]_(AsEscrow!vars)
  <2>1. /\ learner' = learner /\ status' = [status EXCEPT ![x] = "CANCELLED"]
        /\ status[x] \in {"PENDING", "SCHEDULED"}
    BY <1>6 DEF From, Cancels, SetStatus
  <2>2. /\ \A y \in SessionIds : y # x => status'[y] = status[y]
        /\ \A y \in SessionIds, v \in Users : y # x => ledger'[y][v] = ledger[y][v]
    BY <1>1, <1>6, <2>1, ChangeFacts DEF Cancels, credits
  <2>3. CASE learner[x] = Nobody
    <3>1. balance' = balance
      BY <1>6, <2>3 DEF Cancels, credits
    <3> QED BY <2>1, <2>2, <2>3, <3>1, Unseen DEF AsEscrow!vars
  <2>4. ASSUME learner[x] # Nobody
        PROVE  /\ status[x] = "SCHEDULED" /\ status'[x] = "CANCELLED"
               /\ Stage[x] = "held" /\ ledger[x][MentorOf[x]] = 0 /\ ledger[x][learner[x]] < 0
               /\ Pot[x] = -ledger[x][learner[x]]
    <3>1. status[x] = "SCHEDULED" /\ status'[x] = "CANCELLED"
      BY <1>1, <2>1, <2>4
    <3>2. ledger[x][MentorOf[x]] = 0 /\ ledger[x][learner[x]] < 0
      BY <1>1, <2>4, <3>1 DEF Exact
    <3> QED BY <1>1, <1>2, <2>4, <3>1, <3>2 DEF Seen
  <2>5. CASE learner[x] # Nobody /\ Transfer(x, learner[x], Held(x, learner[x]))
    <3>1. ledger'[x][learner[x]] = 0 /\ ledger'[x][MentorOf[x]] = 0
      BY <1>1, <2>4, <2>5, ChangeFacts
    <3>2. Stage'[x] = "refunded" /\ Pot'[x] = 0
      BY <1>2, <2>1, <2>4, <2>5, <3>1 DEF Seen
    <3>3. Pot' = [Pot EXCEPT ![x] = 0] /\ Stage' = [Stage EXCEPT ![x] = "refunded"]
      BY <2>1, <2>2, <3>2, OthersUnseen
    <3>4. balance' = [balance EXCEPT ![learner[x]] = balance[learner[x]] + Pot[x]]
      BY <2>4, <2>5, HeldFacts DEF Transfer
    <3>5. AsEscrow!Refund(x)
      BY <2>1, <2>4, <2>5, <3>3, <3>4 DEF AsEscrow!Refund, AsEscrow!Empty
    <3> QED BY <3>5 DEF AsEscrow!Next
  <2>6. CASE learner[x] # Nobody /\ UNCHANGED credits
    <3>1. balance' = balance /\ ledger' = ledger
      BY <2>6 DEF credits
    <3>2. Stage'[x] = "forfeited" /\ Pot'[x] = Pot[x]
      BY <1>1, <1>2, <2>1, <2>4, <2>6, <3>1 DEF Seen
    <3>3. Pot' = [Pot EXCEPT ![x] = Pot[x]] /\ Stage' = [Stage EXCEPT ![x] = "forfeited"]
      BY <2>1, <2>2, <3>2, OthersUnseen
    <3>4. Pot' = Pot
      <4>1. Pot = [y \in SessionIds |-> Pot[y]]
        BY DEF Pot
      <4> QED BY <3>3, <4>1
    <3>5. AsEscrow!Forfeit(x)
      BY <2>1, <2>4, <2>6, <3>1, <3>3, <3>4 DEF AsEscrow!Forfeit
    <3> QED BY <3>5 DEF AsEscrow!Next
  <2> QED BY <1>6, <2>3, <2>5, <2>6 DEF Cancels
<1> QED BY <1>3, <1>4, <1>5, <1>6

LEMMA EscrowStep ==
  ASSUME IInv, SnapshotOK, SettlementExact, [GuardedNext]_vars
  PROVE  [AsEscrow!Next]_(AsEscrow!vars)
<1>1. CASE Idles
  <2>1. Pot' = Pot /\ Stage' = Stage
    BY <1>1 DEF Idles, credits, Pot, Stage
  <2> QED BY <1>1, <2>1 DEF Idles, credits, AsEscrow!vars
<1>2. ASSUME NEW u \in Users, NEW n \in Adjustments, Adjusts(u, n) PROVE AsEscrow!Next
  <2>1. Pot' = Pot /\ Stage' = Stage
    BY <1>2 DEF Adjusts, Pot, Stage
  <2>2. AsEscrow!Grant(u, n)
    BY <1>2, <2>1 DEF Adjusts, AsEscrow!Grant
  <2> QED BY <2>2 DEF AsEscrow!Next
<1> QED BY <1>1, <1>2, ChangeRefines, GuardedStepChanges DEF Changes

\* Booking, completing, cancelling and the job, interleaved in any number, are an
\* escrow: every credit held leaves the pot once and whole
\* (session.service.ts:186-187, 285-294, 310-319, 482-491).
THEOREM EscrowRefinement == GuardedSpec => ImplementsEscrow
<1>1. Init => AsEscrow!Init
  <2> SUFFICES ASSUME Init PROVE AsEscrow!Init
    OBVIOUS
  <2>1. learner = [s \in SessionIds |-> Nobody] /\ balance = [u \in Users |-> StartCredits]
    BY DEF Init
  <2>2. Pot = [s \in SessionIds |-> 0] /\ Stage = [s \in SessionIds |-> "free"]
    BY <2>1 DEF Pot, Stage
  <2> QED BY <2>1, <2>2 DEF AsEscrow!Init
<1>2. IInv /\ SnapshotOK /\ SettlementExact /\ [GuardedNext]_vars
        => [AsEscrow!Next]_(AsEscrow!vars)
  BY EscrowStep
<1> QED BY <1>1, <1>2, GuardedInvariance, BooksBalance, PTL DEF GuardedSpec, ImplementsEscrow, AsEscrow!Spec

-----------------------------------------------------------------------------
(* What follows of an escrow whose pots are never overdrawn. *)

\* A payout that stays within the hold has no room for a second one.
THEOREM PaidOnce == GuardedSpec => []EarnedWithinPaid
<1>1. IInv /\ SettlementExact => EarnedWithinPaid
  <2> SUFFICES ASSUME IInv, SettlementExact, NEW s \in SessionIds, learner[s] # Nobody
               PROVE  ledger[s][MentorOf[s]] <= -ledger[s][learner[s]]
    BY DEF EarnedWithinPaid
  <2>1. /\ learner[s] \in Users /\ learner[s] # MentorOf[s] /\ MentorOf[s] \in Users
        /\ ledger[s][learner[s]] \in Int /\ ledger[s][learner[s]] <= 0
    BY SessionConstants DEF SessionConstants, IInv, TypeOK, Books, ClaimsOK, RefundWithinHold
  <2>2. Exact(s)
    BY DEF SettlementExact, Exact
  <2> QED BY <2>1, <2>2 DEF Exact
<1> QED BY <1>1, GuardedInvariance, BooksBalance, PTL

\* All the credits there are, and that the pots hold some of them.
Worth == SumFunction(balance) + SumFunction(Pot)

Solvent ==
  /\ balance \in [Users -> Int] /\ Pot \in [SessionIds -> Int]
  /\ \A s \in SessionIds : Pot[s] >= 0

LEMMA PotsSolvent == IInv /\ EarnedWithinPaid => Solvent
<1> SUFFICES ASSUME IInv, EarnedWithinPaid PROVE Solvent
  OBVIOUS
<1>1. ASSUME NEW s \in SessionIds PROVE Pot[s] \in Int /\ Pot[s] >= 0
  <2>1. /\ MentorOf[s] \in Users /\ learner[s] \in Users \cup {Nobody}
        /\ ledger[s] \in [Users -> Int]
    BY SessionConstants DEF SessionConstants, IInv, TypeOK
  <2>2. learner[s] # Nobody => ledger[s][MentorOf[s]] <= -ledger[s][learner[s]]
    BY DEF EarnedWithinPaid
  <2> QED BY <2>1, <2>2, View DEF Seen
<1>2. Pot \in [SessionIds -> Int]
  BY <1>1 DEF Pot
<1>3. balance \in [Users -> Int]
  BY DEF IInv, TypeOK
<1> QED BY <1>1, <1>2, <1>3 DEF Solvent

\* Credits that go from a pot to a person, or the other way, stay the same in sum.
LEMMA MoveKeepsWorth ==
  ASSUME IsFiniteSet(Users), IsFiniteSet(SessionIds), Solvent,
         NEW s \in SessionIds, NEW u \in Users, NEW n \in Int,
         balance' = [balance EXCEPT ![u] = @ + n],
         Pot' = [Pot EXCEPT ![s] = @ - n]
  PROVE  Worth' = Worth
<1>1. /\ SumFunction(balance') = SumFunction(balance) + n
      /\ SumFunction(balance) \in Int
  <2>1. balance \in [Users -> Int]
    BY DEF Solvent
  <2> QED BY <2>1, SumMove
<1>2. /\ SumFunction(Pot') = SumFunction(Pot) + (-n)
      /\ SumFunction(Pot) \in Int
  <2> DEFINE before == Pot
             after  == Pot'
  <2>1. before \in [SessionIds -> Int] /\ -n \in Int
    BY DEF Solvent
  <2>2. after = [before EXCEPT ![s] = @ + (-n)]
    BY <2>1
  <2> HIDE DEF before, after
  <2>3. SumFunction(after) = SumFunction(before) + (-n) /\ SumFunction(before) \in Int
    BY <2>1, <2>2, SumMove
  <2> QED BY <2>3 DEF before, after
<1> QED BY <1>1, <1>2 DEF Worth

LEMMA EscrowKeepsWorth ==
  ASSUME IsFiniteSet(Users), IsFiniteSet(SessionIds), \A n \in Adjustments : n <= 0,
         IInv, Solvent, [AsEscrow!Next]_(AsEscrow!vars)
  PROVE  Worth' <= Worth /\ Worth \in Int /\ Worth' \in Int
<1>1. SumFunction(balance) \in Int /\ SumFunction(Pot) \in Int
  BY SumInt DEF Solvent, SumFunction
<1>2. Worth \in Int
  BY <1>1 DEF Worth
<1>3. ASSUME NEW s \in SessionIds, Stage[s] = "held" PROVE learner[s] \in Users /\ MentorOf[s] \in Users
  BY <1>3, View, SessionConstants DEF Seen, SessionConstants, IInv, TypeOK
<1>4. ASSUME NEW s \in SessionIds, NEW u \in Users, NEW c \in Prices, AsEscrow!Hold(s, u, c)
      PROVE  Worth' = Worth
  <2>1. c \in Int /\ -c \in Int
    BY SessionConstants DEF SessionConstants
  <2>2. Pot[s] = 0
    BY <1>4, View DEF AsEscrow!Hold, Seen, Stage
  <2>3. Pot' = [Pot EXCEPT ![s] = @ - (-c)]
    <3>1. Pot[s] - (-c) = c
      BY <2>1, <2>2
    <3>2. Pot' = [Pot EXCEPT ![s] = c]
      BY <1>4 DEF AsEscrow!Hold
    <3> QED BY <3>1, <3>2
  <2>4. balance' = [balance EXCEPT ![u] = @ + (-c)]
    BY <1>4, <2>1 DEF AsEscrow!Hold, Solvent
  <2> QED BY <2>1, <2>3, <2>4, MoveKeepsWorth
<1>5. ASSUME NEW s \in SessionIds, NEW u \in Users, NEW st, AsEscrow!Empty(s, u, st)
      PROVE  Worth' = Worth
  <2>1. Pot[s] \in Int
    BY DEF Solvent
  <2>2. balance' = [balance EXCEPT ![u] = @ + Pot[s]]
    BY <1>5 DEF AsEscrow!Empty
  <2>3. Pot' = [Pot EXCEPT ![s] = @ - Pot[s]]
    <3>1. Pot[s] - Pot[s] = 0
      BY <2>1
    <3>2. Pot' = [Pot EXCEPT ![s] = 0]
      BY <1>5 DEF AsEscrow!Empty
    <3> QED BY <3>1, <3>2
  <2> QED BY <2>1, <2>2, <2>3, MoveKeepsWorth
<1>6. ASSUME NEW s \in SessionIds, AsEscrow!Release(s) \/ AsEscrow!Refund(s) PROVE Worth' = Worth
  BY <1>3, <1>5, <1>6 DEF AsEscrow!Release, AsEscrow!Refund, AsEscrow!Empty
<1>7. ASSUME NEW u \in Users, NEW n \in Adjustments, AsEscrow!Grant(u, n)
      PROVE  Worth' <= Worth /\ Worth' \in Int
  <2>1. n \in Int /\ n <= 0
    BY SessionConstants DEF SessionConstants
  <2>2. balance' = [balance EXCEPT ![u] = @ + n] /\ Pot' = Pot /\ balance \in [Users -> Int]
    BY <1>7 DEF AsEscrow!Grant, Solvent
  <2>3. SumFunction(balance') = SumFunction(balance) + n
    BY <2>1, <2>2, SumMove
  <2> QED BY <1>1, <2>1, <2>2, <2>3 DEF Worth
<1>8. ASSUME UNCHANGED <<balance, Pot>> PROVE Worth' = Worth
  BY <1>8 DEF Worth
<1> QED BY <1>2, <1>4, <1>6, <1>7, <1>8 DEF AsEscrow!Next, AsEscrow!Forfeit, AsEscrow!vars

\* Nobody is paid twice out of one hold, so bookings cannot make credits
\* (session.service.ts:279-294, 306-319, 466-491): whatever any number of learners,
\* mentors, retries and job runs do, people together never have more than they
\* started with.
THEOREM NoMinting ==
  ASSUME IsFiniteSet(Users), IsFiniteSet(SessionIds), \A n \in Adjustments : n <= 0
  PROVE  GuardedSpec => []NothingMinted
<1> DEFINE Start == SumFunction([u \in Users |-> StartCredits])
           Bounded == Worth <= Start /\ Worth \in Int
<1>1. Start \in Int
  BY SumInt, SessionConstants DEF SessionConstants, SumFunction
<1>2. Init => Bounded
  <2> SUFFICES ASSUME Init PROVE Bounded
    OBVIOUS
  <2>1. balance = [u \in Users |-> StartCredits] /\ Pot = [s \in SessionIds |-> 0]
    BY DEF Init, Pot
  <2>2. SumFunction(Pot) = 0
    <3>1. SumFunction([s \in SessionIds |-> 0]) = 0
      BY SumZero
    <3> QED BY <2>1, <3>1
  <2> QED BY <1>1, <2>1, <2>2 DEF Worth
<1>3. IInv /\ SnapshotOK /\ SettlementExact /\ EarnedWithinPaid /\ Bounded /\ [GuardedNext]_vars => Bounded'
  BY <1>1, EscrowStep, PotsSolvent, EscrowKeepsWorth
<1>4. IInv /\ EarnedWithinPaid /\ Bounded => NothingMinted
  <2> SUFFICES ASSUME IInv, EarnedWithinPaid, Bounded PROVE NothingMinted
    OBVIOUS
  <2>1. Solvent
    BY PotsSolvent
  <2>2. \A s \in SessionIds : Pot[s] \in Nat
    BY <2>1 DEF Solvent
  <2>3. DOMAIN Pot = SessionIds /\ DOMAIN balance = Users /\ \A u \in Users : balance[u] \in Int
    BY <2>1 DEF Solvent
  <2>4. SumFunction(Pot) \in Nat /\ SumFunction(balance) \in Int
    BY <2>2, <2>3, SumNat, SumInt DEF SumFunction
  <2> QED BY <1>1, <2>4 DEF Worth, NothingMinted
<1> QED BY <1>2, <1>3, <1>4, GuardedInvariance, BooksBalance, PaidOnce, PTL DEF GuardedSpec

=============================================================================

---------------------------- MODULE MailerProofs ----------------------------
(***************************************************************************)
(* Theorems about Mailer, for every number of senders and connections and  *)
(* every pool size.                                                        *)
(***************************************************************************)
EXTENDS Mailer, FiniteSetTheorems, TLAPS

SmtpSteps == {"taken", "mail", "rcpt", "data", "return"}

(* What a sender's step says about the rest of its state.                  *)
SenderOK(s) ==
    /\ sender[s].conn # NoConn <=> sender[s].at \in SmtpSteps
    /\ sender[s].at \in SmtpSteps => Current(s) = "smtp"
    /\ sender[s].at = "next" => sender[s].left # <<>>

SendersOK == sender \in [Senders -> SenderState] /\ \A s \in Senders : SenderOK(s)

Injective(q) == \A i, k \in DOMAIN q : q[i] = q[k] => i = k
Values(q) == {q[i] : i \in DOMAIN q}

-----------------------------------------------------------------------------
(* Sequences and provider chains.                                          *)

LEMMA TailValues ==
    ASSUME NEW S, NEW q \in Seq(S), q # <<>>, Injective(q)
    PROVE  /\ Tail(q) \in Seq(S) /\ Injective(Tail(q))
           /\ Head(q) \in Values(q)
           /\ Values(Tail(q)) = Values(q) \ {Head(q)}
           /\ Len(q) \in Nat \ {0} /\ Len(Tail(q)) = Len(q) - 1
  <1>1. /\ Tail(q) \in Seq(S) /\ Len(q) \in Nat \ {0}
        /\ Len(Tail(q)) = Len(q) - 1
        /\ DOMAIN q = 1 .. Len(q) /\ DOMAIN Tail(q) = 1 .. Len(q) - 1
        /\ Head(q) = q[1]
        /\ \A i \in 1 .. Len(q) - 1 : Tail(q)[i] = q[i + 1]
    OBVIOUS
  <1>2. Injective(Tail(q))
    BY <1>1 DEF Injective
  <1>3. Head(q) \in Values(q)
    BY <1>1 DEF Values
  <1>4. ASSUME NEW x \in Values(Tail(q)) PROVE x \in Values(q) \ {Head(q)}
    <2>1. PICK i \in 1 .. Len(q) - 1 : x = q[i + 1]
      BY <1>4, <1>1 DEF Values
    <2> QED
      BY <2>1, <1>1 DEF Values, Injective
  <1>5. ASSUME NEW x \in Values(q) \ {Head(q)} PROVE x \in Values(Tail(q))
    <2>1. PICK i \in 1 .. Len(q) : x = q[i] /\ i # 1
      BY <1>5, <1>1 DEF Values
    <2>2. i - 1 \in DOMAIN Tail(q) /\ Tail(q)[i - 1] = x
      BY <2>1, <1>1
    <2> QED
      BY <2>2 DEF Values
  <1> QED
    BY <1>1, <1>2, <1>3, <1>4, <1>5

LEMMA AppendValues ==
    ASSUME NEW S, NEW q \in Seq(S), NEW x \in S, Injective(q), x \notin Values(q)
    PROVE  /\ Append(q, x) \in Seq(S) /\ Injective(Append(q, x))
           /\ Values(Append(q, x)) = Values(q) \cup {x}
           /\ Len(q) \in Nat /\ Len(Append(q, x)) = Len(q) + 1
  <1> DEFINE r == Append(q, x)
  <1>1. /\ r \in Seq(S) /\ Len(q) \in Nat /\ Len(r) = Len(q) + 1
        /\ DOMAIN q = 1 .. Len(q) /\ DOMAIN r = 1 .. Len(q) + 1
        /\ \A i \in 1 .. Len(q) : r[i] = q[i]
        /\ r[Len(q) + 1] = x
    OBVIOUS
  <1> HIDE DEF r
  <1>2. \A i \in DOMAIN q : q[i] # x
    BY DEF Values
  <1>3. \A i \in DOMAIN r : i \in DOMAIN q \/ i = Len(q) + 1
    BY <1>1
  <1>4. Injective(r)
    BY <1>1, <1>2, <1>3 DEF Injective
  <1>5. ASSUME NEW y \in Values(r) PROVE y \in Values(q) \cup {x}
    <2>1. PICK i \in DOMAIN r : y = r[i]
      BY <1>5 DEF Values
    <2> QED
      BY <2>1, <1>1, <1>3 DEF Values
  <1>6. ASSUME NEW y \in Values(q) \cup {x} PROVE y \in Values(r)
    <2>1. CASE y = x
      BY <2>1, <1>1 DEF Values
    <2>2. CASE y # x
      <3>1. PICK i \in DOMAIN q : y = q[i]
        BY <1>6, <2>2 DEF Values
      <3> QED
        BY <3>1, <1>1 DEF Values
    <2> QED
      BY <2>1, <2>2
  <1>7. Values(r) = Values(q) \cup {x}
    BY <1>5, <1>6
  <1> QED
    BY <1>1, <1>4, <1>7 DEF r

LEMMA ChainFacts ==
    /\ Chains \subseteq Remaining
    /\ \A chain \in Chains : chain # <<>>
    /\ \A left \in Remaining :
         Len(left) > 1 => Tail(left) \in Remaining /\ Tail(left) # <<>>
  <1>1. Tail(Failover) = <<"sendgrid", "smtp">>
    BY DEF Failover
  <1>2. Tail(<<"sendgrid", "smtp">>) = <<"smtp">>
    OBVIOUS
  <1>3. <<"smtp">> \in Chains
    BY DEF Chains, Providers
  <1>4. \A p \in Providers : <<p>> # <<>> /\ ~(Len(<<p>>) > 1)
    OBVIOUS
  <1>5. Failover # <<>>
    BY DEF Failover
  <1>6. \A chain \in Chains : chain # <<>>
    BY <1>4, <1>5 DEF Chains
  <1>7. ASSUME NEW left \in Remaining, Len(left) > 1
        PROVE  Tail(left) \in Remaining /\ Tail(left) # <<>>
    <2>1. left = Failover \/ left = <<"sendgrid", "smtp">>
      <3>1. ~(Len(<<>>) > 1)
        OBVIOUS
      <3> QED
        BY <1>7, <3>1, <1>4 DEF Remaining, Chains
    <2>2. <<"sendgrid", "smtp">> # <<>> /\ <<"smtp">> # <<>>
      OBVIOUS
    <2> QED
      BY <2>1, <2>2, <1>1, <1>2, <1>3 DEF Remaining
  <1> QED
    BY <1>6, <1>7 DEF Remaining

-----------------------------------------------------------------------------
(* Where a sender stands.                                                  *)

LEMMA GoesOK ==
    ASSUME SendersOK, NEW s \in Senders, NEW step \in SmtpSteps,
           NEW c \in Conns, NEW err \in BOOLEAN,
           Current(s) = "smtp", Goes(s, step, c, err)
    PROVE  SendersOK'
  <1> DEFINE next == [at |-> step, left |-> sender[s].left, conn |-> c, err |-> err]
  <1>1. sender' = [sender EXCEPT ![s] = next]
    BY DEF Goes
  <1>2. next \in SenderState /\ sender[s] \in SenderState
    BY DEF SendersOK, SenderState, SmtpSteps, Steps
  <1>3. sender' \in [Senders -> SenderState]
    BY <1>1, <1>2 DEF SendersOK
  <1>4. sender'[s] = next /\ \A t \in Senders \ {s} : sender'[t] = sender[t]
    BY <1>1 DEF SendersOK
  <1>5. SenderOK(s)'
    BY <1>4, MailerAssumption DEF SenderOK, SmtpSteps, Current
  <1>6. \A t \in Senders \ {s} : SenderOK(t)'
    BY <1>4 DEF SendersOK, SenderOK, Current
  <1> QED
    BY <1>3, <1>5, <1>6 DEF SendersOK

LEMMA LeavesOK ==
    ASSUME SendersOK, NEW s \in Senders, NEW step \in {"idle", "next"},
           NEW left \in Remaining, NEW err \in BOOLEAN,
           step = "next" => left # <<>>, Leaves(s, step, left, err)
    PROVE  SendersOK'
  <1> DEFINE next == [at |-> step, left |-> left, conn |-> NoConn, err |-> err]
  <1>1. sender' = [sender EXCEPT ![s] = next]
    BY DEF Leaves
  <1>2. next \in SenderState
    BY DEF SenderState, Steps
  <1>3. sender' \in [Senders -> SenderState]
    BY <1>1, <1>2 DEF SendersOK
  <1>4. sender'[s] = next /\ \A t \in Senders \ {s} : sender'[t] = sender[t]
    BY <1>1 DEF SendersOK
  <1>5. SenderOK(s)'
    BY <1>4 DEF SenderOK, SmtpSteps, Current
  <1>6. \A t \in Senders \ {s} : SenderOK(t)'
    BY <1>4 DEF SendersOK, SenderOK, Current
  <1> QED
    BY <1>3, <1>5, <1>6 DEF SendersOK

(* The end of an attempt also lets go of the connection.                   *)
LEMMA AttemptedOK ==
    ASSUME SendersOK, NEW s \in Senders, NEW err \in BOOLEAN, Attempted(s, err)
    PROVE  /\ SendersOK'
           /\ sender'[s].conn = NoConn
           /\ \A t \in Senders \ {s} : sender'[t] = sender[t]
  <1>1. sender[s].left \in Remaining
    BY DEF SendersOK, SenderState
  <1>2. SendersOK'
    <2>1. CASE err /\ Len(sender[s].left) > 1
      BY <1>1, <2>1, ChainFacts, LeavesOK DEF Attempted
    <2>2. CASE ~(err /\ Len(sender[s].left) > 1)
      BY <1>1, <2>2, LeavesOK DEF Attempted
    <2> QED
      BY <2>1, <2>2
  <1>3. \/ Leaves(s, "next", Tail(sender[s].left), FALSE)
        \/ Leaves(s, "idle", sender[s].left, err)
    BY DEF Attempted
  <1> QED
    BY <1>2, <1>3 DEF Leaves, SendersOK

(* SendersOK is inductive, TypeOK with it.                                 *)
Typed == TypeOK /\ SendersOK

LEMMA InitTyped == Init => Typed
  <1> SUFFICES ASSUME Init PROVE Typed
    OBVIOUS
  <1>1. pool \in Seq(Conns) /\ Len(pool) <= PoolSize
    BY MailerAssumption DEF Init
  <1>2. sender \in [Senders -> SenderState]
    BY DEF Init, SenderState, Steps, Remaining
  <1>3. \A s \in Senders : SenderOK(s)
    BY DEF Init, SenderOK, SmtpSteps
  <1> QED
    BY <1>1, <1>2, <1>3 DEF Init, Typed, TypeOK, SendersOK, ConnStates

LEMMA PoolTyped == Typed /\ (FillPool \/ SetPool) => Typed'
  <1> SUFFICES ASSUME Typed, FillPool \/ SetPool PROVE Typed'
    OBVIOUS
  <1>1. sender' = sender /\ copies' = copies /\ unheard' = unheard
    BY DEF FillPool, SetPool, ghosts, sends
  <1>2. SendersOK'
    BY <1>1 DEF Typed, SendersOK, SenderOK, Current
  <1>3. Pooled \subseteq Conns
    BY DEF Typed, TypeOK, Pooled
  <1>4. CASE FillPool
    <2>1. CASE pool' = <<>>
      BY <1>1, <1>2, <1>3, <1>4, <2>1, MailerAssumption
         DEF FillPool, Typed, TypeOK, ConnStates
    <2>2. ASSUME NEW c \in Conns, conn' = [conn EXCEPT ![c] = "ready"],
                 pool' = Append(pool, c), UNCHANGED <<smtpPool, stray>>
          PROVE  Typed'
      <3>1. pool' \in Seq(Conns) /\ Len(pool') <= PoolSize
        BY <1>4, <2>2, MailerAssumption DEF FillPool, Typed, TypeOK
      <3> QED
        BY <1>1, <1>2, <2>2, <3>1 DEF Typed, TypeOK, ConnStates
    <2> QED
      BY <1>4, <2>1, <2>2 DEF FillPool
  <1>5. CASE SetPool
    BY <1>1, <1>2, <1>5 DEF SetPool, Typed, TypeOK, ghosts, sends
  <1> QED
    BY <1>4, <1>5

LEMMA SenderTyped ==
    ASSUME Typed, NEW s \in Senders, SenderStep(s)
    PROVE  Typed'
  <1> USE DEF Typed, TypeOK
  <1>0. /\ sender[s].conn \in Conns \cup {NoConn} /\ sender[s].err \in BOOLEAN
        /\ sender[s].left \in Remaining /\ sender[s].at \in Steps
        /\ SenderOK(s) /\ NoConn \notin Conns
    BY MailerAssumption DEF SendersOK, SenderState
  <1>t. SendersOK' => sender' \in [Senders -> SenderState]
    BY DEF SendersOK
  <1>1. CASE Begin(s)
    <2>1. SendersOK'
      BY <1>1, LeavesOK, ChainFacts DEF Begin
    <2> QED
      BY <1>1, <2>1, <1>t DEF Begin
  <1>2. CASE CallApi(s)
    <2>1. SendersOK'
      BY <1>2, AttemptedOK DEF CallApi
    <2>2. PICK accepted \in BOOLEAN :
            copies' = [copies EXCEPT ![s] = IF accepted THEN copies[s] + 1 ELSE copies[s]]
      BY <1>2 DEF CallApi
    <2>3. copies' \in [Senders -> Nat]
      BY <2>2
    <2>4. unheard' \subseteq Senders
      BY <1>2 DEF CallApi
    <2> QED
      BY <1>2, <2>1, <2>3, <2>4, <1>t DEF CallApi
  <1>3. CASE NoPool(s)
    <2>1. SendersOK'
      BY <1>3, AttemptedOK DEF NoPool
    <2> QED
      BY <1>3, <2>1, <1>t DEF NoPool, ghosts, sends
  <1>4. CASE TakePooled(s)
    <2>1. Head(pool) \in Conns /\ Tail(pool) \in Seq(Conns) /\ Len(Tail(pool)) <= PoolSize
      BY <1>4, MailerAssumption DEF TakePooled
    <2>2. SendersOK'
      BY <1>4, <2>1, GoesOK DEF TakePooled, SmtpSteps
    <2> QED
      BY <1>4, <2>1, <2>2, <1>t DEF TakePooled, ghosts, sends
  <1>5. CASE Connect(s)
    <2>1. SendersOK'
      BY <1>5, GoesOK, AttemptedOK DEF Connect, SmtpSteps
    <2>2. conn' \in [Conns -> ConnStates]
      BY <1>5 DEF Connect, ConnStates
    <2> QED
      BY <1>5, <2>1, <2>2, <1>t DEF Connect, ghosts, sends
  <1>6. CASE Mail(s)
    <2>1. SendersOK'
      BY <1>6, <1>0, GoesOK DEF Mail, SmtpSteps, SenderOK, At
    <2>2. conn' \in [Conns -> ConnStates]
      BY <1>6 DEF Mail, ConnStates
    <2> QED
      BY <1>6, <2>1, <2>2, <1>t DEF Mail, ghosts, sends
  <1>7. CASE Rcpt(s) \/ Data(s)
    <2>1. SendersOK'
      BY <1>7, <1>0, GoesOK DEF Rcpt, Data, Command, SmtpSteps, SenderOK, At
    <2> QED
      BY <1>7, <2>1, <1>t DEF Rcpt, Data, Command, ghosts, sends
  <1>8. CASE WriteAndClose(s)
    <2>1. SendersOK'
      BY <1>8, <1>0, GoesOK DEF WriteAndClose, SmtpSteps, SenderOK, At
    <2>2. conn' \in [Conns -> ConnStates]
      BY <1>8 DEF WriteAndClose, ConnStates
    <2>3. copies' = [copies EXCEPT ![s] = copies[s] + 1] \/ copies' = copies
      BY <1>8 DEF WriteAndClose
    <2>4. copies' \in [Senders -> Nat]
      BY <2>3
    <2> QED
      BY <1>8, <2>1, <2>2, <2>4, <1>t DEF WriteAndClose
  <1>9. CASE Return(s)
    <2>1. SendersOK'
      BY <1>9, <1>0, AttemptedOK DEF Return
    <2>2. sender[s].conn \in Conns
      BY <1>9, <1>0 DEF Return, At, SenderOK, SmtpSteps
    <2>3. CASE Len(pool) < PoolSize
      <3>1. pool' = Append(pool, sender[s].conn) /\ conn' = conn
        BY <1>9, <2>3 DEF Return
      <3>2. pool' \in Seq(Conns) /\ Len(pool') <= PoolSize
        BY <3>1, <2>2, <2>3, MailerAssumption
      <3> QED
        BY <1>9, <2>1, <3>1, <3>2, <1>t DEF Return, ghosts, sends
    <2>4. CASE ~(Len(pool) < PoolSize)
      <3>1. pool' = pool /\ conn' \in [Conns -> ConnStates]
        BY <1>9, <2>4 DEF Return, ConnStates
      <3> QED
        BY <1>9, <2>1, <3>1, <1>t DEF Return, ghosts, sends
    <2> QED
      BY <2>3, <2>4
  <1> QED
    BY <1>1, <1>2, <1>3, <1>4, <1>5, <1>6, <1>7, <1>8, <1>9 DEF SenderStep

LEMMA NextTyped == Typed /\ [Next]_vars => Typed'
  <1> SUFFICES ASSUME Typed, [Next]_vars PROVE Typed'
    OBVIOUS
  <1>1. ASSUME NEW c \in Conns, Break(c) PROVE Typed'
    BY <1>1 DEF Break, Typed, TypeOK, ConnStates, SendersOK, SenderOK, Current, ghosts, sends
  <1>2. CASE UNCHANGED vars
    BY <1>2 DEF vars, Typed, TypeOK, SendersOK, SenderOK, Current
  <1> QED
    BY <1>1, <1>2, PoolTyped, SenderTyped DEF Next

(* Type correctness: TypeOK, with the pool's capacity, holds in every      *)
(* reachable state.                                                        *)
THEOREM TypeCorrect == Spec => []TypeOK
  <1>1. Spec => []Typed
    BY InitTyped, NextTyped, PTL DEF Spec
  <1> QED
    BY <1>1, PTL DEF Typed

-----------------------------------------------------------------------------
(* The connections.                                                        *)

Accounted == Typed /\ ConnsAccounted

(* Steps that leave every connection where it is.                          *)
LEMMA AccountedStays ==
    ASSUME Accounted, Typed', pool' = pool,
           \A s \in Senders : sender'[s].conn = sender[s].conn,
           \A c \in Conns : conn'[c] = "none" <=> conn[c] = "none",
           smtpPool' = smtpPool, stray' = stray
    PROVE  ConnsAccounted'
  <1>1. Held' = Held /\ Pooled' = Pooled
    BY DEF Held, Pooled
  <1>2. {c \in Conns : conn'[c] # "none"} = {c \in Conns : conn[c] # "none"}
    OBVIOUS
  <1> QED
    BY <1>1, <1>2 DEF Accounted, ConnsAccounted

(* Steps of a sender that holds no connection before or after.             *)
LEMMA AccountedWithout ==
    ASSUME Accounted, Typed', NEW s \in Senders, pool' = pool, conn' = conn,
           smtpPool' = smtpPool, stray' = stray,
           sender[s].conn = NoConn, sender'[s].conn = NoConn,
           \A t \in Senders \ {s} : sender'[t] = sender[t]
    PROVE  ConnsAccounted'
  <1>1. \A t \in Senders : sender'[t].conn = sender[t].conn
    OBVIOUS
  <1> QED
    BY <1>1, AccountedStays

(* What a sender holds after it has taken or let go of a connection.       *)
LEMMA HeldTaken ==
    ASSUME NEW s \in Senders, NEW c \in Conns, NoConn \notin Conns,
           sender[s].conn = NoConn, sender'[s].conn = c,
           \A t \in Senders \ {s} : sender'[t] = sender[t]
    PROVE  Held' = Held \cup {c}
  BY DEF Held

LEMMA HeldLet ==
    ASSUME Accounted, NEW s \in Senders, sender[s].conn # NoConn,
           sender'[s].conn = NoConn,
           \A t \in Senders \ {s} : sender'[t] = sender[t]
    PROVE  Held' = Held \ {sender[s].conn}
  <1>1. \A t \in Senders \ {s} : sender[t].conn # sender[s].conn
    BY DEF Accounted, ConnsAccounted
  <1> QED
    BY <1>1 DEF Held

LEMMA InitAccounted == Init => ConnsAccounted
  <1> SUFFICES ASSUME Init PROVE ConnsAccounted
    OBVIOUS
  <1>1. Held = {} /\ Pooled = {}
    BY DEF Init, Held, Pooled
  <1> QED
    BY <1>1 DEF Init, ConnsAccounted

(* The pool holds no more connections than it has places taken.            *)
LEMMA PooledBound ==
    ASSUME Typed, Len(pool) < PoolSize
    PROVE  Cardinality(Pooled) < PoolSize
  <1>1. /\ Len(pool) \in Nat /\ PoolSize \in Nat
        /\ DOMAIN pool = 1 .. Len(pool)
        /\ pool \in [1 .. Len(pool) -> Pooled]
    BY MailerAssumption DEF Typed, TypeOK, Pooled
  <1>2. pool \in Surjection(1 .. Len(pool), Pooled)
    BY <1>1 DEF Surjection, Pooled
  <1>3. ExistsSurjection(1 .. Len(pool), Pooled)
    BY <1>2 DEF ExistsSurjection
  <1>4. Cardinality(Pooled) <= Len(pool) /\ IsFiniteSet(Pooled)
    BY <1>1, <1>3, FS_SurjCardinalityBound, FS_NatSurjection
  <1>5. Cardinality(Pooled) \in Nat
    BY <1>4, FS_CardinalityType
  <1> QED
    BY <1>1, <1>4, <1>5

LEMMA PoolAccounted ==
    ASSUME Accounted, Typed', FillPool \/ SetPool
    PROVE  ConnsAccounted'
  <1>1. Held' = Held /\ sender' = sender /\ stray = {}
    BY DEF FillPool, SetPool, Held, ghosts, Accounted, ConnsAccounted
  <1>2. CASE SetPool
    <2>1. Pooled' = Pooled /\ conn' = conn /\ stray' = stray /\ pool' = pool
      BY <1>2 DEF SetPool, Pooled, ghosts
    <2> QED
      BY <1>1, <2>1 DEF Accounted, ConnsAccounted
  <1>3. CASE FillPool /\ pool' = <<>> /\ stray' = Pooled /\ conn' = conn
             /\ smtpPool' = "nil"
    <2>1. Pooled' = {}
      BY <1>3 DEF Pooled
    <2>2. Cardinality(stray') < PoolSize
      BY <1>3, PooledBound DEF FillPool, Accounted
    <2> QED
      BY <1>1, <1>3, <2>1, <2>2 DEF Accounted, ConnsAccounted
  <1>4. ASSUME NEW c \in Conns, conn[c] = "none",
               conn' = [conn EXCEPT ![c] = "ready"], pool' = Append(pool, c),
               UNCHANGED <<smtpPool, stray>>
        PROVE  ConnsAccounted'
    <2>1. c \notin Pooled /\ c \notin Held
      BY <1>4 DEF Accounted, ConnsAccounted
    <2>2. /\ pool \in Seq(Conns) /\ Injective(pool) /\ Values(pool) = Pooled
          /\ Values(pool') = Pooled'
      BY DEF Accounted, Typed, TypeOK, ConnsAccounted, Injective, Values, Pooled
    <2>3. Injective(pool') /\ Pooled' = Pooled \cup {c}
      BY <1>4, <2>1, <2>2, AppendValues
    <2>4. {x \in Conns : conn'[x] # "none"} =
          {x \in Conns : conn[x] # "none"} \cup {c}
      BY <1>4 DEF Accounted, Typed, TypeOK
    <2> QED
      BY <1>1, <1>4, <2>1, <2>3, <2>4 DEF Accounted, ConnsAccounted, Injective
  <1> QED
    BY <1>2, <1>3, <1>4 DEF FillPool

LEMMA SenderAccounted ==
    ASSUME Accounted, Typed', NEW s \in Senders, SenderStep(s)
    PROVE  ConnsAccounted'
  <1>0. /\ NoConn \notin Conns /\ SenderOK(s)
        /\ sender \in [Senders -> SenderState] /\ pool \in Seq(Conns)
        /\ conn \in [Conns -> ConnStates]
        /\ sender[s].conn \in Conns \cup {NoConn}
        /\ stray' = stray /\ smtpPool' = smtpPool
    BY MailerAssumption
       DEF Accounted, Typed, SendersOK, SenderState, TypeOK, SenderStep, Begin,
           CallApi, NoPool, TakePooled, Connect, Mail, Rcpt, Data, Command,
           WriteAndClose, Return, ghosts
  <1>1. CASE Begin(s) \/ CallApi(s) \/ NoPool(s)
    <2>1. sender[s].conn = NoConn
      BY <1>1, <1>0 DEF Begin, CallApi, NoPool, SenderOK, At, SmtpSteps
    <2>2. /\ sender'[s].conn = NoConn
          /\ \A t \in Senders \ {s} : sender'[t] = sender[t]
      BY <1>1, <1>0 DEF Begin, CallApi, NoPool, Attempted, Leaves
    <2>3. pool' = pool /\ conn' = conn
      BY <1>1 DEF Begin, CallApi, NoPool
    <2> QED
      BY <2>1, <2>2, <2>3, <1>0, AccountedWithout
  <1>2. CASE TakePooled(s)
    <2> DEFINE c == Head(pool)
    <2>1. /\ Injective(pool) /\ Values(pool) = Pooled
      BY DEF Accounted, ConnsAccounted, Injective, Values, Pooled
    <2>2. /\ c \in Pooled /\ c \in Conns
          /\ pool' = Tail(pool) /\ conn' = conn
          /\ Pooled' = Pooled \ {c} /\ Injective(pool')
      <3>1. pool # <<>> /\ pool' = Tail(pool) /\ conn' = conn
        BY <1>2 DEF TakePooled
      <3>2. Values(pool') = Pooled'
        BY DEF Values, Pooled
      <3> QED
        BY <1>0, <2>1, <3>1, <3>2, TailValues
    <2>3. /\ sender[s].conn = NoConn /\ sender'[s].conn = c
          /\ \A t \in Senders \ {s} : sender'[t] = sender[t]
      BY <1>2, <1>0 DEF TakePooled, Goes, SenderOK, At, SmtpSteps
    <2> HIDE DEF c
    <2>4. Held' = Held \cup {c}
      BY <2>2, <2>3, <1>0, HeldTaken
    <2>5. c \notin Held
      BY <2>2 DEF Accounted, ConnsAccounted
    <2>6. \A t \in Senders \ {s} : sender'[t].conn # c
      BY <2>3, <2>5, <2>2, <1>0 DEF Held
    <2> QED
      BY <2>2, <2>3, <2>4, <2>5, <2>6, <1>0 DEF Accounted, ConnsAccounted, Injective
  <1>3. CASE Connect(s)
    <2>1. sender[s].conn = NoConn /\ pool' = pool
      BY <1>3, <1>0 DEF Connect, SenderOK, At, SmtpSteps
    <2>2. CASE Attempted(s, TRUE) /\ UNCHANGED conn
      <3>1. /\ sender'[s].conn = NoConn
            /\ \A t \in Senders \ {s} : sender'[t] = sender[t]
        BY <2>2, <1>0 DEF Attempted, Leaves
      <3> QED
        BY <2>1, <2>2, <3>1, <1>0, AccountedWithout
    <2>3. ASSUME NEW c \in Conns, conn[c] = "none",
                 conn' = [conn EXCEPT ![c] = "ready"], Goes(s, "taken", c, FALSE)
          PROVE  ConnsAccounted'
      <3>1. /\ sender'[s].conn = c
            /\ \A t \in Senders \ {s} : sender'[t] = sender[t]
        BY <2>3, <1>0 DEF Goes
      <3>2. Held' = Held \cup {c} /\ Pooled' = Pooled
        BY <2>1, <3>1, <1>0, HeldTaken DEF Pooled
      <3>3. c \notin Pooled /\ c \notin Held
        BY <2>3 DEF Accounted, ConnsAccounted
      <3>4. {x \in Conns : conn'[x] # "none"} =
            {x \in Conns : conn[x] # "none"} \cup {c}
        BY <2>3, <1>0
      <3>5. \A t \in Senders \ {s} : sender'[t].conn # c
        BY <3>1, <3>3, <1>0 DEF Held
      <3>6. c \notin stray
        BY <2>3 DEF Accounted, ConnsAccounted
      <3> QED
        BY <2>1, <3>1, <3>2, <3>3, <3>4, <3>5, <3>6, <1>0
           DEF Accounted, ConnsAccounted
    <2> QED
      BY <1>3, <2>2, <2>3 DEF Connect
  <1>4. CASE Mail(s) \/ Rcpt(s) \/ Data(s) \/ WriteAndClose(s)
    <2>1. /\ pool' = pool
          /\ \A t \in Senders : sender'[t].conn = sender[t].conn
      BY <1>4, <1>0
         DEF Mail, Rcpt, Data, Command, WriteAndClose, Goes
    <2>2. \A c \in Conns : conn'[c] = "none" <=> conn[c] = "none"
      BY <1>4, <1>0 DEF Mail, Rcpt, Data, Command, WriteAndClose
    <2> QED
      BY <2>1, <2>2, <1>0, AccountedStays
  <1>5. CASE Return(s)
    <2> DEFINE c == sender[s].conn
    <2>1. c \in Conns /\ c \in Held /\ c \notin Pooled
      BY <1>5, <1>0
         DEF Return, At, SenderOK, SmtpSteps, Held, Accounted, ConnsAccounted
    <2>2. /\ sender'[s].conn = NoConn
          /\ \A t \in Senders \ {s} : sender'[t] = sender[t]
      BY <1>5, <1>0 DEF Return, Attempted, Leaves
    <2>3. Held' = Held \ {c}
      BY <2>1, <2>2, <1>0, HeldLet
    <2>4. \A t, u \in Senders :
            sender'[t].conn = sender'[u].conn /\ t # u => sender'[t].conn = NoConn
      BY <2>2 DEF Accounted, ConnsAccounted
    <2>5. Injective(pool) /\ Values(pool) = Pooled /\ Values(pool') = Pooled'
      BY DEF Accounted, ConnsAccounted, Injective, Values, Pooled
    <2>6. CASE Len(pool) < PoolSize
      <3>1. pool' = Append(pool, c) /\ conn' = conn
        BY <1>5, <2>6 DEF Return
      <3>2. Injective(pool') /\ Pooled' = Pooled \cup {c}
        BY <3>1, <2>1, <2>5, <1>0, AppendValues
      <3> HIDE DEF c
      <3> QED
        BY <2>1, <2>3, <2>4, <3>1, <3>2, <1>0 DEF Accounted, ConnsAccounted, Injective
    <2>7. CASE ~(Len(pool) < PoolSize)
      <3>1. pool' = pool /\ conn' = [conn EXCEPT ![c] = "none"]
        BY <1>5, <2>7 DEF Return
      <3>2. {x \in Conns : conn'[x] # "none"} =
            {x \in Conns : conn[x] # "none"} \ {c}
        BY <3>1, <1>0
      <3>3. Pooled' = Pooled
        BY <3>1 DEF Pooled
      <3> HIDE DEF c
      <3> QED
        BY <2>1, <2>3, <2>4, <3>1, <3>2, <3>3, <1>0 DEF Accounted, ConnsAccounted
    <2> QED
      BY <2>6, <2>7
  <1> QED
    BY <1>1, <1>2, <1>3, <1>4, <1>5 DEF SenderStep

(* No connection is shared, and none is lost but the strays of a failed    *)
(* InitSMTPPool, fewer than a pool: ConnsAccounted is an invariant.        *)
THEOREM NoConnectionLost == Spec => []ConnsAccounted
  <1>1. Init => Accounted
    BY InitTyped, InitAccounted DEF Accounted
  <1>2. ASSUME Accounted, [Next]_vars PROVE Accounted'
    <2>1. Typed'
      BY <1>2, NextTyped DEF Accounted
    <2>2. CASE UNCHANGED vars
      <3>1. /\ pool' = pool /\ sender' = sender /\ conn' = conn
            /\ smtpPool' = smtpPool /\ stray' = stray
        BY <2>2 DEF vars
      <3> QED
        BY <3>1, <2>1, <1>2, AccountedStays DEF Accounted
    <2>3. ASSUME NEW c \in Conns, Break(c) PROVE ConnsAccounted'
      <3>1. /\ pool' = pool /\ sender' = sender
            /\ smtpPool' = smtpPool /\ stray' = stray
            /\ \A x \in Conns : conn'[x] = "none" <=> conn[x] = "none"
        BY <2>3, <1>2 DEF Break, Accounted, Typed, TypeOK, ghosts
      <3> QED
        BY <3>1, <2>1, <1>2, AccountedStays
    <2> QED
      BY <1>2, <2>1, <2>2, <2>3, PoolAccounted, SenderAccounted
         DEF Next, Accounted
  <1> QED
    BY <1>1, <1>2, PTL DEF Spec, Accounted

-----------------------------------------------------------------------------
(* The pool refills.  Every step that takes from the pool adds a sender    *)
(* with a connection, and a sender gives its connection up only to a pool  *)
(* that has room for it, or to one that is full.                           *)

Refilling == Typed /\ PoolRefills

LEMMA HoldersFinite == IsFiniteSet(Holders) /\ Cardinality(Holders) \in Nat
  BY MailerAssumption, FS_Subset, FS_CardinalityType DEF Holders

LEMMA HoldersStay ==
    ASSUME \A t \in Senders : sender'[t].conn = sender[t].conn
    PROVE  Holders' = Holders
  BY DEF Holders

LEMMA OneMoreHolder ==
    ASSUME NEW s \in Senders, sender[s].conn = NoConn, sender'[s].conn # NoConn,
           \A t \in Senders \ {s} : sender'[t].conn = sender[t].conn
    PROVE  Cardinality(Holders') = Cardinality(Holders) + 1
  <1>1. Holders' = Holders \cup {s} /\ s \notin Holders
    BY DEF Holders
  <1> QED
    BY <1>1, HoldersFinite, FS_AddElement

LEMMA OneLessHolder ==
    ASSUME NEW s \in Senders, sender[s].conn # NoConn, sender'[s].conn = NoConn,
           \A t \in Senders \ {s} : sender'[t].conn = sender[t].conn
    PROVE  Cardinality(Holders') = Cardinality(Holders) - 1
  <1>1. Holders' = Holders \ {s} /\ s \in Holders
    BY DEF Holders
  <1> QED
    BY <1>1, HoldersFinite, FS_RemoveElement

LEMMA SenderRefills ==
    ASSUME Refilling, Typed', NEW s \in Senders, SenderStep(s)
    PROVE  PoolRefills'
  <1>0. /\ NoConn \notin Conns /\ SenderOK(s) /\ PoolSize \in Nat
        /\ sender \in [Senders -> SenderState] /\ pool \in Seq(Conns)
        /\ sender[s].conn \in Conns \cup {NoConn}
        /\ Len(pool) \in Nat /\ Cardinality(Holders) \in Nat
    BY MailerAssumption, HoldersFinite
       DEF Refilling, Typed, SendersOK, SenderState, TypeOK
  <1> USE DEF PoolRefills
  <1>1. CASE Begin(s) \/ CallApi(s) \/ NoPool(s)
    <2>1. /\ sender[s].conn = NoConn /\ sender'[s].conn = NoConn
          /\ \A t \in Senders \ {s} : sender'[t] = sender[t]
      BY <1>1, <1>0
         DEF Begin, CallApi, NoPool, Attempted, Leaves, SenderOK, At, SmtpSteps
    <2>2. pool' = pool /\ smtpPool' = smtpPool
      BY <1>1 DEF Begin, CallApi, NoPool
    <2> QED
      BY <2>1, <2>2, HoldersStay DEF Refilling
  <1>2. CASE TakePooled(s)
    <2>1. pool # <<>> /\ pool' = Tail(pool) /\ smtpPool' = smtpPool
      BY <1>2 DEF TakePooled
    <2>2. Head(pool) \in Conns /\ Len(pool') = Len(pool) - 1
      BY <2>1, <1>0
    <2>3. /\ sender[s].conn = NoConn /\ sender'[s].conn # NoConn
          /\ \A t \in Senders \ {s} : sender'[t] = sender[t]
      BY <1>2, <2>2, <1>0 DEF TakePooled, Goes, SenderOK, At, SmtpSteps
    <2>4. Cardinality(Holders') = Cardinality(Holders) + 1
      BY <2>3, OneMoreHolder
    <2> QED
      BY <2>1, <2>2, <2>4, <1>0 DEF Refilling
  <1>3. CASE Connect(s)
    <2>1. /\ sender[s].conn = NoConn /\ pool' = pool /\ smtpPool' = smtpPool
          /\ \A t \in Senders \ {s} : sender'[t] = sender[t]
      BY <1>3, <1>0
         DEF Connect, Goes, Attempted, Leaves, SenderOK, At, SmtpSteps
    <2>2. CASE sender'[s].conn = NoConn
      BY <2>1, <2>2, HoldersStay DEF Refilling
    <2>3. CASE sender'[s].conn # NoConn
      <3>1. Cardinality(Holders') = Cardinality(Holders) + 1
        BY <2>1, <2>3, OneMoreHolder
      <3> QED
        BY <3>1, <2>1, <1>0 DEF Refilling
    <2> QED
      BY <2>2, <2>3
  <1>4. CASE Mail(s) \/ Rcpt(s) \/ Data(s) \/ WriteAndClose(s)
    <2>1. /\ pool' = pool /\ smtpPool' = smtpPool
          /\ \A t \in Senders : sender'[t].conn = sender[t].conn
      BY <1>4, <1>0
         DEF Mail, Rcpt, Data, Command, WriteAndClose, Goes
    <2> QED
      BY <2>1, HoldersStay DEF Refilling
  <1>5. CASE Return(s)
    <2>1. /\ sender[s].conn # NoConn /\ sender'[s].conn = NoConn
          /\ \A t \in Senders \ {s} : sender'[t] = sender[t]
          /\ smtpPool' = smtpPool
      BY <1>5, <1>0
         DEF Return, Attempted, Leaves, SenderOK, At, SmtpSteps
    <2>2. Cardinality(Holders') = Cardinality(Holders) - 1
      BY <2>1, OneLessHolder
    <2>3. Cardinality(Holders') \in Nat
      BY HoldersFinite, <2>1, OneLessHolder, FS_Subset, FS_CardinalityType,
         MailerAssumption DEF Holders
    <2>4. CASE Len(pool) < PoolSize
      <3>1. pool' = Append(pool, sender[s].conn) /\ sender[s].conn \in Conns
        BY <1>5, <2>4, <2>1, <1>0 DEF Return
      <3>2. Len(pool') = Len(pool) + 1
        BY <3>1, <1>0
      <3> QED
        BY <3>2, <2>1, <2>2, <1>0 DEF Refilling
    <2>5. CASE ~(Len(pool) < PoolSize)
      <3>1. pool' = pool
        BY <1>5, <2>5 DEF Return
      <3> QED
        BY <3>1, <2>3, <2>5, <1>0
    <2> QED
      BY <2>4, <2>5
  <1> QED
    BY <1>1, <1>2, <1>3, <1>4, <1>5 DEF SenderStep

(* What is missing from the pool is with senders: PoolRefills is an        *)
(* invariant, so that the pool is full whenever nobody holds a connection, *)
(* whatever has failed before.                                             *)
THEOREM PoolNeverShrinks == Spec => []PoolRefills
  <1>1. Init => Refilling
    BY InitTyped DEF Init, Refilling, PoolRefills
  <1>2. ASSUME Refilling, [Next]_vars PROVE Refilling'
    <2>1. Typed'
      BY <1>2, NextTyped DEF Refilling
    <2>2. CASE UNCHANGED vars \/ \E c \in Conns : Break(c)
      <3>1. pool' = pool /\ sender' = sender /\ smtpPool' = smtpPool
        BY <2>2 DEF vars, Break
      <3> QED
        BY <3>1, <2>1, <1>2, HoldersStay DEF Refilling, PoolRefills
    <2>3. ASSUME NEW s \in Senders, SenderStep(s) PROVE PoolRefills'
      BY <2>3, <2>1, <1>2, SenderRefills
    <2>4. ASSUME FillPool \/ SetPool PROVE PoolRefills'
      <3>1. CASE smtpPool' # "set"
        BY <3>1 DEF PoolRefills
      <3>2. CASE smtpPool' = "set"
        <4>1. pool' = pool /\ sender' = sender /\ Len(pool) = PoolSize
          BY <2>4, <3>2 DEF FillPool, SetPool
        <4>2. Holders' = Holders
          BY <4>1, HoldersStay
        <4> QED
          BY <4>1, <4>2, HoldersFinite, MailerAssumption DEF PoolRefills
      <3> QED
        BY <3>1, <3>2
    <2> QED
      BY <1>2, <2>1, <2>2, <2>3, <2>4 DEF Next, Refilling
  <1> QED
    BY <1>1, <1>2, PTL DEF Spec, Refilling

-----------------------------------------------------------------------------
(* What a send reports.                                                    *)

(* Copies that no caller will hear of: a second one, or one that an error  *)
(* or a further attempt follows.                                           *)
CopyHidden(s) ==
    \/ copies[s] > 1
    \/ copies[s] = 1 /\ (sender[s].at \notin {"idle", "return"} \/ sender[s].err)

Reports(s) ==
    /\ CopyHidden(s) => s \in unheard
    /\ Finished(s) /\ ~sender[s].err /\ copies[s] = 0 => Current(s) = "smtp"

Reporting == Typed /\ \A s \in Senders : Reports(s)

LEMMA ReportsStays ==
    ASSUME NEW s \in Senders, Reports(s), sender'[s] = sender[s],
           copies'[s] = copies[s], s \in unheard => s \in unheard'
    PROVE  Reports(s)'
  BY DEF Reports, CopyHidden, Finished, At, Current

LEMMA OthersStay ==
    ASSUME Typed, NEW s \in Senders, SenderStep(s), NEW t \in Senders \ {s}
    PROVE  /\ sender'[t] = sender[t] /\ copies'[t] = copies[t]
           /\ t \in unheard => t \in unheard'
  <1> USE DEF Typed, TypeOK
  <1>1. CASE Begin(s)
    BY <1>1 DEF Begin, Leaves
  <1>2. CASE CallApi(s)
    <2>1. sender'[t] = sender[t]
      BY <1>2 DEF CallApi, Attempted, Leaves
    <2>2. copies'[t] = copies[t]
      BY <1>2 DEF CallApi
    <2>3. t \in unheard => t \in unheard'
      BY <1>2 DEF CallApi
    <2> QED
      BY <2>1, <2>2, <2>3
  <1>3. CASE NoPool(s) \/ TakePooled(s) \/ Connect(s) \/ Return(s)
    BY <1>3 DEF NoPool, TakePooled, Connect, Return, Attempted, Leaves, Goes, ghosts, sends
  <1>4. CASE Mail(s) \/ Rcpt(s) \/ Data(s)
    BY <1>4 DEF Mail, Rcpt, Data, Command, Goes, ghosts, sends
  <1>5. CASE WriteAndClose(s)
    <2>1. copies' = [copies EXCEPT ![s] = copies[s] + 1] \/ copies' = copies
      BY <1>5 DEF WriteAndClose
    <2> QED
      BY <1>5, <2>1 DEF WriteAndClose, Goes
  <1> QED
    BY <1>1, <1>2, <1>3, <1>4, <1>5 DEF SenderStep

LEMMA SenderReports ==
    ASSUME Typed, Typed', NEW s \in Senders, Reports(s), SenderStep(s)
    PROVE  Reports(s)'
  <1>0. /\ copies[s] \in Nat /\ copies'[s] \in Nat /\ SenderOK(s)
        /\ sender[s] \in SenderState /\ sender[s].err \in BOOLEAN
        /\ sender \in [Senders -> SenderState]
        /\ copies \in [Senders -> Nat]
    BY DEF Typed, TypeOK, SendersOK, SenderState
  <1> USE DEF Reports, CopyHidden, Finished, At, Current
  <1>1. CASE Begin(s)
    <2>1. copies'[s] = 0 /\ sender'[s].at = "next"
      BY <1>1, <1>0 DEF Begin, Leaves
    <2> QED
      BY <2>1
  <1>2. CASE CallApi(s)
    <2>1. PICK accepted \in BOOLEAN, err \in BOOLEAN :
            /\ accepted \/ err
            /\ copies' = [copies EXCEPT ![s] = IF accepted THEN copies[s] + 1 ELSE copies[s]]
            /\ unheard' = IF accepted /\ err THEN unheard \cup {s} ELSE unheard
            /\ Attempted(s, err)
      BY <1>2 DEF CallApi
    <2>2. copies'[s] = IF accepted THEN copies[s] + 1 ELSE copies[s]
      BY <2>1, <1>0
    <2>3. sender[s].at = "next"
      BY <1>2 DEF CallApi
    <2>4. copies[s] > 0 => s \in unheard
      BY <2>3, <1>0
    <2>5. \/ err /\ sender'[s].at = "next"
          \/ sender'[s].at = "idle" /\ sender'[s].err = err
      BY <2>1, <1>0 DEF Attempted, Leaves
    <2>6. s \in unheard => s \in unheard'
      BY <2>1
    <2>7. accepted /\ err => s \in unheard'
      BY <2>1
    <2> QED
      BY <2>1, <2>2, <2>4, <2>5, <2>6, <2>7, <1>0
  <1>3. CASE NoPool(s)
    <2>1. /\ copies' = copies /\ unheard' = unheard /\ sender[s].at = "next"
          /\ \/ sender'[s].at = "next"
             \/ sender'[s].at = "idle" /\ sender'[s].err
      BY <1>3, <1>0 DEF NoPool, Attempted, Leaves, ghosts, sends
    <2> QED
      BY <2>1, <1>0
  <1>4. CASE TakePooled(s)
    <2>1. /\ copies' = copies /\ unheard' = unheard /\ sender[s].at = "next"
          /\ sender'[s].at = "taken"
      BY <1>4, <1>0 DEF TakePooled, Goes, ghosts, sends
    <2> QED
      BY <2>1, <1>0
  <1>5. CASE Connect(s)
    <2>1. /\ copies' = copies /\ unheard' = unheard /\ sender[s].at = "next"
          /\ \/ sender'[s].at \in {"next", "taken"}
             \/ sender'[s].at = "idle" /\ sender'[s].err
      BY <1>5, <1>0 DEF Connect, Attempted, Leaves, Goes, ghosts, sends
    <2> QED
      BY <2>1, <1>0
  <1>6. CASE Mail(s) \/ Rcpt(s) \/ Data(s)
    <2>1. /\ copies' = copies /\ unheard' = unheard
          /\ sender[s].at \notin {"idle", "return"}
          /\ \/ sender'[s].at \in {"mail", "rcpt", "data"}
             \/ sender'[s].at = "return" /\ sender'[s].err
      BY <1>6, <1>0 DEF Mail, Rcpt, Data, Command, Goes, ghosts, sends
    <2> QED
      BY <2>1, <1>0
  <1>7. CASE WriteAndClose(s)
    <2>1. copies' = [copies EXCEPT ![s] = copies[s] + 1] \/ copies' = copies
      BY <1>7 DEF WriteAndClose
    <2>2. copies'[s] \in {copies[s], copies[s] + 1}
      BY <2>1, <1>0
    <2>3. /\ sender[s].at = "data" /\ sender'[s].at = "return"
          /\ unheard' = unheard
          /\ sender'[s].err => copies' = copies
      BY <1>7, <1>0 DEF WriteAndClose, Goes
    <2> QED
      BY <2>2, <2>3, <1>0
  <1>8. CASE Return(s)
    <2>1. /\ copies' = copies /\ unheard' = unheard /\ sender[s].at = "return"
          /\ Attempted(s, sender[s].err)
      BY <1>8 DEF Return, ghosts, sends
    <2>2. sender[s].left[1] = "smtp"
      BY <2>1, <1>0 DEF SenderOK, SmtpSteps
    <2>3. \/ sender'[s].at = "next" /\ sender[s].err
          \/ /\ sender'[s].at = "idle" /\ sender'[s].err = sender[s].err
             /\ sender'[s].left = sender[s].left
      BY <2>1, <1>0 DEF Attempted, Leaves
    <2> QED
      BY <2>1, <2>2, <2>3, <1>0
  <1> QED
    BY <1>1, <1>2, <1>3, <1>4, <1>5, <1>6, <1>7, <1>8 DEF SenderStep

LEMMA ReportingInvariant == Spec => []Reporting
  <1>1. Init => Reporting
    <2>1. Init => \A s \in Senders : Reports(s)
      BY DEF Init, Reports, CopyHidden, Finished, At
    <2> QED
      BY <2>1, InitTyped DEF Reporting
  <1>2. ASSUME Reporting, [Next]_vars PROVE Reporting'
    <2>1. Typed'
      BY <1>2, NextTyped DEF Reporting
    <2>2. CASE UNCHANGED vars
      <3>1. sender' = sender /\ copies' = copies /\ unheard' = unheard
        BY <2>2 DEF vars
      <3> QED
        BY <3>1, <2>1, <1>2, ReportsStays DEF Reporting
    <2>3. ASSUME NEW c \in Conns, Break(c) PROVE Reporting'
      <3>1. sender' = sender /\ copies' = copies /\ unheard' = unheard
        BY <2>3 DEF Break, ghosts, sends
      <3> QED
        BY <3>1, <2>1, <1>2, ReportsStays DEF Reporting
    <2>4. ASSUME FillPool \/ SetPool PROVE Reporting'
      <3>1. sender' = sender /\ copies' = copies /\ unheard' = unheard
        BY <2>4 DEF FillPool, SetPool, ghosts, sends
      <3> QED
        BY <3>1, <2>1, <1>2, ReportsStays DEF Reporting
    <2>5. ASSUME NEW s \in Senders, SenderStep(s) PROVE Reporting'
      <3>1. Reports(s)'
        BY <2>5, <2>1, <1>2, SenderReports DEF Reporting
      <3>2. \A t \in Senders \ {s} : Reports(t)'
        BY <2>5, <1>2, OthersStay, ReportsStays DEF Reporting
      <3> QED
        BY <3>1, <3>2, <2>1 DEF Reporting
    <2> QED
      BY <1>2, <2>2, <2>3, <2>4, <2>5 DEF Next
  <1> QED
    BY <1>1, <1>2, PTL DEF Spec

(* A reported success without a copy can come from SMTP only.              *)
THEOREM SuccessIsReal == Spec => []SuccessMeansCopy
  <1>1. Reporting => SuccessMeansCopy
    BY DEF Reporting, Reports, SuccessMeansCopy
  <1> QED
    BY <1>1, ReportingInvariant, PTL

(* Duplicates of one send, and copies behind a reported failure, only come *)
(* from an accepted request that looked like a failure.                    *)
THEOREM DuplicatesExplained == Spec => []DuplicateOnlyUnheard
  <1>1. Reporting => DuplicateOnlyUnheard
    BY DEF Reporting, Reports, CopyHidden, DuplicateOnlyUnheard, Finished, At
  <1> QED
    BY <1>1, ReportingInvariant, PTL

=============================================================================

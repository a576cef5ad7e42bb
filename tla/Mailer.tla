------------------------------- MODULE Mailer -------------------------------
(***************************************************************************)
(* The mailer of VoidSend (core/mailer/providers.go): workers send through *)
(* SES, SendGrid or a pool of SMTP connections they share, or through the  *)
(* three in turn.  The providers and their networks are outside: a request *)
(* can be accepted or refused, and its answer can be lost; a connection    *)
(* can break at any time, in the pool too.                                 *)
(*                                                                         *)
(* An SMTP connection is "ready" between two transactions and "open" from  *)
(* an accepted MAIL until its transaction ends.  net/smtp sends no RSET    *)
(* before MAIL, and a server refuses MAIL inside a transaction (503).      *)
(***************************************************************************)
EXTENDS Naturals, Sequences, FiniteSets

CONSTANTS Senders,    \* the worker goroutines
          Conns,      \* SMTP connections that can exist at one time
          PoolSize,   \* config.PoolSize
          NoConn      \* the nil *smtp.Client

(* A connection is made for a pool that is not full or by a sender that    *)
(* finds the pool empty: no more can exist than the larger of the two      *)
(* numbers, and a new one is never wanting.                                *)
ASSUME MailerAssumption ==
    /\ NoConn \notin Conns
    /\ PoolSize \in Nat
    /\ IsFiniteSet(Senders) /\ IsFiniteSet(Conns)
    /\ Cardinality(Conns) >= PoolSize
    /\ Cardinality(Conns) >= Cardinality(Senders)

VARIABLES
    smtpPool, \* "nil", "making" while InitSMTPPool is at work, or "set"
    pool,     \* the channel pool.connections
    conn,     \* [Conns -> ConnStates]: what the two ends have come to
    sender,   \* [Senders -> SenderState]
    \* Observations, read by no action:
    copies,   \* [Senders -> Nat]: times the current mail was accepted
    unheard,  \* senders whose current mail was accepted in a request the code
              \* took for a failure
    stray     \* connections that a failed InitSMTPPool has left behind

sends == <<copies, unheard>>
ghosts == <<sends, stray>>
vars == <<smtpPool, pool, conn, sender, copies, unheard, stray>>

Providers == {"ses", "sendgrid", "smtp"}
ConnStates == {"none", "ready", "open", "dead"}
Steps == {"idle", "next", "taken", "mail", "rcpt", "data", "return"}

(* left: the providers still to be tried, the current one first; err: what *)
(* the current attempt, or when idle the whole send, has come to.          *)
Failover == <<"ses", "sendgrid", "smtp">>
Chains == {<<p>> : p \in Providers} \cup {Failover}
Remaining == Chains \cup {<<>>, <<"sendgrid", "smtp">>}
SenderState == [at : Steps, left : Remaining, conn : Conns \cup {NoConn},
                err : BOOLEAN]

Pooled == {pool[i] : i \in DOMAIN pool}
Held   == {sender[s].conn : s \in Senders} \ {NoConn}

(* main has SMTP settings and calls InitSMTPPool, or it has none.          *)
Init ==
    /\ smtpPool \in {"nil", "making"}
    /\ pool = <<>>
    /\ conn = [c \in Conns |-> "none"]
    /\ sender = [s \in Senders |-> [at |-> "idle", left |-> <<>>,
                                    conn |-> NoConn, err |-> FALSE]]
    /\ copies = [s \in Senders |-> 0]
    /\ unheard = {}
    /\ stray = {}

-----------------------------------------------------------------------------
At(s, step) == sender[s].at = step
Current(s)  == Head(sender[s].left)

(* s goes on to a step of SendViaSMTP with connection c and result err.    *)
Goes(s, step, c, err) ==
    sender' = [sender EXCEPT ![s] = [at |-> step, left |-> @.left,
                                     conn |-> c, err |-> err]]

(* s leaves its current provider: on to the next one, or done.             *)
Leaves(s, step, left, err) ==
    sender' = [sender EXCEPT ![s] = [at |-> step, left |-> left,
                                     conn |-> NoConn, err |-> err]]

(* The loop of InitSMTPPool: one more connection, or an error, which       *)
(* initProviders ignores.  The new pool is forgotten then, and nobody      *)
(* closes the connections in it; smtpPool stays nil.                       *)
FillPool ==
    /\ smtpPool = "making"
    /\ Len(pool) < PoolSize
    /\ \/ \E c \in Conns :
            /\ conn[c] = "none"
            /\ conn' = [conn EXCEPT ![c] = "ready"]
            /\ pool' = Append(pool, c)
            /\ UNCHANGED <<smtpPool, stray>>
       \/ /\ smtpPool' = "nil"
          /\ pool' = <<>>
          /\ stray' = Pooled
          /\ UNCHANGED conn
    /\ UNCHANGED <<sender, sends>>

SetPool ==
    /\ smtpPool = "making"
    /\ Len(pool) = PoolSize
    /\ smtpPool' = "set"
    /\ UNCHANGED <<pool, conn, sender, ghosts>>

(* The switch of Worker.process: the job's provider, the one that          *)
(* SelectOptimalProvider finds, or the failover chain for any other name.  *)
(* main starts the workers when InitSMTPPool has returned.                 *)
Begin(s) ==
    /\ At(s, "idle")
    /\ smtpPool # "making"
    /\ \E chain \in Chains : Leaves(s, "next", chain, FALSE)
    /\ copies' = [copies EXCEPT ![s] = 0]
    /\ unheard' = unheard \ {s}
    /\ UNCHANGED <<smtpPool, pool, conn, stray>>

(* Mutant of Attempted: the chain goes on whatever the attempt came to.    *)
AttemptedAll(s, err) ==
    IF Len(sender[s].left) > 1
    THEN Leaves(s, "next", Tail(sender[s].left), FALSE)
    ELSE Leaves(s, "idle", sender[s].left, err)

(* The loop of SendViaFailover (of one turn for a single provider): after  *)
(* a success, or after the last provider, the send is over.                *)
Attempted(s, err) ==
    IF err /\ Len(sender[s].left) > 1
    THEN Leaves(s, "next", Tail(sender[s].left), FALSE)
    ELSE Leaves(s, "idle", sender[s].left, err)

(* Mutant of CallApi: the status of the response is not looked at.         *)
CallApiUnchecked(s) ==
    /\ At(s, "next")
    /\ Current(s) # "smtp"
    /\ \E accepted, err \in BOOLEAN :
         /\ copies' = [copies EXCEPT ![s] = IF accepted THEN @ + 1 ELSE @]
         /\ unheard' = IF accepted /\ err THEN unheard \cup {s} ELSE unheard
         /\ Attempted(s, err)
    /\ UNCHANGED <<smtpPool, pool, conn, stray>>

(* SendViaSES, SendViaSendGrid: one request.  Also when it is accepted the *)
(* code may see an error: a lost answer, or one without a message id.      *)
CallApi(s) ==
    /\ At(s, "next")
    /\ Current(s) # "smtp"
    /\ \E accepted, err \in BOOLEAN :
         /\ accepted \/ err
         /\ copies' = [copies EXCEPT ![s] = IF accepted THEN @ + 1 ELSE @]
         /\ unheard' = IF accepted /\ err THEN unheard \cup {s} ELSE unheard
         /\ Attempted(s, err)
    /\ UNCHANGED <<smtpPool, pool, conn, stray>>

(* SendViaSMTP without a pool.                                             *)
NoPool(s) ==
    /\ At(s, "next")
    /\ Current(s) = "smtp"
    /\ smtpPool = "nil"
    /\ Attempted(s, TRUE)
    /\ UNCHANGED <<smtpPool, pool, conn, ghosts>>

(* Mutant of TakePooled: the connection is lent, not taken.                *)
TakePooledShared(s) ==
    /\ At(s, "next")
    /\ Current(s) = "smtp"
    /\ smtpPool = "set" /\ pool # <<>>
    /\ Goes(s, "taken", Head(pool), FALSE)
    /\ UNCHANGED <<smtpPool, pool, conn, ghosts>>

(* SendViaSMTP takes a connection from the pool ...                        *)
TakePooled(s) ==
    /\ At(s, "next")
    /\ Current(s) = "smtp"
    /\ smtpPool = "set" /\ pool # <<>>
    /\ Goes(s, "taken", Head(pool), FALSE)
    /\ pool' = Tail(pool)
    /\ UNCHANGED <<smtpPool, conn, ghosts>>

(* ... or, when none is there, makes a new one, which may fail.            *)
Connect(s) ==
    /\ At(s, "next")
    /\ Current(s) = "smtp"
    /\ smtpPool = "set" /\ pool = <<>>
    /\ \/ \E c \in Conns :
            /\ conn[c] = "none"
            /\ conn' = [conn EXCEPT ![c] = "ready"]
            /\ Goes(s, "taken", c, FALSE)
       \/ Attempted(s, TRUE) /\ UNCHANGED conn
    /\ UNCHANGED <<smtpPool, pool, ghosts>>

(* client.Mail: accepted only outside a transaction.                       *)
Mail(s) ==
    LET c == sender[s].conn IN
    /\ At(s, "taken")
    /\ \/ /\ conn[c] = "ready"
          /\ conn' = [conn EXCEPT ![c] = "open"]
          /\ Goes(s, "mail", c, FALSE)
       \/ Goes(s, "return", c, TRUE) /\ UNCHANGED conn
    /\ UNCHANGED <<smtpPool, pool, ghosts>>

(* client.Rcpt, client.Data: a refusal leaves the transaction open.        *)
Command(s, from, to) ==
    LET c == sender[s].conn IN
    /\ At(s, from)
    /\ \/ conn[c] = "open" /\ Goes(s, to, c, FALSE)
       \/ Goes(s, "return", c, TRUE)
    /\ UNCHANGED <<smtpPool, pool, conn, ghosts>>

Rcpt(s) == Command(s, "mail", "rcpt")
Data(s) == Command(s, "rcpt", "data")

(* wc.Write and the deferred wc.Close, which sends the final dot, takes    *)
(* the server's answer to the mail and has its error dropped.  On a broken *)
(* connection a mail that fits the write buffer does not fail either.      *)
WriteAndClose(s) ==
    LET c == sender[s].conn IN
    /\ At(s, "data")
    /\ \/ /\ conn[c] = "open"
          /\ conn' = [conn EXCEPT ![c] = "ready"]
          /\ \/ copies' = [copies EXCEPT ![s] = @ + 1]
             \/ UNCHANGED copies
          /\ Goes(s, "return", c, FALSE)
       \/ /\ conn[c] = "dead"
          /\ \E err \in BOOLEAN : Goes(s, "return", c, err)
          /\ UNCHANGED <<conn, copies>>
    /\ UNCHANGED <<smtpPool, pool, unheard, stray>>

(* Mutant of Return: capacity is not looked at.                            *)
ReturnOverfills(s) ==
    /\ At(s, "return")
    /\ pool' = Append(pool, sender[s].conn)
    /\ Attempted(s, sender[s].err)
    /\ UNCHANGED <<smtpPool, conn, ghosts>>

(* Mutant of Return: only a connection that served is put back.            *)
ReturnOnSuccess(s) ==
    LET c == sender[s].conn IN
    /\ At(s, "return")
    /\ IF ~sender[s].err /\ Len(pool) < PoolSize
       THEN pool' = Append(pool, c) /\ UNCHANGED conn
       ELSE conn' = [conn EXCEPT ![c] = "none"] /\ UNCHANGED pool
    /\ Attempted(s, sender[s].err)
    /\ UNCHANGED <<smtpPool, ghosts>>

(* The deferred function: back into the pool whatever has happened to the  *)
(* connection, or closed when the pool is full.                            *)
Return(s) ==
    LET c == sender[s].conn IN
    /\ At(s, "return")
    /\ IF Len(pool) < PoolSize
       THEN pool' = Append(pool, c) /\ UNCHANGED conn
       ELSE conn' = [conn EXCEPT ![c] = "none"] /\ UNCHANGED pool
    /\ Attempted(s, sender[s].err)
    /\ UNCHANGED <<smtpPool, ghosts>>

(* The server, the network or, of a stray one, the garbage collector ends  *)
(* a connection.                                                           *)
Break(c) ==
    /\ conn[c] \in {"ready", "open"}
    /\ conn' = [conn EXCEPT ![c] = "dead"]
    /\ UNCHANGED <<smtpPool, pool, sender, ghosts>>

SenderStep(s) ==
    \/ Begin(s)   \/ CallApi(s) \/ NoPool(s) \/ TakePooled(s)
    \/ Connect(s) \/ Mail(s)    \/ Rcpt(s)   \/ Data(s)
    \/ WriteAndClose(s) \/ Return(s)

Next ==
    \/ FillPool \/ SetPool
    \/ \E s \in Senders : SenderStep(s)
    \/ \E c \in Conns : Break(c)

Spec == Init /\ [][Next]_vars

-----------------------------------------------------------------------------
(* Every variable has its type, and the pool is within its capacity.       *)
TypeOK ==
    /\ smtpPool \in {"nil", "making", "set"}
    /\ pool \in Seq(Conns) /\ Len(pool) <= PoolSize
    /\ conn \in [Conns -> ConnStates]
    /\ sender \in [Senders -> SenderState]
    /\ copies \in [Senders -> Nat]
    /\ unheard \subseteq Senders
    /\ stray \subseteq Conns

(* No connection is shared, and only InitSMTPPool loses any (its error     *)
(* return, providers.go:76-79; the select of SendViaSMTP and its deferred  *)
(* return, :131-148): each one that exists is in one place of the pool,    *)
(* with one sender, or stray.  Strays are fewer than a pool, and where     *)
(* there are some there is no pool: SMTP is out of use, and no send, in    *)
(* whatever way it fails, adds to them.                                    *)
ConnsAccounted ==
    /\ {c \in Conns : conn[c] # "none"} = Pooled \cup Held \cup stray
    /\ Pooled \cap Held = {}
    /\ stray \cap (Pooled \cup Held) = {}
    /\ \A i, k \in DOMAIN pool : pool[i] = pool[k] => i = k
    /\ \A s, t \in Senders :
         sender[s].conn = sender[t].conn /\ s # t => sender[s].conn = NoConn
    /\ stray # {} => smtpPool = "nil" /\ Cardinality(stray) < PoolSize

Holders == {s \in Senders : sender[s].conn # NoConn}

(* The pool refills (providers.go:142-148): what is missing from it is     *)
(* with senders, so that it is full again once nobody sends, failed        *)
(* attempts included.                                                      *)
PoolRefills ==
    smtpPool = "set" => Len(pool) + Cardinality(Holders) >= PoolSize

Finished(s) == At(s, "idle") /\ sender[s].left # <<>>

(* What a finished send reports (providers.go:185-190, 214-227, 311-315):  *)
(* success without a copy is possible over SMTP only, where the answer to  *)
(* the mail is dropped.                                                    *)
SuccessMeansCopy ==
    \A s \in Senders :
      Finished(s) /\ ~sender[s].err /\ copies[s] = 0 => Current(s) = "smtp"

(* The failover of one send makes a second copy only after an accepted     *)
(* request that looked like a failure; the same holds for a failure that   *)
(* has left a copy behind, which a retry would send again.                 *)
DuplicateOnlyUnheard ==
    \A s \in Senders :
      \/ copies[s] > 1
      \/ copies[s] = 1 /\ Finished(s) /\ sender[s].err
      => s \in unheard

=============================================================================

-------------------------------- MODULE Mail --------------------------------
(***************************************************************************)
(* The mail path: api/internal/queue publishes to a durable RabbitMQ       *)
(* queue, cmd/worker consumes it and hands each message to SMTP through    *)
(* api/internal/mailer.                                                    *)
(*                                                                         *)
(* Publish uses no publisher confirms: it returns once the message is on   *)
(* the socket.  The broker delivers up to Prefetch messages ahead of the   *)
(* worker's acknowledgements, and puts what was delivered and not          *)
(* acknowledged back at the head of the queue when the connection dies.    *)
(* The worker is one container with "restart: always"; docker stop is      *)
(* SIGTERM and, a grace period later, SIGKILL.                             *)
(***************************************************************************)
EXTENDS Naturals, SequencesExt

CONSTANTS
    Publishers,     \* queue.AMQP values: sign-up, recovery, e-mail change, invitations
    Messages,       \* one per call of Publish that succeeds
    Unreadable,     \* those whose body is not a mailer.Message
    Prefetch,       \* defaultPrefetch
    MaxFaults,      \* bound: crashes, restarts, lost connections and signals
    None            \* no delivery in hand

ASSUME MailAssumption ==
    /\ Unreadable \subseteq Messages
    /\ Prefetch \in Nat \ {0}
    /\ MaxFaults \in Nat
    /\ None \notin Messages

VARIABLES
    handle,     \* a publisher's connection: none, open, or stale and not known to be
    accepted,   \* messages whose Publish returned nil
    wire,       \* published on the connection, not yet at the broker
    queue,      \* the durable queue
    buffer,     \* deliveries the worker has received and not taken
    linked,     \* the worker's connection is alive
    worker,     \* where the worker stands
    current,    \* the delivery handleDelivery has in hand
    ctx,        \* the state of the context given to Send
    term,       \* the worker has been sent SIGTERM
    mailed,     \* how often the SMTP server accepted each message
    lost,       \* refused by the worker, or lost with a connection
    faults

api    == <<handle, accepted>>
broker == <<wire, queue>>
link   == <<buffer, linked>>
proc   == <<worker, current, ctx, term>>
fate   == <<mailed, lost>>
vars   == <<api, broker, link, proc, fate, faults>>

TypeOK ==
    /\ handle \in [Publishers -> {"none", "open", "stale"}]
    /\ accepted \subseteq Messages
    /\ DOMAIN wire = Publishers
    /\ \A s \in {wire[p] : p \in Publishers} \cup {queue, buffer} :
        s \in Seq(Messages) /\ IsInjective(s)
    /\ Len(buffer) <= Prefetch
    /\ linked \in BOOLEAN
    /\ worker \in {"down", "listening", "handling", "dialed", "mailed"}
    /\ current \in Messages \cup {None}
    /\ ctx \in {"running", "draining", "late"}
    /\ term \in BOOLEAN
    /\ mailed \in [Messages -> Nat]
    /\ lost \subseteq accepted
    /\ faults \in 0..MaxFaults
    /\ worker \in {"down", "listening"} <=> current = None

Init ==
    /\ handle = [p \in Publishers |-> "none"]
    /\ accepted = {}
    /\ wire = [p \in Publishers |-> <<>>]
    /\ queue = <<>>
    /\ buffer = <<>>
    /\ linked = FALSE
    /\ worker = "down"
    /\ current = None
    /\ ctx = "running"
    /\ term = FALSE
    /\ mailed = [m \in Messages |-> 0]
    /\ lost = {}
    /\ faults = 0

Fault == faults < MaxFaults /\ faults' = faults + 1

----------------------------------------------------------------------------
(* The publishers; the mutex of each admits one Publish at a time. *)

\* channel() takes the connection it knows to be good, or dials.
OpenChannel(p) ==
    /\ handle[p] # "stale"
    /\ handle' = [handle EXCEPT ![p] = "open"]

\* The queue is declared, and the message is written to the socket.
Publish(p, m) ==
    /\ m \notin accepted
    /\ OpenChannel(p)
    /\ accepted' = accepted \cup {m}
    /\ wire' = [wire EXCEPT ![p] = Append(@, m)]
    /\ UNCHANGED <<queue, link, proc, fate, faults>>

\* Declaring the queue over a dead connection fails; reset() forgets it.
PublishFails(p) ==
    /\ handle[p] = "stale"
    /\ handle' = [handle EXCEPT ![p] = "none"]
    /\ UNCHANGED <<accepted, broker, link, proc, fate, faults>>

\* The broker reads and stores the next message of a connection.
Enqueue(p) ==
    /\ wire[p] # <<>>
    /\ queue' = Append(queue, Head(wire[p]))
    /\ wire' = [wire EXCEPT ![p] = Tail(@)]
    /\ UNCHANGED <<api, link, proc, fate, faults>>

OnTheWire(P) == UNION {ToSet(wire[p]) : p \in P}

\* What is on the sockets goes with the connections, and a client may or may
\* not have noticed by the time of its next Publish.
LoseWire(P) ==
    /\ lost' = lost \cup OnTheWire(P)
    /\ wire' = [p \in Publishers |-> IF p \in P THEN <<>> ELSE wire[p]]
    /\ \E noticed \in SUBSET P :
        handle' = [p \in Publishers |->
            CASE p \in noticed -> "none"
              [] p \in P \ noticed /\ handle[p] = "open" -> "stale"
              [] OTHER -> handle[p]]

PublisherDisconnects(p) ==
    /\ handle[p] = "open"
    /\ Fault
    /\ LoseWire({p})
    /\ UNCHANGED <<accepted, queue, link, proc, mailed>>

----------------------------------------------------------------------------
(* Delivery *)

InHand == IF current = None THEN <<>> ELSE <<current>>

\* What the broker has delivered on the worker's connection and has no answer for.
Unacked == IF linked THEN InHand \o buffer ELSE <<>>

\* Mutant: the broker delivers without a prefetch limit, channel.Qos not being called.
DeliverAll ==
    /\ linked
    /\ queue # <<>>
    /\ buffer' = Append(buffer, Head(queue))
    /\ queue' = Tail(queue)
    /\ UNCHANGED <<api, wire, linked, proc, fate, faults>>

Deliver ==
    /\ linked
    /\ queue # <<>>
    /\ Len(Unacked) < Prefetch
    /\ buffer' = Append(buffer, Head(queue))
    /\ queue' = Tail(queue)
    /\ UNCHANGED <<api, wire, linked, proc, fate, faults>>

----------------------------------------------------------------------------
(* The worker *)

\* run: dial, open a channel, declare the queue, set the prefetch, consume.
Start ==
    /\ worker = "down"
    /\ worker' = "listening"
    /\ linked' = TRUE
    /\ UNCHANGED <<api, broker, buffer, current, ctx, term, fate, faults>>

\* select picks a delivery, even when the context is done as well; so does the
\* loop that drains.
Take ==
    /\ worker = "listening"
    /\ buffer # <<>>
    /\ worker' = "handling"
    /\ current' = Head(buffer)
    /\ buffer' = Tail(buffer)
    /\ UNCHANGED <<api, broker, linked, ctx, term, fate, faults>>

\* The other branch of select: handleDelivery now ranges over every delivery,
\* under a context that ends with shutdownTimeout.
Drain ==
    /\ worker = "listening"
    /\ term
    /\ ctx = "running"
    /\ ctx' = "draining"
    /\ UNCHANGED <<api, broker, link, worker, current, term, fate, faults>>

TimeoutPasses ==
    /\ ctx = "draining"
    /\ ctx' = "late"
    /\ UNCHANGED <<api, broker, link, worker, current, term, fate, faults>>

\* The loop goes on with the next delivery.
Done ==
    /\ worker' = "listening"
    /\ current' = None
    /\ UNCHANGED <<api, broker, link, ctx, term, faults>>

\* Mutant: a failed send is put back, as the comment in handleDelivery warns against.
NackRequeues ==
    /\ lost' = lost
    /\ queue' = IF linked THEN <<current>> \o queue ELSE queue
    /\ worker' = "listening"
    /\ current' = None
    /\ UNCHANGED <<api, wire, link, ctx, term, faults, mailed>>

\* Nack(false, false): the broker discards the delivery.  Over a dead
\* connection the call fails, the error is ignored, and the message, back in
\* the queue, is not discarded.
Nack ==
    /\ lost' = IF linked THEN lost \cup {current} ELSE lost
    /\ Done
    /\ UNCHANGED mailed

DropUnreadable ==
    /\ worker = "handling"
    /\ current \in Unreadable
    /\ Nack

\* Mutant: Send goes on with an SMTP session it has already finished.
DialKeepsStage ==
    /\ worker \in {"handling", "mailed"}
    /\ current \notin Unreadable
    /\ worker' = "dialed"
    /\ UNCHANGED <<api, broker, link, current, ctx, term, fate, faults>>

\* Send connects, if its context still allows: a SIGTERM ends the context of
\* the main loop, the timeout that of the draining loop.
Dial ==
    /\ worker = "handling"
    /\ current \notin Unreadable
    /\ ctx = "draining" \/ (ctx = "running" /\ ~term)
    /\ worker' = "dialed"
    /\ UNCHANGED <<api, broker, link, current, ctx, term, fate, faults>>

\* The dial fails or is cancelled, or the server refuses the message.
SendFails ==
    /\ worker \in {"handling", "dialed"}
    /\ current \notin Unreadable
    /\ Nack

\* The server accepts the body.
SendOK ==
    /\ worker = "dialed"
    /\ worker' = "mailed"
    /\ mailed' = [mailed EXCEPT ![current] = @ + 1]
    /\ UNCHANGED <<api, broker, link, current, ctx, term, lost, faults>>

\* Quit fails after the message was accepted: Send reports a failure.
QuitFails ==
    /\ worker = "mailed"
    /\ Nack

\* Mutant: the delivery is acknowledged before it is sent.
AckEarly ==
    /\ worker \in {"handling", "mailed"}
    /\ Done
    /\ UNCHANGED fate

\* Ack(false): over a dead connection it fails and the error is ignored.
Ack ==
    /\ worker = "mailed"
    /\ Done
    /\ UNCHANGED fate

----------------------------------------------------------------------------
(* Faults *)

\* The broker puts what was not acknowledged back where it was.
Requeue == queue' = Unacked \o queue

\* The process is gone, its connection and the deliveries in it as well.
Vanish ==
    /\ worker' = "down"
    /\ current' = None
    /\ ctx' = "running"
    /\ term' = FALSE
    /\ buffer' = <<>>
    /\ linked' = FALSE
    /\ Requeue
    /\ UNCHANGED <<api, wire, fate>>

Crash ==
    /\ worker # "down"
    /\ Fault
    /\ Vanish

\* docker stop; a second signal changes nothing.
Terminate ==
    /\ worker # "down"
    /\ ~term
    /\ Fault
    /\ term' = TRUE
    /\ UNCHANGED <<api, broker, link, worker, current, ctx, fate>>

\* SIGKILL after the grace period.  It is what ends a worker that was told to
\* stop: the draining loop ranges over a channel nobody closes.
GraceOver ==
    /\ term
    /\ Vanish
    /\ UNCHANGED faults

\* A message the broker has accepted survives, what is on a socket does not.
\* The worker keeps what it has in hand, and its buffer until it notices.
BrokerRestart ==
    /\ Fault
    /\ LoseWire(Publishers)
    /\ Requeue
    /\ linked' = FALSE
    /\ UNCHANGED <<accepted, buffer, proc, mailed>>

\* The delivery channel is closed: run returns, or the draining loop ends.
Closed ==
    /\ worker = "listening"
    /\ ~linked
    /\ Vanish
    /\ UNCHANGED faults

Smtp == Dial \/ SendOK \/ SendFails \/ QuitFails

Next ==
    \/ \E p \in Publishers :
        \/ \E m \in Messages : Publish(p, m)
        \/ PublishFails(p) \/ Enqueue(p) \/ PublisherDisconnects(p)
    \/ Deliver \/ Start \/ Take \/ Drain \/ TimeoutPasses
    \/ DropUnreadable \/ Smtp \/ Ack
    \/ Crash \/ Terminate \/ GraceOver \/ BrokerRestart \/ Closed

Spec == Init /\ [][Next]_vars

\* The broker and the worker keep going, the worker is restarted, and the SMTP
\* server answers, well or badly.
Fairness ==
    /\ \A p \in Publishers : WF_vars(Enqueue(p))
    /\ WF_vars(Deliver)
    /\ WF_vars(Start) /\ WF_vars(Take) /\ WF_vars(Closed)
    /\ WF_vars(DropUnreadable) /\ WF_vars(Smtp) /\ WF_vars(Ack \/ QuitFails)

FairSpec == Spec /\ Fairness

----------------------------------------------------------------------------
(* Properties *)

\* A message is mailed at most once more than there were crashes, broker
\* restarts and signals: only a lost connection makes the broker deliver again,
\* and the worker never sends one delivery twice.
DuplicatesBounded == \A m \in Messages : mailed[m] <= 1 + faults

\* Messages on a socket, in the queue or with a worker whose connection is alive.
Waiting == OnTheWire(Publishers) \cup ToSet(queue) \cup ToSet(Unacked)

\* The queue, the connection and the worker implement the channel: a message
\* leaves only after it was mailed or when it is given up, whatever dies in
\* between, and is not mailed again once it has left.
Channel ==
    INSTANCE MailChannel WITH
        waiting <- Waiting,
        mailed <- {m \in Messages : mailed[m] > 0}

ImplementsMailChannel == Channel!Spec

\* A message that Publish accepted is somewhere on its way until it was mailed or is lost, and
\* what is lost is no longer anywhere.
NothingForgotten ==
    /\ accepted \subseteq Waiting \cup lost \cup {m \in Messages : mailed[m] > 0}
    /\ lost \cap Waiting = {}

\* Whatever Publish accepted is mailed or given up in the end: no delivery is
\* forgotten by the broker or stuck in a worker that died, was told to stop or
\* lost its connection.
EverythingSettles ==
    \A m \in Messages : m \in accepted ~> (mailed[m] > 0 \/ m \in lost)

\* What the worker has received, over a connection that may be dead by now.
Held == ToSet(buffer) \cup ({current} \ {None})

\* No message is in two places, or lost and in one, except that what was delivered over a
\* connection that died is back in the queue.
MessagesKept ==
    /\ \A p \in Publishers :
        /\ ToSet(wire[p]) \subseteq accepted \ (lost \cup ToSet(queue) \cup Held)
        /\ \A q \in Publishers \ {p} : ToSet(wire[p]) \cap ToSet(wire[q]) = {}
    /\ ToSet(queue) \cup Held \subseteq accepted \ lost
    /\ current \notin ToSet(buffer)
    /\ linked => ToSet(queue) \cap Held = {}
    /\ ~linked => Held \subseteq ToSet(queue)

WorkerFollowsStages ==
    /\ worker = "down" => buffer = <<>> /\ ~linked /\ ~term
    /\ worker = "mailed" => mailed[current] > 0
    /\ term => faults > 0
    /\ \A m \in Messages : mailed[m] > 0 => m \in accepted

\* How often a waiting message can be mailed before the next fault: once, unless it has been,
\* and once more out of a worker that will be killed or whose connection is dead.
Owed(m) ==
    CASE m \notin Waiting -> 0
      [] m \in Waiting /\ linked ->
            (IF current = m /\ worker = "mailed" THEN 0 ELSE 1) + (IF term THEN 1 ELSE 0)
      [] m \in Waiting /\ ~linked ->
            1 + (IF m \in Held /\ ~(current = m /\ worker = "mailed") THEN 1 ELSE 0)

MailsCounted == \A m \in Messages : mailed[m] + Owed(m) <= 1 + faults

\* The inductive invariant.
IInv == TypeOK /\ MessagesKept /\ WorkerFollowsStages /\ MailsCounted

============================================================================

--------------------------- MODULE ClientContext ---------------------------
(***************************************************************************)
(* One TCP connection of the actuator board, between the sketch and lwIP:  *)
(* ClientContext, DataSource.h and the WiFiClient around them              *)
(* (Arduino/libraries/ESP8266wifi).                                        *)
(*                                                                         *)
(* The sketch and lwIP take turns: lwIP's callbacks run whenever a call of *)
(* the sketch is in a delay(), and between two calls.  lwIP itself and the *)
(* peer are external.  Bytes of a write are numbered from 1; received ones *)
(* are only counted.  Time is in ticks and matters while a call waits.     *)
(***************************************************************************)
EXTENDS Integers, Sequences

CONSTANTS
    SndBuf,         \* TCP_SND_BUF
    Wnd,            \* TCP_WND
    Timeout,        \* _timeout_ms, in ticks
    FlushWait,      \* WIFICLIENT_MAX_FLUSH_WAIT_MS, in ticks
    MaxWrite,       \* bound: bytes of one write
    MaxWrites,      \* bound: writes
    MaxReceived     \* bound: bytes the peer sends

ASSUME ContextAssumption ==
    /\ {SndBuf, Wnd} \subseteq Nat \ {0}
    /\ {Timeout, FlushWait, MaxWrite, MaxWrites, MaxReceived} \subseteq Nat

VARIABLES           \* the sketch
    pc,             \* the call it is in, or "idle"; "none" and "deleted" without a context
    goal,           \* the call a wait_until_sent() belongs to
    sync            \* _sync
VARIABLES           \* ClientContext
    pcb,            \* _pcb is not null
    rxBuf, offset,  \* lengths of the chain _rx_buf, and _rx_buf_offset
    source,         \* _datasource
    written, sendWaiting, connectPending,
    seen            \* sndbuf of wait_until_sent(), as bytes not yet acknowledged
VARIABLES           \* lwIP
    conn,           \* the pcb
    queue,          \* bytes given and not acknowledged, or never when conn is gone
    wnd             \* the receive window
VARIABLES           \* time
    waited,         \* ticks since _op_start_time or last_sent
    turns           \* i of the loops around delay(1)
VARIABLES           \* history
    sent,           \* bytes of the current write in the order lwIP got them
    flushed,        \* what the call's wait_until_sent(), or its stop(), came to
    writes, received, closeFailed

contextVars == <<pcb, rxBuf, offset, source, written, sendWaiting, connectPending, seen>>
lwipVars    == <<conn, queue, wnd>>
clockVars   == <<waited, turns>>
historyVars == <<sent, flushed, writes, received, closeFailed>>
vars == <<pc, goal, sync, contextVars, lwipVars, clockVars, historyVars>>

NoSource == [kind |-> "none", size |-> 0, pos |-> 0, buffer |-> <<>>, fetched |-> 0]
NotSeen  == -1
States   == {"none", "SYN_SENT", "ESTABLISHED", "closing", "gone"}

\* bound: the clock stops here, past every limit it is compared with.
Longest == Timeout + FlushWait + 1

\* lwIP has freed the pcb _pcb points to, and is about to tell so.
Dangling == pcb /\ conn = "gone"

Sum(lens) ==
    LET upTo[n \in 0..Len(lens)] == IF n = 0 THEN 0 ELSE upTo[n - 1] + lens[n] IN upTo[Len(lens)]

\* available()
Unread == Sum(rxBuf) - offset
Left(s) == s.size - s.pos
Min2(a, b) == IF a < b THEN a ELSE b

TypeOK ==
    /\ pc \in {"none", "idle", "connecting", "writing", "flushing", "deleted"}
    /\ goal \in {"write", "flush", "stop"} /\ sync \in BOOLEAN
    /\ pcb \in BOOLEAN /\ conn \in States
    /\ \A i \in 1..Len(rxBuf) : rxBuf[i] \in 1..Wnd
    /\ IF rxBuf = <<>> THEN offset = 0 ELSE offset \in 0..(Head(rxBuf) - 1)
    /\ source.kind \in {"none", "array", "stream"}
    /\ source.size \in 0..MaxWrite /\ source.pos \in 0..source.size
    /\ written \in 0..MaxWrite /\ sendWaiting \in BOOLEAN /\ connectPending \in BOOLEAN
    /\ seen \in {NotSeen} \cup 0..SndBuf /\ queue \in 0..SndBuf /\ wnd \in 0..Wnd
    /\ waited \in 0..Longest /\ turns \in 0..Timeout
    /\ writes \in 0..MaxWrites /\ received \in 0..MaxReceived
    /\ flushed \in BOOLEAN /\ closeFailed \in BOOLEAN

Init ==
    /\ pc = "none" /\ goal = "write" /\ sync \in BOOLEAN
    /\ pcb = FALSE /\ rxBuf = <<>> /\ offset = 0
    /\ source = NoSource /\ written = 0
    /\ sendWaiting = FALSE /\ connectPending = FALSE /\ seen = NotSeen
    /\ conn = "none" /\ queue = 0 /\ wnd = Wnd
    /\ waited = 0 /\ turns = 0
    /\ sent = <<>> /\ flushed = TRUE /\ writes = 0 /\ received = 0 /\ closeFailed = FALSE

----------------------------------------------------------------------------
(* Faulty variants of definitions below, each with one slip; the properties *)
(* at the end are checked to notice them.                                   *)

\* A time-out that only counts once something has been written.
LateAfterFirst == waited > Timeout /\ written > 0

\* A get_buffer() that forgets what it has fetched already.
FetchedAnew(s, n) ==
    IF s.kind = "stream"
    THEN [s EXCEPT !.buffer = [i \in 1..n |-> s.fetched + i], !.fetched = @ + n]
    ELSE s

\* A _consume() that keeps a pbuf of which nothing is left.
ConsumeLate(n) ==
    LET at == offset + n
        k  == CHOOSE k \in 0..Len(rxBuf) :
                 Sum(SubSeq(rxBuf, 1, k)) < at /\ (k < Len(rxBuf) => Sum(SubSeq(rxBuf, 1, k + 1)) >= at)
    IN /\ rxBuf' = SubSeq(rxBuf, k + 1, Len(rxBuf))
       /\ offset' = at - Sum(SubSeq(rxBuf, 1, k))
       /\ wnd' = IF pcb THEN Min2(Wnd, wnd + n) ELSE wnd

\* A _consume() that tells lwIP only of the pbuf it is in.
ConsumeHead(n) ==
    LET at == offset + n
        k  == CHOOSE k \in 0..Len(rxBuf) :
                 Sum(SubSeq(rxBuf, 1, k)) <= at /\ (k < Len(rxBuf) => Sum(SubSeq(rxBuf, 1, k + 1)) > at)
    IN /\ rxBuf' = SubSeq(rxBuf, k + 1, Len(rxBuf))
       /\ offset' = at - Sum(SubSeq(rxBuf, 1, k))
       /\ wnd' = IF pcb THEN Min2(Wnd, wnd + Min2(n, Head(rxBuf) - offset)) ELSE wnd

\* A wait_until_sent() that ends when the send buffer has not changed.
SentWhenQuiet == ~pcb \/ seen = queue

\* A wait_until_sent() that looks at the send buffer before the write.
BeginFlushEarly(what, given) ==
    /\ goal' = what
    /\ pc' = "flushing"
    /\ seen' = queue
    /\ waited' = 0

\* ~WiFiClient that closes first.
UnrefClosesFirst ==
    /\ pc = "idle"
    /\ pc' = "deleted"
    /\ rxBuf' = <<>> /\ offset' = 0
    /\ UNCHANGED wnd
    /\ IF ~pcb
       THEN UNCHANGED <<pcb, conn, closeFailed>>
       ELSE /\ pcb' = FALSE
            /\ closeFailed' \in BOOLEAN
            /\ conn' = IF ~closeFailed' /\ wnd = Wnd THEN "closing" ELSE "gone"
    /\ UNCHANGED <<goal, sync, source, written, sendWaiting, connectPending, seen, queue,
                   clockVars, sent, flushed, writes, received>>

----------------------------------------------------------------------------
(* The data sources. *)

\* get_buffer(n): an array is its own buffer; of a stream the bytes that a failed
\* tcp_write left in the buffer come first, and only the rest is read.
Fetched(s, n) ==
    IF s.kind = "stream" /\ n > s.fetched - s.pos
    THEN [s EXCEPT !.buffer = @ \o [i \in 1..(n - (s.fetched - s.pos)) |-> s.fetched + i],
                   !.fetched = s.pos + n]
    ELSE s

Offered(s, n) == IF s.kind = "stream" THEN SubSeq(s.buffer, 1, n) ELSE [i \in 1..n |-> s.pos + i]

\* release_buffer(n)
Released(s, n) ==
    [s EXCEPT !.pos = @ + n,
              !.buffer = IF s.kind = "stream" THEN SubSeq(@, n + 1, Len(@)) ELSE @]

----------------------------------------------------------------------------
(* Opening, closing and deleting. *)

\* server.available() hands over a connection; a context starts with nothing.
Adopt ==
    /\ pc = "none"
    /\ pc' = "idle"
    /\ pcb' = TRUE /\ conn' = "ESTABLISHED"
    /\ UNCHANGED <<goal, sync, rxBuf, offset, source, written, sendWaiting, connectPending, seen,
                   queue, wnd, clockVars, historyVars>>

\* connect() up to its first delay(1).
Connect ==
    /\ pc = "none"
    /\ pc' = "connecting"
    /\ pcb' = TRUE /\ conn' = "SYN_SENT"
    /\ connectPending' = TRUE
    /\ waited' = 0
    /\ UNCHANGED <<goal, sync, rxBuf, offset, source, written, sendWaiting, seen, queue, wnd,
                   turns, historyVars>>

\* lwIP refuses tcp_connect(); connect() and the WiFiClient give the pcb up.
ConnectRefused ==
    /\ pc = "none"
    /\ pc' = "deleted"
    /\ conn' = "gone"
    /\ UNCHANGED <<goal, sync, contextVars, queue, wnd, clockVars, historyVars>>

\* connect() after its delays, with unref() by WiFiClient when it has failed.
ConnectReturns ==
    /\ pc = "connecting"
    /\ ~connectPending \/ turns >= Timeout
    /\ connectPending' = FALSE
    /\ waited' = 0 /\ turns' = 0
    /\ IF pcb /\ conn = "ESTABLISHED"
       THEN pc' = "idle" /\ UNCHANGED <<pcb, conn, rxBuf, offset>>
       ELSE /\ pc' = "deleted"
            /\ pcb' = FALSE /\ conn' = "gone"
            /\ rxBuf' = <<>> /\ offset' = 0
    /\ UNCHANGED <<goal, sync, source, written, sendWaiting, seen, queue, wnd, historyVars>>

\* close(): lwIP sends what is queued and a FIN, but resets a connection whose
\* window w says that data was not taken; without memory it is aborted.
Close(w) ==
    IF ~pcb
    THEN UNCHANGED <<pcb, conn, closeFailed>>
    ELSE /\ pcb' = FALSE
         /\ closeFailed' \in BOOLEAN
         /\ conn' = IF ~closeFailed' /\ w = Wnd THEN "closing" ELSE "gone"

\* ~WiFiClient of the last handle: unref() with discard_received() and close().
\* The window gets the whole chain, the bytes already read of its head included;
\* lwIP keeps it within TCP_WND.
Unref ==
    /\ pc = "idle"
    /\ pc' = "deleted"
    /\ rxBuf' = <<>> /\ offset' = 0
    /\ wnd' = IF pcb THEN Min2(Wnd, wnd + Sum(rxBuf)) ELSE wnd
    /\ Close(wnd')
    /\ UNCHANGED <<goal, sync, source, written, sendWaiting, connectPending, seen, queue,
                   clockVars, sent, flushed, writes, received>>

----------------------------------------------------------------------------
(* Writing. *)

\* wait_until_sent() from its first tcp_output() to its first delay(0).
BeginFlush(what, given) ==
    /\ goal' = what
    /\ pc' = "flushing"
    /\ seen' = given
    /\ waited' = 0

\* _is_timeout()
Late == waited > Timeout

\* One round of the loop of _write_from_source() with s left to write, after done
\* bytes: _write_some(), which lwIP may refuse for want of memory, and the tests
\* for the end.
WriteRound(s, done, before) ==
    LET n == IF pcb THEN Min2(SndBuf - queue, Left(s)) ELSE 0
        f == Fetched(s, n)
    IN \E ok \in (IF n = 0 THEN {FALSE} ELSE BOOLEAN) :
          LET rest  == IF ok THEN Released(f, n) ELSE f
              given == IF ok THEN queue + n ELSE queue
          IN /\ turns' = 0
             /\ written' = IF ok THEN done + n ELSE done
             /\ sent' = IF ok THEN before \o Offered(f, n) ELSE before
             /\ queue' = given
             /\ IF Left(rest) = 0 \/ (Late /\ ~ok) \/ ~pcb
                THEN /\ source' = NoSource /\ sendWaiting' = FALSE
                     /\ IF sync /\ pcb
                        THEN BeginFlush("write", given)
                        ELSE pc' = "idle" /\ waited' = 0 /\ UNCHANGED <<goal, seen>>
                ELSE /\ source' = rest /\ sendWaiting' = TRUE
                     /\ pc' = "writing"
                     /\ waited' = IF ok THEN 0 ELSE waited
                     /\ UNCHANGED <<goal, seen>>

\* write(data, size) and write(stream) up to the first delay(1); without a pcb
\* they return at once.  A stream holds the bytes its available() promised, so
\* get_buffer() neither waits for more nor comes up short.
Write(kind, size) ==
    /\ pc = "idle" /\ pcb
    /\ writes < MaxWrites
    /\ writes' = writes + 1
    /\ WriteRound([NoSource EXCEPT !.kind = kind, !.size = size], 0, <<>>)
    /\ flushed' = TRUE
    /\ UNCHANGED <<sync, pcb, rxBuf, offset, connectPending, conn, wnd, received, closeFailed>>

\* The wait was broken by a callback or has had all its turns.
WriteLoop ==
    /\ pc = "writing"
    /\ ~sendWaiting \/ turns >= Timeout
    /\ WriteRound(source, written, sent)
    /\ UNCHANGED <<sync, pcb, rxBuf, offset, connectPending, conn, wnd, writes, received, flushed,
                   closeFailed>>

\* flush() and stop(); without a pcb they have nothing to wait for.
Flush(what) ==
    /\ pc = "idle" /\ pcb
    /\ BeginFlush(what, queue)
    /\ UNCHANGED <<sync, pcb, rxBuf, offset, source, written, sendWaiting, connectPending, lwipVars,
                   turns, historyVars>>

\* The state and the buffer as it was before the delay decide.
Sent == ~pcb \/ seen = 0

\* wait_until_sent() after a delay(0), around to the next or to its return; stop()
\* then closes the connection.  A write() throws the result away.
FlushLoop ==
    /\ pc = "flushing"
    /\ IF Sent \/ waited > FlushWait
       THEN /\ pc' = "idle"
            /\ seen' = NotSeen /\ waited' = 0
            /\ IF goal = "stop" THEN Close(wnd) ELSE UNCHANGED <<pcb, conn, closeFailed>>
            /\ flushed' = (Sent /\ ~(goal = "stop" /\ closeFailed'))
       ELSE /\ seen' = queue
            /\ waited' = IF queue # seen THEN 0 ELSE waited
            /\ UNCHANGED <<pc, flushed, pcb, conn, closeFailed>>
    /\ UNCHANGED <<goal, sync, rxBuf, offset, source, written, sendWaiting, connectPending, queue, wnd,
                   turns, sent, writes, received>>

\* The clock while a call waits; a delay(1) may take longer than one tick.
Tick ==
    /\ \/ pc = "flushing" /\ waited <= FlushWait /\ UNCHANGED turns
       \/ pc \in {"connecting", "writing"} /\ turns < Timeout /\ turns' = turns + 1
    /\ \E ticks \in 1..2 : waited' = Min2(waited + ticks, Longest)
    /\ UNCHANGED <<pc, goal, sync, contextVars, lwipVars, historyVars>>

----------------------------------------------------------------------------
(* Reading. *)

\* _consume(n), for as many pbufs as the n bytes reach over.
Consume(n) ==
    LET at == offset + n
        k  == CHOOSE k \in 0..Len(rxBuf) :
                 Sum(SubSeq(rxBuf, 1, k)) <= at /\ (k < Len(rxBuf) => Sum(SubSeq(rxBuf, 1, k + 1)) > at)
    IN /\ rxBuf' = SubSeq(rxBuf, k + 1, Len(rxBuf))
       /\ offset' = at - Sum(SubSeq(rxBuf, 1, k))
       /\ wnd' = IF pcb THEN Min2(Wnd, wnd + n) ELSE wnd

\* read(), read(dst, size); what has come can be read after the connection is gone.
Read(n) ==
    /\ pc = "idle"
    /\ n \in 1..Unread
    /\ Consume(n)
    /\ UNCHANGED <<pc, goal, sync, pcb, source, written, sendWaiting, connectPending, seen,
                   conn, queue, clockVars, historyVars>>

----------------------------------------------------------------------------
(* The callbacks. *)

\* _connected()
Connected ==
    /\ conn = "SYN_SENT"
    /\ conn' = "ESTABLISHED"
    /\ connectPending' = FALSE
    /\ UNCHANGED <<pc, goal, sync, pcb, rxBuf, offset, source, written, sendWaiting, seen,
                   queue, wnd, clockVars, historyVars>>

\* _recv() of data
Receive(n) ==
    /\ pcb /\ conn = "ESTABLISHED"
    /\ n \in 1..wnd /\ received + n <= MaxReceived
    /\ received' = received + n
    /\ rxBuf' = Append(rxBuf, n)
    /\ wnd' = wnd - n
    /\ UNCHANGED <<pc, goal, sync, pcb, offset, source, written, sendWaiting, connectPending, seen,
                   conn, queue, clockVars, sent, flushed, writes, closeFailed>>

\* _acked()
Acked(n) ==
    /\ pcb /\ n \in 1..queue
    /\ queue' = queue - n
    /\ sendWaiting' = FALSE
    /\ UNCHANGED <<pc, goal, sync, pcb, rxBuf, offset, source, written, connectPending, seen,
                   conn, wnd, clockVars, historyVars>>

\* _poll()
Poll ==
    /\ pcb /\ sendWaiting
    /\ sendWaiting' = FALSE
    /\ UNCHANGED <<pc, goal, sync, pcb, rxBuf, offset, source, written, connectPending, seen,
                   lwipVars, clockVars, historyVars>>

\* _recv() without data: abort() takes lwIP's callbacks back and frees the pcb.
Closed ==
    /\ pcb /\ conn = "ESTABLISHED"
    /\ pcb' = FALSE
    /\ conn' = "gone"
    /\ sendWaiting' = FALSE /\ connectPending' = FALSE
    /\ UNCHANGED <<pc, goal, sync, rxBuf, offset, source, written, seen, queue, wnd, clockVars, historyVars>>

\* lwIP gives a connection up, on a reset or when nothing is answered.
Freed ==
    /\ pcb
    /\ conn' = "gone"
    /\ UNCHANGED <<pc, goal, sync, contextVars, queue, wnd, clockVars, historyVars>>

\* _error(), which still takes the callbacks off the pcb that lwIP has freed.
Error ==
    /\ Dangling
    /\ pcb' = FALSE
    /\ sendWaiting' = FALSE /\ connectPending' = FALSE
    /\ UNCHANGED <<pc, goal, sync, rxBuf, offset, source, written, seen, lwipVars, clockVars, historyVars>>

Sketch ==
    \/ Adopt \/ Connect \/ ConnectRefused \/ Unref
    \/ \E kind \in {"array", "stream"}, size \in 1..MaxWrite : Write(kind, size)
    \/ \E what \in {"flush", "stop"} : Flush(what)
    \/ \E n \in 1..MaxReceived : Read(n)

\* lwIP's callbacks.
Stack ==
    \/ Connected \/ Poll \/ Closed \/ Freed
    \/ \E n \in 1..Wnd : Receive(n)
    \/ \E n \in 1..SndBuf : Acked(n)

\* Nothing comes between lwIP's freeing a pcb and its error callback.
Next ==
    \/ ~Dangling /\ (Sketch \/ ConnectReturns \/ WriteLoop \/ FlushLoop \/ Tick \/ Stack)
    \/ Error

Spec == Init /\ [][Next]_vars

\* A call that can go on does, and the clock runs; of lwIP only that it makes the
\* error callback of a pcb it has freed.
FairSpec ==
    /\ Spec
    /\ WF_vars(ConnectReturns) /\ WF_vars(WriteLoop) /\ WF_vars(FlushLoop) /\ WF_vars(Tick)
    /\ WF_vars(Error)

----------------------------------------------------------------------------
(* Properties. *)

\* lwIP gets the bytes of a write in their order, none twice and none left out,
\* from an array or a stream, however acknowledgements, refusals and time-outs cut
\* it into pieces, and write() returns how many it got.
WrittenExact == sent = [i \in 1..written |-> i]

\* With _sync, nothing of a write() that has returned is unacknowledged on a live
\* connection, as setSync() promises ("all writes are automatically flushed") and
\* the bytes need, which lwIP then does not copy: unless the last call's
\* wait_until_sent() timed out.  _write_from_source() ignores that, returns the
\* full count all the same, and lwIP sends on from a buffer the caller may reuse.
SyncIdleIsAcked == sync /\ pc = "idle" /\ pcb /\ queue # 0 => ~flushed

\* A flush() or stop() that returns true ("All data flushed") leaves nothing
\* unacknowledged, unless the connection broke while it waited: the loop ends then
\* as well, and what was not acknowledged is lost.
FlushMeansAcked ==
    [][pc = "flushing" /\ pc' # "flushing" /\ goal # "write" /\ flushed' => queue = 0 \/ ~pcb]_vars

\* The peer may send again as much as was read, so the window never shrinks for
\* good; and what is unread is what was received and not read.
WindowExact == pcb => wnd + Unread = Wnd

\* The end of the WiFiClient in loop() does not reset the connection on account of
\* the request's bytes the sketch never read, so the page still reaches the peer.
UnrefIsGraceful ==
    [][pc' = "deleted" /\ conn = "ESTABLISHED" => conn' = "closing" \/ closeFailed']_vars

\* Every call returns, whatever the peer does or fails to do.
CallsReturn == pc \in {"connecting", "writing", "flushing"} ~> pc \in {"idle", "deleted"}

=============================================================================

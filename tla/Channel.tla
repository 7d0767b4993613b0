------------------------------ MODULE Channel ------------------------------
(***************************************************************************)
(* internal/ipc: one authenticated channel between two roles, and the      *)
(* calls remotesync makes over it.  A caller sends a request and waits for *)
(* its response; the server answers requests in a loop and returns, and    *)
(* its process with it, on the first error.  A server that is restarted    *)
(* gets a fresh channel, as does the caller that is rebound to it.         *)
(***************************************************************************)
EXTENDS Integers, Sequences

CONSTANTS MaxQueueDepth, \* resource.DefaultLimits().MaxQueueDepth (1024)
          Payloads,      \* lengths of payloads
          MaxFrame,      \* MaxFrameBytes
          MaxCalls,      \* calls made
          MaxRebinds     \* times the server is restarted

VARIABLES ch,            \* ChannelState of either end
          pipe,          \* the socket: frames on their way to each role
          calls,         \* calls made
          calling,       \* the caller waits for a response
          alive,         \* the server runs
          rebinds,       \* restarts so far
          why            \* what ended the last call that failed: "", "crash" or the code of its error

vars == <<ch, pipe, calls, calling, alive, rebinds, why>>

Nonce == "nonce"         \* one per Runtime, shared by every channel it ever opens
Types == {"Request", "Response", "Close", "Critical"}
Other(r) == IF r = "net" THEN "apply" ELSE "net"

roleCode(r) == IF r = "net" THEN 2 ELSE 7
roleFromCode(c) == CASE c = 2 -> "net" [] c = 7 -> "apply" [] OTHER -> ""

\* ChannelMACKey sorts the two roles, so either end derives the same key.
ChannelMACKey(a, b) == {a, b}

NewAuthenticatedChannel(local, remote, nonce, key) ==
    [local |-> local, remote |-> remote, nonce |-> nonce, send |-> 1, last |-> 0,
     queue |-> 0, closed |-> FALSE, key |-> key]

Fresh == [r \in {"net", "apply"} |->
             NewAuthenticatedChannel(r, Other(r), Nonce, ChannelMACKey(r, Other(r)))]

-----------------------------------------------------------------------------
\* Encode numbers the frame; a close frame closes the channel behind it.
Encode(c, type, payload) ==
    IF c.closed THEN [c |-> c, err |-> "closed"]
    ELSE IF type \notin Types THEN [c |-> c, err |-> "type"]
    ELSE IF payload > MaxFrame THEN [c |-> c, err |-> "limit"]
    ELSE [c |-> [c EXCEPT !.send = @ + 1, !.closed = type = "Close"], err |-> "ok",
          f |-> [type |-> type, nonce |-> c.nonce, seq |-> c.send, from |-> roleCode(c.local),
                 to |-> roleCode(c.remote), payload |-> payload, mac |-> c.key]]

AdmitQueue(depth) == depth <= MaxQueueDepth

\* Decode checks in this order.  Only a bad authenticator and a critical frame close the channel
\* that refuses them; every other refusal leaves it as it was.
Decode(c, f) ==
    IF c.closed THEN [c |-> c, err |-> "closed"]
    ELSE IF f.nonce # c.nonce THEN [c |-> c, err |-> "nonce"]
    ELSE IF f.payload > MaxFrame THEN [c |-> c, err |-> "limit"]
    ELSE IF f.mac # c.key THEN [c |-> [c EXCEPT !.closed = TRUE], err |-> "mac"]
    ELSE IF roleFromCode(f.from) # c.remote \/ roleFromCode(f.to) # c.local
         THEN [c |-> c, err |-> "role"]
    ELSE IF f.seq # c.last + 1 THEN [c |-> c, err |-> "sequence"]
    ELSE IF ~AdmitQueue(c.queue + 1) THEN [c |-> c, err |-> "queue"]
    ELSE IF f.type = "Critical" THEN [c |-> [c EXCEPT !.closed = TRUE], err |-> "critical"]
    ELSE [c |-> [c EXCEPT !.last = f.seq, !.queue = @ + 1, !.closed = f.type = "Close"],
          err |-> "ok"]

-----------------------------------------------------------------------------
Quiet == [r \in {"net", "apply"} |-> <<>>]
WriteFrame(p, to, f) == [p EXCEPT ![to] = Append(@, f)]
ReadFrame(p, to) == [f |-> Head(p[to]), rest |-> [p EXCEPT ![to] = Tail(@)]]

Init ==
    /\ ch = Fresh /\ pipe = Quiet /\ calls = 0 /\ calling = FALSE /\ alive = TRUE
    /\ rebinds = 0 /\ why = ""

\* ipcWire.request up to its read.
Request ==
    /\ ~calling /\ alive /\ calls < MaxCalls
    /\ \E p \in Payloads :
        LET e == Encode(ch["net"], "Request", p)
        IN IF e.err = "ok"
           THEN /\ ch' = [ch EXCEPT !["net"] = e.c]
                /\ pipe' = WriteFrame(pipe, "apply", e.f)
                /\ calls' = calls + 1 /\ calling' = TRUE
           ELSE UNCHANGED <<ch, pipe, calls, calling>>
    /\ UNCHANGED <<alive, rebinds, why>>

\* readRequest, the work, respond; the serving loop returns on the first error.
Serve ==
    /\ alive /\ pipe["apply"] # <<>>
    /\ LET r == ReadFrame(pipe, "apply")
           d == Decode(ch["apply"], r.f)
           e == Encode(d.c, "Response", r.f.payload)
       IN IF d.err = "ok" /\ r.f.type = "Request" /\ e.err = "ok"
          THEN /\ ch' = [ch EXCEPT !["apply"] = e.c]
               /\ pipe' = WriteFrame(r.rest, "net", e.f)
               /\ UNCHANGED <<alive, why>>
          ELSE /\ ch' = [ch EXCEPT !["apply"] = d.c] /\ pipe' = r.rest
               /\ alive' = FALSE /\ why' = d.err
    /\ UNCHANGED <<calls, calling, rebinds>>

\* ipcWire.request from its read on.
Response ==
    /\ calling /\ pipe["net"] # <<>>
    /\ LET r == ReadFrame(pipe, "net")
           d == Decode(ch["net"], r.f)
       IN /\ ch' = [ch EXCEPT !["net"] = d.c] /\ pipe' = r.rest
          /\ why' = IF d.err = "ok" THEN why ELSE d.err
    /\ calling' = FALSE /\ UNCHANGED <<calls, alive, rebinds>>

\* The caller's read ends with the server that was to answer.
HungUp ==
    /\ calling /\ ~alive /\ pipe["net"] = <<>>
    /\ calling' = FALSE /\ UNCHANGED <<ch, pipe, calls, alive, rebinds, why>>

Crash ==
    /\ alive /\ alive' = FALSE /\ why' = "crash" /\ pipe' = [pipe EXCEPT !["apply"] = <<>>]
    /\ UNCHANGED <<ch, calls, calling, rebinds>>

\* The supervisor restarts the server and rebinds the caller: a new socket, new states.
Rebind ==
    /\ ~alive /\ ~calling /\ rebinds < MaxRebinds
    /\ ch' = Fresh /\ pipe' = Quiet /\ alive' = TRUE /\ rebinds' = rebinds + 1
    /\ UNCHANGED <<calls, calling, why>>

Next == Request \/ Serve \/ Response \/ HungUp \/ Crash \/ Rebind
Spec == Init /\ [][Next]_vars

-----------------------------------------------------------------------------
\* With one request at a time on its way, the bound on the queue is never what fails a call: a
\* channel works until its server crashes.  QueueDepth counts frames as Decode takes them and
\* nothing ever takes them off again, so that each channel end decodes MaxQueueDepth frames.
QueueNeverEnds == why \in {"", "crash"}
=============================================================================

---------------------------- MODULE ConnInterrupt ----------------------------
(***************************************************************************)
(* A Conn and its interrupter (conn.go): the connection's own thread calls *)
(* SetInterrupt, Exec, PrepareFlags and Close; SetInterrupt(done) starts a *)
(* goroutine that waits on done and then calls the engine's interrupt      *)
(* entry every 100ms until it is cancelled over its unbuffered waiter      *)
(* channel; the application closes done channels whenever it likes.       *)
(*                                                                         *)
(* The engine (SQLite inside the module, not code of this repository) is   *)
(* modelled by what conn.go relies on: sqlite3_interrupt sets a flag; a    *)
(* statement starting while no other statement runs clears the flag; a    *)
(* running statement returns INTERRUPT at a safe point once the flag is    *)
(* set, and may run forever otherwise; sqlite3_close returns BUSY while    *)
(* prepared statements are not finalized; a closed module fails any call.  *)
(***************************************************************************)
EXTENDS Naturals, FiniteSets

CONSTANTS
    Signals,      \* the done channels the application may pass
    Nil,          \* the nil channel
    Goroutines,   \* one id per interrupter goroutine (and its waiter channel)
    MaxStmts      \* bound on statements prepared and not yet closed

ASSUME Nil \notin Signals /\ Nil \notin Goroutines /\ MaxStmts \in Nat

VARIABLES
    done,        \* c.done
    waiter,      \* c.waiter: the running goroutine's channel, or Nil
    gpc,         \* where each goroutine is
    gsig,        \* the done channel each goroutine watches
    fired,       \* the done channels the application has closed
    mpc,         \* where the connection's thread is
    marg,        \* the channel SetInterrupt was called with (Nil for Close)
    mop,         \* the public method the thread is in: "set" or "close"
    doneAtCall,  \* c.done when the current public call began
    query,       \* whether the statement in the engine ends by itself
    flag,        \* the engine's isInterrupted flag
    open,        \* the module is open (c.handle is valid)
    stmts,       \* prepared statements not yet closed
    rc           \* what the last public call returned

vars == <<done, waiter, gpc, gsig, fired, mpc, marg, mop, doneAtCall,
          query, flag, open, stmts, rc>>

GoroutineStates == {"unborn", "select", "interrupt", "tick", "ack", "exited"}
Alive(g) == gpc[g] \notin {"unborn", "exited"}

TypeOK ==
    /\ done \in Signals \cup {Nil}
    /\ waiter \in Goroutines \cup {Nil}
    /\ gpc \in [Goroutines -> GoroutineStates]
    /\ gsig \in [Goroutines -> Signals \cup {Nil}]
    /\ fired \subseteq Signals
    /\ mpc \in {"idle", "si_send", "si_recv", "close_call", "engine_start", "engine_run"}
    /\ marg \in Signals \cup {Nil}
    /\ mop \in {"set", "close"}
    /\ doneAtCall \in Signals \cup {Nil}
    /\ query \in {"finite", "infinite"}
    /\ flag \in BOOLEAN
    /\ open \in BOOLEAN
    /\ stmts \in 0 .. MaxStmts
    /\ rc \in {"none", "OK", "BUSY", "INTERRUPT", "EXIT"}

Init ==
    /\ done = Nil
    /\ waiter = Nil
    /\ gpc = [g \in Goroutines |-> "unborn"]
    /\ gsig = [g \in Goroutines |-> Nil]
    /\ fired = {}
    /\ mpc = "idle"
    /\ marg = Nil
    /\ mop = "set"
    /\ doneAtCall = Nil
    /\ query = "finite"
    /\ flag = FALSE
    /\ open = TRUE
    /\ stmts = 0
    /\ rc = "none"

Idle == mpc = "idle"

\* c.interrupted(): a receive from c.done succeeds (a nil channel never does).
interrupted == done \in fired

-----------------------------------------------------------------------------
(* The application closes a done channel (a context is cancelled).         *)
Fire(s) ==
    /\ s \notin fired
    /\ fired' = fired \cup {s}
    /\ UNCHANGED <<done, waiter, gpc, gsig, mpc, marg, mop, doneAtCall,
                   query, flag, open, stmts, rc>>

-----------------------------------------------------------------------------
(* SetInterrupt, on the connection's thread.                               *)

\* After any previous waiter is gone: swap c.done and, unless done is nil,
\* start a goroutine watching it.  Then return to the caller, or carry on
\* with the rest of Close.
SetInterruptTail(s, op) ==
    /\ done' = s
    /\ IF s = Nil
          THEN /\ waiter' = Nil
               /\ UNCHANGED <<gpc, gsig>>
          ELSE \E g \in Goroutines :
                  /\ gpc[g] = "unborn"
                  /\ \A h \in Goroutines : gpc[h] = "unborn" => g <= h
                  /\ waiter' = g
                  /\ gpc' = [gpc EXCEPT ![g] = "select"]
                  /\ gsig' = [gsig EXCEPT ![g] = s]
    /\ mpc' = IF op = "close" THEN "close_call" ELSE "idle"

\* Entry: a running waiter is first cancelled, else the tail runs at once.
SetInterrupt(s, op) ==
    /\ marg' = s
    /\ mop' = op
    /\ IF waiter # Nil
          THEN /\ mpc' = "si_send"
               /\ UNCHANGED <<done, waiter, gpc, gsig>>
          ELSE SetInterruptTail(s, op)

\* Mutant: SetInterrupt that sends the cancel and carries on without
\* waiting for the goroutine's acknowledgement.
SendCancelNoWait(g) ==
    /\ mpc = "si_send"
    /\ waiter = g
    /\ gpc[g] \in {"select", "tick"}
    /\ \/ /\ marg = Nil
          /\ gpc' = [gpc EXCEPT ![g] = "ack"]
          /\ done' = Nil
          /\ waiter' = Nil
          /\ UNCHANGED gsig
       \/ /\ marg # Nil
          /\ \E n \in Goroutines :
                /\ gpc[n] = "unborn"
                /\ \A h \in Goroutines : gpc[h] = "unborn" => n <= h
                /\ gpc' = [gpc EXCEPT ![g] = "ack", ![n] = "select"]
                /\ gsig' = [gsig EXCEPT ![n] = marg]
                /\ waiter' = n
                /\ done' = marg
    /\ mpc' = IF mop = "close" THEN "close_call" ELSE "idle"
    /\ UNCHANGED <<fired, marg, mop, doneAtCall, query, flag, open, stmts, rc>>

\* c.waiter <- struct{}{}: a rendezvous with the goroutine's select.
SendCancel(g) ==
    /\ mpc = "si_send"
    /\ waiter = g
    /\ gpc[g] \in {"select", "tick"}
    /\ gpc' = [gpc EXCEPT ![g] = "ack"]
    /\ mpc' = "si_recv"
    /\ UNCHANGED <<done, waiter, gsig, fired, marg, mop, doneAtCall,
                   query, flag, open, stmts, rc>>

\* <-c.waiter: the goroutine's acknowledgement; c.waiter = nil; the tail.
RecvAck(g) ==
    /\ mpc = "si_recv"
    /\ waiter = g
    /\ gpc[g] = "ack"
    /\ \/ /\ marg = Nil
          /\ gpc' = [gpc EXCEPT ![g] = "exited"]
          /\ done' = Nil
          /\ waiter' = Nil
          /\ UNCHANGED gsig
       \/ /\ marg # Nil
          /\ \E n \in Goroutines :
                /\ gpc[n] = "unborn"
                /\ \A h \in Goroutines : gpc[h] = "unborn" => n <= h
                /\ gpc' = [gpc EXCEPT ![g] = "exited", ![n] = "select"]
                /\ gsig' = [gsig EXCEPT ![n] = marg]
                /\ waiter' = n
                /\ done' = marg
    /\ mpc' = IF mop = "close" THEN "close_call" ELSE "idle"
    /\ UNCHANGED <<fired, marg, mop, doneAtCall, query, flag, open, stmts, rc>>

\* The public call SetInterrupt(s), on an open connection (on a closed one
\* the goroutine it starts would panic once s is closed).  A fresh
\* goroutine must be available.
CallSetInterrupt(s) ==
    /\ Idle
    /\ open
    /\ s # Nil => \E g \in Goroutines : gpc[g] = "unborn"
    /\ doneAtCall' = done
    /\ SetInterrupt(s, "set")
    /\ UNCHANGED <<fired, query, flag, open, stmts, rc>>

-----------------------------------------------------------------------------
(* The interrupter goroutine.                                              *)

\* select { case <-done: }: done was closed.
GoDone(g) ==
    /\ gpc[g] = "select"
    /\ gsig[g] \in fired
    /\ gpc' = [gpc EXCEPT ![g] = "interrupt"]
    /\ UNCHANGED <<done, waiter, gsig, fired, mpc, marg, mop, doneAtCall,
                   query, flag, open, stmts, rc>>

\* c.api.interrupt.Call(c.ctx, c.handle); a call on a closed module panics,
\* which the model leaves as the goroutine stuck in "interrupt".
GoInterrupt(g) ==
    /\ gpc[g] = "interrupt"
    /\ open
    /\ flag' = TRUE
    /\ gpc' = [gpc EXCEPT ![g] = "tick"]
    /\ UNCHANGED <<done, waiter, gsig, fired, mpc, marg, mop, doneAtCall,
                   query, open, stmts, rc>>

\* Mutant: an interrupter without the ticker loop, which interrupts once
\* and then only waits to be cancelled.
GoTickIgnored(g) ==
    /\ gpc[g] = "tick"
    /\ UNCHANGED vars

\* case <-ticker.C: interrupt again.
GoTick(g) ==
    /\ gpc[g] = "tick"
    /\ gpc' = [gpc EXCEPT ![g] = "interrupt"]
    /\ UNCHANGED <<done, waiter, gsig, fired, mpc, marg, mop, doneAtCall,
                   query, flag, open, stmts, rc>>

-----------------------------------------------------------------------------
(* Exec and PrepareFlags: the interrupted() check, then the engine.        *)

Exec ==
    /\ Idle
    /\ open
    /\ doneAtCall' = done
    /\ IF interrupted
          THEN /\ rc' = "INTERRUPT"
               /\ UNCHANGED <<mpc, query>>
          ELSE /\ mpc' = "engine_start"
               /\ query' \in {"finite", "infinite"}
               /\ UNCHANGED rc
    /\ UNCHANGED <<done, waiter, gpc, gsig, fired, marg, mop, flag, open, stmts>>

\* The engine starts the statement; with no other statement running it
\* clears a pending interrupt.
EngineStart ==
    /\ mpc = "engine_start"
    /\ mpc' = "engine_run"
    /\ flag' = FALSE
    /\ UNCHANGED <<done, waiter, gpc, gsig, fired, marg, mop, doneAtCall,
                   query, open, stmts, rc>>

\* The statement returns: INTERRUPT at a safe point with the flag set, or
\* done by itself if it is one that ends.
EngineRun ==
    /\ mpc = "engine_run"
    /\ \/ /\ flag
          /\ rc' = "INTERRUPT"
       \/ /\ query = "finite"
          /\ rc' = "OK"
    /\ mpc' = "idle"
    /\ UNCHANGED <<done, waiter, gpc, gsig, fired, marg, mop, doneAtCall,
                   query, flag, open, stmts>>

\* A statement that does not end keeps executing while the flag is clear.
EngineBusy ==
    /\ mpc = "engine_run"
    /\ query = "infinite"
    /\ ~flag
    /\ UNCHANGED vars

PrepareFlags ==
    /\ Idle
    /\ open
    /\ doneAtCall' = done
    /\ IF interrupted
          THEN /\ rc' = "INTERRUPT"
               /\ UNCHANGED stmts
          ELSE \/ /\ flag
                  /\ rc' = "INTERRUPT"
                  /\ UNCHANGED stmts
               \/ /\ stmts < MaxStmts
                  /\ stmts' = stmts + 1
                  /\ rc' = "OK"
    /\ UNCHANGED <<done, waiter, gpc, gsig, fired, mpc, marg, mop, query, flag, open>>

\* Mutant: Stmt.Close without its check that the statement is still live,
\* finalizing twice.
StmtCloseUnguarded ==
    /\ Idle
    /\ open
    /\ stmts' = stmts - 1
    /\ rc' = "OK"
    /\ UNCHANGED <<done, waiter, gpc, gsig, fired, mpc, marg, mop, doneAtCall,
                   query, flag, open>>

\* Stmt.Close finalizes one prepared statement.
StmtClose ==
    /\ Idle
    /\ open
    /\ stmts > 0
    /\ stmts' = stmts - 1
    /\ rc' = "OK"
    /\ UNCHANGED <<done, waiter, gpc, gsig, fired, mpc, marg, mop, doneAtCall,
                   query, flag, open>>

-----------------------------------------------------------------------------
(* Close: SetInterrupt(nil), then the engine's close.                      *)

\* Mutant: Close that closes the engine connection before it stops the
\* interrupter.
CloseEngineFirst ==
    /\ Idle
    /\ doneAtCall' = done
    /\ CASE ~open      -> rc' = "EXIT" /\ UNCHANGED open
         [] stmts > 0  -> rc' = "BUSY" /\ UNCHANGED open
         [] OTHER      -> rc' = "OK" /\ open' = FALSE
    /\ SetInterrupt(Nil, "set")
    /\ UNCHANGED <<fired, query, flag, stmts>>

Close ==
    /\ Idle
    /\ doneAtCall' = done
    /\ SetInterrupt(Nil, "close")
    /\ UNCHANGED <<fired, query, flag, open, stmts, rc>>

\* c.api.close.Call: a closed module fails the call (an exit error); with
\* statements outstanding sqlite3_close returns BUSY and the connection
\* stays open; otherwise c.handle = 0 and the module is closed.
CloseCall ==
    /\ mpc = "close_call"
    /\ mpc' = "idle"
    /\ CASE ~open      -> rc' = "EXIT" /\ UNCHANGED open
         [] stmts > 0  -> rc' = "BUSY" /\ UNCHANGED open
         [] OTHER      -> rc' = "OK" /\ open' = FALSE
    /\ UNCHANGED <<done, waiter, gpc, gsig, fired, marg, mop, doneAtCall,
                   query, flag, stmts>>

-----------------------------------------------------------------------------
Next ==
    \/ \E s \in Signals : Fire(s)
    \/ \E s \in Signals \cup {Nil} : CallSetInterrupt(s)
    \/ \E g \in Goroutines : SendCancel(g) \/ RecvAck(g)
    \/ \E g \in Goroutines : GoDone(g) \/ GoInterrupt(g) \/ GoTick(g)
    \/ Exec \/ EngineStart \/ EngineRun \/ EngineBusy
    \/ PrepareFlags \/ StmtClose
    \/ Close \/ CloseCall

(* The goroutines are scheduled fairly, the ticker keeps firing, the       *)
(* engine keeps executing, and a blocked rendezvous completes; the         *)
(* application's own calls and cancellations are not assumed to happen.    *)
Fairness ==
    /\ \A g \in Goroutines :
          /\ WF_vars(SendCancel(g)) /\ WF_vars(RecvAck(g))
          /\ WF_vars(GoDone(g)) /\ WF_vars(GoInterrupt(g)) /\ WF_vars(GoTick(g))
    /\ WF_vars(EngineStart) /\ WF_vars(EngineRun) /\ WF_vars(CloseCall)

Spec == Init /\ [][Next]_vars /\ Fairness

-----------------------------------------------------------------------------
(* No interrupter is leaked or outlives its signal: a goroutine that has   *)
(* not exited is the one c.waiter names and watches the current c.done.    *)
(* SetInterrupt must not swap done or start another goroutine before the   *)
(* old one has taken the cancel and acknowledged it on the same unbuffered *)
(* channel; otherwise a replaced signal could still interrupt the          *)
(* connection, or a goroutine would block forever on its acknowledgement.  *)
NoLeakedInterrupter ==
    \A g \in Goroutines : Alive(g) => waiter = g /\ gsig[g] = done

(* No interrupter runs once the module is closed: its next interrupt call  *)
(* would fail and panic.  Close must stop the goroutine before it closes   *)
(* the engine connection and the module.                                   *)
InterrupterNeedsOpenConn ==
    \A g \in Goroutines : Alive(g) => open

(* A statement running while the connection's done channel is closed       *)
(* eventually returns, even when the interrupt lands before the engine     *)
(* starts the statement and is cleared by it: the goroutine interrupts     *)
(* again on every tick until it is cancelled.                              *)
InterruptHonoured ==
    (mpc \in {"engine_start", "engine_run"} /\ done \in fired) ~> Idle

(* Close returning BUSY is a no-op: the connection keeps the interrupt     *)
(* signal it had (spec: "the close is a no-op and the Connection is still  *)
(* usable").                                                               *)
CloseBusyIsNoOp ==
    [][(mpc = "close_call" /\ rc' = "BUSY") => done' = doneAtCall]_vars

(* Close on an already closed connection is a no-op returning OK (spec,    *)
(* testable property 5).                                                   *)
CloseTwiceIsNoOp ==
    [][(mpc = "close_call" /\ ~open) => rc' = "OK"]_vars
=============================================================================

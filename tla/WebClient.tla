----------------------------- MODULE WebClient -----------------------------
(***************************************************************************)
(* The web client's conversation with the engine server: the hook          *)
(* useAIEngine, its replay machine, the page that mounts it, and the two   *)
(* endpoints it calls (web_api.py), whose handlers share one environment.  *)
(*                                                                         *)
(* Every request the server carries out gives the duel a new prompt, and   *)
(* the number of that prompt is all that is kept of it: an action index is *)
(* the prompt it was chosen for, a response the prompt it shows.  A        *)
(* request may be carried out in any order with others, and after the      *)
(* client has given it up.                                                 *)
(*                                                                         *)
(* The browser: a callback runs to its end; what a callback changes is on  *)
(* screen before the next user event; a zero-delay timer fires before a    *)
(* later network event, though not before a user event.                    *)
(***************************************************************************)
EXTENDS Naturals, FiniteSets

CONSTANTS
  None,        (* null                                                     *)
  Recommend,   (* AI assist                                                *)
  ReplayTicks, (* how many events a response may carry                     *)
  MaxMounts,   (* bound: times the duel page is shown                      *)
  MaxResets,   (* bound: per page, resets                                  *)
  MaxPrompts   (* bound: from this prompt on, every answer is an end       *)

ASSUME ClientAssumption ==
  /\ Recommend \in BOOLEAN
  /\ ReplayTicks \subseteq Nat
  /\ {MaxMounts, MaxPrompts} \subseteq Nat
  /\ MaxResets \in [1 .. MaxMounts -> Nat]

VARIABLES
  mounts,   (* pages shown so far                                          *)
  mounted,  (* the last of them is still shown                             *)
  hook,     (* per page, its hook                                          *)
  calls,    (* requests that are not both carried out and settled          *)
  server,   (* the environment: its prompt, and whether its duel is over   *)
  alone     (* what the properties except: see Send                        *)

vars == <<mounts, mounted, hook, calls, server, alone>>

Mounts == 1 .. MaxMounts

(* The hook whose page is on screen.                                       *)
Live == IF mounted THEN {mounts} ELSE {}

Gone(m) == m <= mounts /\ m \notin Live

(* generationRef, inFlightRef, status, autoplayRef, promptActions (None    *)
(* when its list is empty), outcome, autoplayTimerRef, the zero-delay      *)
(* timer of an auto-pass, and the replay machine.                          *)
NewHook ==
  [gen |-> 0, inFlight |-> 0, status |-> "idle", auto |-> FALSE, shown |-> None,
   outcome |-> FALSE, dwell |-> None, pass |-> None, replay |-> None]

Init ==
  /\ mounts = 0 /\ mounted = FALSE
  /\ hook = [m \in Mounts |-> NewHook]
  /\ calls = {}
  /\ server = [at |-> 0, over |-> TRUE]
  /\ alone = TRUE

-----------------------------------------------------------------------------
(* Requests.                                                               *)

(* The hook h of page m posts a request.  It is alone if no other is under *)
(* way; alone stays true from a reset that is until a request is not, or   *)
(* comes from a page that is gone.                                         *)
Send(m, h, kind, at) ==
  /\ hook' = [hook EXCEPT ![m] = [h EXCEPT !.inFlight = @ + 1]]
  /\ calls' = calls \union {[page |-> m, gen |-> h.gen, kind |-> kind, at |-> at,
                             open |-> TRUE, served |-> FALSE, resp |-> None]}
  /\ alone' = /\ calls = {}
              /\ ~Gone(m)
              /\ alone \/ kind = "reset"

(* Mutant: a click leaves the pending autoplay submit alone.               *)
SubmitKeepsDwell(m, h, at) ==
  IF h.inFlight > 0
  THEN hook' = [hook EXCEPT ![m] = h] /\ UNCHANGED <<calls, alone>>
  ELSE Send(m, h, "step", at)

(* submitAction: the gate, then the request.                               *)
Submit(m, h, at) ==
  IF h.inFlight > 0
  THEN hook' = [hook EXCEPT ![m] = h] /\ UNCHANGED <<calls, alone>>
  ELSE Send(m, [h EXCEPT !.dwell = None], "step", at)

(* What reset does before its request: everything but the auto-pass timer. *)
Cleared(h) ==
  [h EXCEPT !.gen = @ + 1, !.status = "loading", !.auto = FALSE, !.shown = None,
            !.outcome = FALSE, !.dwell = None, !.replay = None]

Reset(m) ==
  /\ hook[m].gen < MaxResets[m]
  /\ Send(m, Cleared(hook[m]), "reset", None)

-----------------------------------------------------------------------------
(* A response.                                                             *)

(* finalize: a lone pass or no is submitted by itself, any other prompt is *)
(* shown and, under autoplay, its advice taken after a dwell.              *)
Finalize(h, r) ==
  LET done == [h EXCEPT !.replay = None, !.outcome = r.done, !.shown = None]
  IN  IF r.done THEN done
      ELSE IF r.lone THEN [done EXCEPT !.pass = r.at]
      ELSE [done EXCEPT !.shown = [at |-> r.at, rec |-> r.rec],
                        !.dwell = IF h.auto /\ r.rec THEN r.at ELSE @]

(* applyResponse: the events are replayed first, over an empty panel.      *)
Apply(h, r) ==
  LET heard == [h EXCEPT !.status = IF r.done THEN "ended" ELSE "dueling"]
  IN  IF r.ticks > 0
      THEN [heard EXCEPT !.shown = None, !.replay = [resp |-> r, left |-> r.ticks]]
      ELSE Finalize(heard, r)

(* The client is done with a request; the server may not be.               *)
Closed(c) == (calls \ {c}) \union (IF c.served THEN {} ELSE {[c EXCEPT !.open = FALSE]})

(* Nothing of the network comes before a zero-delay timer.                 *)
NoTimerDue == \A m \in Mounts : hook[m].pass = None

(* A response arrives; one of an earlier epoch is dropped.                 *)
Receive(c) ==
  LET h == hook[c.page]
      counted == [h EXCEPT !.inFlight = @ - 1]
  IN  /\ NoTimerDue
      /\ c.open /\ c.resp # None
      /\ hook' = [hook EXCEPT ![c.page] = IF c.gen = h.gen THEN Apply(counted, c.resp)
                                                           ELSE counted]
      /\ calls' = Closed(c)
      /\ UNCHANGED <<mounts, mounted, server, alone>>

(* Mutant: the gate is opened again only when a response is read.          *)
FailKeepsGate(c) ==
  /\ NoTimerDue
  /\ c.open
  /\ hook' = [hook EXCEPT ![c.page].status = "error"]
  /\ calls' = Closed(c)
  /\ UNCHANGED <<mounts, mounted, server, alone>>

(* The connection breaks, or the status is not ok.  The epoch is not       *)
(* looked at: the failure of a superseded request is shown too.            *)
Fail(c) ==
  /\ NoTimerDue
  /\ c.open
  /\ hook' = [hook EXCEPT ![c.page].inFlight = @ - 1, ![c.page].status = "error"]
  /\ calls' = Closed(c)
  /\ UNCHANGED <<mounts, mounted, server, alone>>

-----------------------------------------------------------------------------
(* Timers.                                                                 *)

(* The replay shows its next event; the last one ends it.                  *)
Tick(m) ==
  LET h == hook[m]
  IN  /\ h.replay # None
      /\ hook' = [hook EXCEPT ![m] = IF h.replay.left > 1
                                     THEN [h EXCEPT !.replay.left = @ - 1]
                                     ELSE Finalize(h, h.replay.resp)]
      /\ UNCHANGED <<mounts, mounted, calls, server, alone>>

(* The dwell is over: the toggle and the gate are looked at again.         *)
DwellOver(m) ==
  LET h == [hook[m] EXCEPT !.dwell = None]
  IN  /\ hook[m].dwell # None
      /\ IF h.auto THEN Submit(m, h, hook[m].dwell)
                   ELSE hook' = [hook EXCEPT ![m] = h] /\ UNCHANGED <<calls, alone>>
      /\ UNCHANGED <<mounts, mounted, server>>

AutoPass(m) ==
  /\ hook[m].pass # None
  /\ Submit(m, [hook[m] EXCEPT !.pass = None], hook[m].pass)
  /\ UNCHANGED <<mounts, mounted, server>>

-----------------------------------------------------------------------------
(* The user.  The board is up while a duel runs or has ended; an error is  *)
(* a page of its own with nothing on it but RETRY.                         *)

Board(m) == m \in Live /\ hook[m].status \in {"dueling", "ended"}

Mount ==
  /\ ~mounted /\ mounts < MaxMounts
  /\ mounts' = mounts + 1 /\ mounted' = TRUE
  /\ Reset(mounts + 1)
  /\ UNCHANGED server

(* Mutant: the page goes with its count of requests.                       *)
UnmountForgets(m) ==
  /\ Board(m)
  /\ mounted' = FALSE
  /\ hook' = [hook EXCEPT ![m] =
       [hook[m] EXCEPT !.gen = @ + 1, !.dwell = None, !.replay = None, !.inFlight = 0]]
  /\ UNCHANGED <<mounts, calls, server, alone>>

(* RESTART before a coin flip, or CHANGE DECKS: the page goes.             *)
Unmount(m) ==
  /\ Board(m)
  /\ mounted' = FALSE
  /\ hook' = [hook EXCEPT ![m] =
       [hook[m] EXCEPT !.gen = @ + 1, !.dwell = None, !.replay = None]]
  /\ UNCHANGED <<mounts, calls, server, alone>>

Restart(m) ==
  /\ Board(m) \/ (m \in Live /\ hook[m].status = "error")
  /\ Reset(m)
  /\ UNCHANGED <<mounts, mounted, server>>

Click(m) ==
  /\ Board(m)
  /\ hook[m].shown # None
  /\ Submit(m, hook[m], hook[m].shown.at)
  /\ UNCHANGED <<mounts, mounted, server>>

(* Switching on plays the advice on screen, unless a request is under way. *)
Toggle(m) ==
  LET h == hook[m]
      kick == /\ h.replay = None
              /\ h.inFlight = 0
              /\ h.shown # None /\ h.shown.rec
  IN  /\ Recommend
      /\ Board(m) /\ ~h.outcome
      /\ hook' = [hook EXCEPT ![m] =
           [h EXCEPT !.auto = ~h.auto,
                     !.dwell = IF h.auto THEN None ELSE IF kick THEN h.shown.at ELSE @]]
      /\ UNCHANGED <<mounts, mounted, calls, server, alone>>

-----------------------------------------------------------------------------
(* The server.                                                             *)

Over(at) == [at |-> at, done |-> TRUE, lone |-> FALSE, rec |-> FALSE, ticks |-> 0]

(* What it may answer at a prompt: the end, or a choice, advised or not.   *)
Responses(at) ==
  { r \in [at : {at}, done : BOOLEAN, lone : BOOLEAN, rec : BOOLEAN, ticks : ReplayTicks] :
      /\ at >= MaxPrompts => r.done
      /\ r.done => ~r.lone
      /\ r.rec => Recommend /\ ~r.done /\ ~r.lone }

Answered(c, r) ==
  calls' = (calls \ {c}) \union (IF c.open THEN {[c EXCEPT !.served = TRUE, !.resp = r]} ELSE {})

(* reset_duel starts another duel, or refuses and leaves none.             *)
ServeReset(c) ==
  /\ c.kind = "reset" /\ ~c.served
  /\ \/ \E r \in Responses(server.at + 1) :
          /\ server' = [at |-> r.at, over |-> r.done]
          /\ Answered(c, r)
     \/ /\ server' = [server EXCEPT !.over = TRUE]
        /\ Answered(c, None)
  /\ UNCHANGED <<mounts, mounted, hook, alone>>

(* step_duel answers the prompt it is at, whatever index it was sent.      *)
ServeStep(c) ==
  /\ c.kind = "step" /\ ~c.served
  /\ IF server.over
     THEN Answered(c, Over(server.at)) /\ UNCHANGED server
     ELSE \E r \in Responses(server.at + 1) :
            /\ server' = [at |-> r.at, over |-> r.done]
            /\ Answered(c, r)
  /\ UNCHANGED <<mounts, mounted, hook, alone>>

(* A request the client gave up never reaches the server.                  *)
Lose(c) ==
  /\ ~c.open /\ ~c.served
  /\ calls' = calls \ {c}
  /\ UNCHANGED <<mounts, mounted, hook, server, alone>>

-----------------------------------------------------------------------------
Settle  == \E c \in calls : Receive(c) \/ Fail(c)
Serve   == \E c \in calls : ServeReset(c) \/ ServeStep(c)
Timers(m) == Tick(m) \/ DwellOver(m) \/ AutoPass(m)
User(m) == Unmount(m) \/ Restart(m) \/ Click(m) \/ Toggle(m)

Next ==
  \/ Mount
  \/ \E m \in Mounts : User(m) \/ Timers(m)
  \/ Settle \/ Serve
  \/ \E c \in calls : Lose(c)

(* A timer fires; a request is answered or breaks: no fetch of the client  *)
(* has a limit of its own, so this is asked of the network.  The user need *)
(* do nothing.                                                             *)
Spec ==
  /\ Init /\ [][Next]_vars
  /\ WF_vars(Settle) /\ WF_vars(Serve)
  /\ \A m \in Mounts : WF_vars(Tick(m)) /\ WF_vars(DwellOver(m)) /\ WF_vars(AutoPass(m))

-----------------------------------------------------------------------------
Epochs  == UNION { 0 .. MaxResets[m] + 1 : m \in Mounts }

Resp == [at : Nat, done : BOOLEAN, lone : BOOLEAN, rec : BOOLEAN, ticks : ReplayTicks \union {0}]

Calls == [page : Mounts, gen : Epochs, kind : {"reset", "step"}, at : Nat \union {None},
          open : BOOLEAN, served : BOOLEAN, resp : Resp \union {None}]

Hooks == [gen : Epochs, inFlight : Nat,
          status : {"idle", "loading", "dueling", "ended", "error"}, auto : BOOLEAN,
          shown : [at : Nat, rec : BOOLEAN] \union {None}, outcome : BOOLEAN,
          dwell : Nat \union {None}, pass : Nat \union {None},
          replay : [resp : Resp, left : Nat] \union {None}]

Unsettled(m) == {c \in calls : c.page = m /\ c.open}

(* Every variable has its type; the gate counts the requests of its hook   *)
(* that are not settled, also when the page is gone (inFlightRef).         *)
TypeOK ==
  /\ mounts \in 0 .. MaxMounts /\ mounted \in BOOLEAN /\ alone \in BOOLEAN
  /\ server \in [at : Nat, over : BOOLEAN]
  /\ calls \subseteq Calls
  /\ hook \in [Mounts -> Hooks]
  /\ \A m \in Mounts : hook[m].inFlight = Cardinality(Unsettled(m))

(* A step the server has yet to carry out names an action of the prompt    *)
(* the server is at, however clicks, the dwell, auto-passes, replays,      *)
(* restarts, failures and the toggle interleave.  Excepted is the time     *)
(* from a request that overlaps another, or comes from a page that is      *)
(* gone, to the next reset that is alone.                                  *)
StepsMeetTheirPrompt ==
  alone => \A c \in calls : c.kind = "step" /\ ~c.served => c.at = server.at

(* It is the user's turn to do something: to choose, to read the result,   *)
(* or to retry.                                                            *)
Yours(m) ==
  LET h == hook[m]
  IN  \/ h.status = "error"
      \/ h.outcome
      \/ h.shown # None /\ ~(h.auto /\ h.shown.rec)

(* The page never waits for nothing: from loading, replaying, auto-passing *)
(* and autoplay it comes to a state where the user has a turn, with the    *)
(* same exception: then the gate may swallow an auto-pass or an autoplay   *)
(* submit, and nothing sends it again.                                     *)
NeverStalls ==
  \A m \in Mounts : (m \in Live /\ alone) ~> (m \notin Live \/ ~alone \/ Yours(m))
=============================================================================

------------------------------ MODULE RadioPower ------------------------------
(***************************************************************************)
(* setRadioPower of MT6735.java.  The RIL instances of the phones share    *)
(* two system properties: persist.radio.airplane.mode.on remembers whether *)
(* the previous call saw airplane mode, and gsm.ril.eboot tells the vendor *)
(* RIL whether the modem is to be powered.  A call reads the setting and   *)
(* the first property, overwrites it, and then decides; nothing locks this *)
(* sequence, and what it sends goes through the socket of its own phone.   *)
(*                                                                         *)
(* External: the user who toggles airplane mode, the framework that calls  *)
(* setRadioPower, and rild with the modem.                                 *)
(***************************************************************************)
EXTENDS Naturals, Sequences

CONSTANTS
  Phone,    \* the phones, each with a RIL instance and a socket
  Caller,   \* the threads that call setRadioPower
  MaxQueue  \* bound on the requests waiting in a socket

ASSUME MaxQueueAssumption == MaxQueue \in Nat

Power == {"MODEM_POWERON", "MODEM_POWEROFF"}
Command == Power \cup {"RADIO_POWER"}

VARIABLES
  airplane,     \* Settings.Global.AIRPLANE_MODE_ON
  flag,         \* persist.radio.airplane.mode.on
  eboot,        \* gsm.ril.eboot
  pc,           \* callers: position in setRadioPower
  on, isInApm, wasInApm,  \* callers: the argument and the locals
  queue,        \* per phone, the requests sent and not yet executed
  modem,        \* "on" or "off"
  lastPower,    \* history: the power command sent last
  fresh,        \* history: callers whose call began after the last toggle
  seen,         \* history: such a call has returned
  alone,        \* history: the call, if any, that began with nothing in flight
                \*   and has had no other beside it since
  excuses       \* history: what has upset the sequence of calls since the
                \*   last power command that such a call sent

localVars == <<on, isInApm, wasInApm>>
props == <<flag, eboot>>
history == <<lastPower, fresh, seen, alone, excuses>>
vars == <<airplane, props, pc, localVars, queue, modem, history>>

Init ==
  /\ airplane = FALSE /\ flag = FALSE /\ eboot = 0
  /\ pc = [t \in Caller |-> "idle"]
  /\ on = [t \in Caller |-> FALSE]
  /\ isInApm = [t \in Caller |-> FALSE] /\ wasInApm = [t \in Caller |-> FALSE]
  /\ queue = [p \in Phone |-> <<>>]
  /\ modem = "on" /\ lastPower = "MODEM_POWERON"
  /\ fresh = {} /\ seen = FALSE /\ alone = {} /\ excuses = {}

Idle == \A t \in Caller : pc[t] = "idle"
Waiting == \E p \in Phone : queue[p] # <<>>
Quiet == Idle /\ ~Waiting

-----------------------------------------------------------------------------
(* setRadioPower(on, result)                                               *)

(* isInApm = Settings.Global.getInt(...) == 1                              *)
Begin(t, b) ==
  /\ pc[t] = "idle"
  /\ on' = [on EXCEPT ![t] = b]
  /\ isInApm' = [isInApm EXCEPT ![t] = airplane]
  /\ pc' = [pc EXCEPT ![t] = "get"]
  /\ fresh' = fresh \cup {t}
  /\ alone' = IF Quiet THEN {t} ELSE {}
  /\ excuses' = excuses \cup (IF Idle THEN {} ELSE {"overlap"})
                       \cup (IF Waiting THEN {"queued"} ELSE {})
  /\ UNCHANGED <<airplane, props, wasInApm, queue, modem, lastPower, seen>>

(* Mutant of Get: the property is read after it was overwritten.           *)
GetAfterSet(t) ==
  /\ pc[t] = "get"
  /\ wasInApm' = [wasInApm EXCEPT ![t] = isInApm[t]]
  /\ pc' = [pc EXCEPT ![t] = "set"]
  /\ UNCHANGED <<airplane, props, on, isInApm, queue, modem, history>>

(* wasInApm = SystemProperties.get(...).equals("true")                     *)
Get(t) ==
  /\ pc[t] = "get"
  /\ wasInApm' = [wasInApm EXCEPT ![t] = flag]
  /\ pc' = [pc EXCEPT ![t] = "set"]
  /\ UNCHANGED <<airplane, props, on, isInApm, queue, modem, history>>

(* Mutant of Set: the property is set to "true" only.                      *)
SetNeverClears(t) ==
  /\ pc[t] = "set"
  /\ flag' = (flag \/ isInApm[t])
  /\ pc' = [pc EXCEPT ![t] = "decide"]
  /\ UNCHANGED <<airplane, eboot, localVars, queue, modem, history>>

(* SystemProperties.set(..., isInApm ? "true" : "false")                   *)
Set(t) ==
  /\ pc[t] = "set"
  /\ flag' = isInApm[t]
  /\ pc' = [pc EXCEPT ![t] = "decide"]
  /\ UNCHANGED <<airplane, eboot, localVars, queue, modem, history>>

PoweringOn(t) == on[t] /\ wasInApm[t] /\ ~isInApm[t]
PoweringOff(t) == ~on[t] /\ isInApm[t]

(* The three branches.  A call that saw airplane mode end but does not     *)
(* power the modem on has used up the property.                            *)
Decide(t) ==
  /\ pc[t] = "decide"
  /\ \/ PoweringOn(t) /\ eboot' = 0 /\ UNCHANGED excuses
     \/ PoweringOff(t) /\ eboot' = 1 /\ UNCHANGED excuses
     \/ /\ ~PoweringOn(t) /\ ~PoweringOff(t) /\ UNCHANGED eboot
        /\ excuses' = excuses \cup (IF ~on[t] /\ wasInApm[t] THEN {"off call"} ELSE {})
  /\ pc' = [pc EXCEPT ![t] = "send"]
  /\ UNCHANGED <<airplane, flag, localVars, queue, modem, lastPower, fresh, seen, alone>>

(* The calls of the callers in T end, and their locals with them.          *)
Return(T) ==
  /\ pc' = [t \in Caller |-> IF t \in T THEN "idle" ELSE pc[t]]
  /\ on' = [t \in Caller |-> t \notin T /\ on[t]]
  /\ isInApm' = [t \in Caller |-> t \notin T /\ isInApm[t]]
  /\ wasInApm' = [t \in Caller |-> t \notin T /\ wasInApm[t]]

(* Mutant of Send: where nothing is to be decided, super.setRadioPower is  *)
(* missing and the request that was never obtained is sent.                *)
SendNull(t, p) ==
  LET c == CASE PoweringOn(t)  -> "MODEM_POWERON"
             [] PoweringOff(t) -> "MODEM_POWEROFF"
             [] OTHER          -> "null" IN
  /\ pc[t] = "send" /\ Len(queue[p]) < MaxQueue
  /\ queue' = [queue EXCEPT ![p] = Append(@, c)]
  /\ lastPower' = IF c \in Power THEN c ELSE lastPower
  /\ Return({t})
  /\ seen' = (seen \/ t \in fresh)
  /\ alone' = alone \ {t}
  /\ excuses' = IF t \in alone /\ c \in Power THEN {} ELSE excuses
  /\ UNCHANGED <<airplane, props, modem, fresh>>

(* Mutant of Send: leaving airplane mode only switches the radio on.       *)
SendNoPowerOn(t, p) ==
  LET c == IF PoweringOff(t) THEN "MODEM_POWEROFF" ELSE "RADIO_POWER" IN
  /\ pc[t] = "send" /\ Len(queue[p]) < MaxQueue
  /\ queue' = [queue EXCEPT ![p] = Append(@, c)]
  /\ lastPower' = IF c \in Power THEN c ELSE lastPower
  /\ Return({t})
  /\ seen' = (seen \/ t \in fresh)
  /\ alone' = alone \ {t}
  /\ excuses' = IF t \in alone /\ c \in Power THEN {} ELSE excuses
  /\ UNCHANGED <<airplane, props, modem, fresh>>

(* send(rr), or super.setRadioPower, on the socket of some phone p.        *)
Send(t, p) ==
  LET c == CASE PoweringOn(t)  -> "MODEM_POWERON"
             [] PoweringOff(t) -> "MODEM_POWEROFF"
             [] OTHER          -> "RADIO_POWER" IN
  /\ pc[t] = "send" /\ Len(queue[p]) < MaxQueue
  /\ queue' = [queue EXCEPT ![p] = Append(@, c)]
  /\ lastPower' = IF c \in Power THEN c ELSE lastPower
  /\ Return({t})
  /\ seen' = (seen \/ t \in fresh)
  /\ alone' = alone \ {t}
  /\ excuses' = IF t \in alone /\ c \in Power THEN {} ELSE excuses
  /\ UNCHANGED <<airplane, props, modem, fresh>>

Step(t) == Get(t) \/ Set(t) \/ Decide(t) \/ \E p \in Phone : Send(t, p)

-----------------------------------------------------------------------------
(* External.                                                               *)

Toggle ==
  /\ airplane' = ~airplane
  /\ fresh' = {} /\ seen' = FALSE
  /\ UNCHANGED <<props, pc, localVars, queue, modem, lastPower, alone, excuses>>

Execute(p) ==
  /\ queue[p] # <<>>
  /\ modem' = CASE Head(queue[p]) = "MODEM_POWERON"  -> "on"
                [] Head(queue[p]) = "MODEM_POWEROFF" -> "off"
                [] OTHER                             -> modem
  /\ queue' = [queue EXCEPT ![p] = Tail(@)]
  /\ UNCHANGED <<airplane, props, pc, localVars, history>>

(* The socket breaks: what waits in it is not executed.                    *)
SocketLost(p) ==
  /\ queue[p] # <<>>
  /\ queue' = [queue EXCEPT ![p] = <<>>]
  /\ excuses' = excuses \cup {"lost"}
  /\ UNCHANGED <<airplane, props, pc, localVars, modem, lastPower, fresh, seen, alone>>

(* The phone process dies: calls are cut short, the properties stay.       *)
Crash ==
  /\ \E t \in Caller : pc[t] # "idle"
  /\ Return(Caller)
  /\ alone' = {}
  /\ excuses' = excuses \cup {"crash"}
  /\ UNCHANGED <<airplane, props, queue, modem, lastPower, fresh, seen>>

(* The framework wants the radio on outside airplane mode.                 *)
CallOn == ~airplane /\ \E t \in Caller : Begin(t, TRUE)

Next ==
  \/ \E t \in Caller : Step(t) \/ \E b \in BOOLEAN : Begin(t, b)
  \/ \E p \in Phone : Execute(p) \/ SocketLost(p)
  \/ Toggle \/ Crash

Spec == Init /\ [][Next]_vars

(* A call that has begun ends, rild executes what it is sent, and outside  *)
(* airplane mode the framework asks for the radio again.                   *)
FairSpec ==
  /\ Spec
  /\ \A t \in Caller : WF_vars(Step(t))
  /\ \A p \in Phone : WF_vars(Execute(p))
  /\ SF_vars(CallOn)

-----------------------------------------------------------------------------
(* Properties.                                                             *)

(* Settings, properties, callers, sockets and the modem have their shapes. *)
TypeOK ==
  /\ airplane \in BOOLEAN /\ flag \in BOOLEAN /\ eboot \in {0, 1}
  /\ pc \in [Caller -> {"idle", "get", "set", "decide", "send"}]
  /\ on \in [Caller -> BOOLEAN]
  /\ isInApm \in [Caller -> BOOLEAN] /\ wasInApm \in [Caller -> BOOLEAN]
  /\ queue \in [Phone -> Seq(Command)]
  /\ modem \in {"on", "off"} /\ lastPower \in Power
  /\ fresh \subseteq Caller /\ seen \in BOOLEAN /\ alone \subseteq Caller
  /\ excuses \subseteq {"overlap", "queued", "off call", "lost", "crash"}

(* The modem can always be brought back: if it was powered off, the        *)
(* property still says "true", so that the next setRadioPower(true)        *)
(* outside airplane mode sends MODEM_POWERON.  True unless calls overlap,  *)
(* one begins while a request waits in a socket (two sockets reorder the   *)
(* commands of two calls), one is cut short or lost, or the first call     *)
(* after airplane mode is setRadioPower(false); and true again, whatever went wrong, from the     *)
(* next power command that a call sends while it runs alone.               *)
PowerRecoverable == excuses = {} /\ Quiet /\ modem = "off" => flag

(* What leaves the two properties right: the properties are written by the *)
(* calls alone, so requests that wait, get lost or are not made upset only *)
(* the modem.                                                              *)
Harmless == {"queued", "off call", "lost"}

(* After a call that began since the last toggle, the property agrees with *)
(* the setting, even if an earlier call was under way during the toggle    *)
(* and wrote what it had read before, and whatever waits in the sockets.   *)
FlagTracksSetting == excuses \subseteq Harmless /\ Idle /\ seen => flag = airplane

(* gsm.ril.eboot agrees with the power command sent last, unless calls     *)
(* overlapped or one died between the two.                                 *)
EbootMatchesCommand ==
  excuses \subseteq Harmless /\ Idle => (eboot = 0 <=> lastPower = "MODEM_POWERON")

(* Outside airplane mode the modem comes back on: as long as nothing upset *)
(* the calls, it is on again and again unless airplane mode is.            *)
PowerReturns == []<>(airplane \/ modem = "on" \/ excuses # {})
=============================================================================

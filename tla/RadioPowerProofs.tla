--------------------------- MODULE RadioPowerProofs ----------------------------
(***************************************************************************)
(* The safety properties of RadioPower for any number of phones and        *)
(* callers and any queue length.  The sequence read - overwrite - decide - *)
(* send has an invariant for each of its positions (AtInv, PowerInv), which *)
(* holds as long as one call runs at a time.                               *)
(***************************************************************************)
EXTENDS RadioPower, SequenceTheorems, TLAPS

Busy(t) == pc[t] # "idle"

(* At most one call is under way.                                          *)
OneCall == \A t, u \in Caller : Busy(t) /\ Busy(u) => t = u

EbootAgrees == eboot = 0 <=> lastPower = "MODEM_POWERON"

(* The properties of a call at each position, while calls come one by one. *)
AtInv ==
  /\ OneCall
  /\ seen => flag = airplane
  /\ (\A t \in Caller : pc[t] # "send") => EbootAgrees
  /\ \A t \in Caller :
       /\ Busy(t) /\ t \in fresh => isInApm[t] = airplane
       /\ Busy(t) /\ t \notin fresh => ~seen
       /\ pc[t] \in {"decide", "send"} => flag = isInApm[t]
       /\ pc[t] = "send" =>
            /\ PoweringOn(t) => eboot = 0
            /\ PoweringOff(t) => eboot = 1
            /\ ~PoweringOn(t) /\ ~PoweringOff(t) => EbootAgrees

(* The requests in the sockets: a call begins when there are none.         *)
QueueInv ==
  /\ \A t \in Caller, p \in Phone : Busy(t) => queue[p] = <<>>
  /\ \A p, q \in Phone : queue[p] # <<>> /\ queue[q] # <<>> => p = q
  /\ \A p \in Phone : queue[p] # <<>> => Len(queue[p]) = 1

Off == modem = "off"

(* How the memory of a powered-off modem passes from the property to the   *)
(* local of the call, and into the request it sends or back.               *)
PowerInv ==
  /\ QueueInv
  /\ Quiet /\ Off => flag
  /\ \A p \in Phone : queue[p] # <<>> =>
       /\ queue[p][1] = "MODEM_POWEROFF" => flag
       /\ queue[p][1] = "RADIO_POWER" /\ Off => flag
  /\ \A t \in Caller :
       /\ pc[t] = "get" /\ Off => flag
       /\ pc[t] \in {"set", "decide"} /\ Off => wasInApm[t]
       /\ pc[t] = "send" /\ Off /\ ~isInApm[t] => PoweringOn(t)

(* A call that runs alone: nothing else is in flight, and what it read and *)
(* wrote still stands, whatever happened before it began.                  *)
AloneInv ==
  \A t \in alone :
    /\ Busy(t) /\ \A u \in Caller : u # t => pc[u] = "idle"
    /\ \A p \in Phone : queue[p] = <<>>
    /\ t \in fresh => isInApm[t] = airplane
    /\ t \notin fresh => ~seen
    /\ pc[t] \in {"decide", "send"} => flag = isInApm[t]
    /\ pc[t] = "send" /\ PoweringOn(t) => eboot = 0
    /\ pc[t] = "send" /\ PoweringOff(t) => eboot = 1

IInv ==
  /\ TypeOK
  /\ AloneInv
  /\ excuses \subseteq Harmless => AtInv
  /\ excuses = {} => PowerInv

-----------------------------------------------------------------------------
(* While a call runs, no other call is the one that ran alone.             *)
LEMMA OnlyAlone ==
  ASSUME IInv, NEW t \in Caller, pc[t] # "idle"
  PROVE  alone \subseteq {t}
<1> SUFFICES ASSUME NEW u \in alone PROVE u = t
  OBVIOUS
<1> QED BY DEF IInv, AloneInv

(* A call begins: no other is under way unless that becomes an excuse, and *)
(* no request waits unless that does.                                      *)
LEMMA BeginInv ==
  ASSUME IInv, NEW t \in Caller, NEW b \in BOOLEAN, Begin(t, b)
  PROVE  IInv'
<1>1. TypeOK'
  BY Zenon DEF IInv, TypeOK, Begin, props
<1>2. ASSUME excuses' \subseteq Harmless PROVE AtInv'
  <2>1. Idle /\ AtInv
    BY <1>2, Zenon DEF IInv, Begin, Harmless
  <2>2. \A u \in Caller : u # t => pc'[u] = "idle"
    BY <2>1, Zenon DEF Begin, Idle, IInv, TypeOK
  <2>3. pc'[t] = "get" /\ t \in fresh' /\ isInApm'[t] = airplane'
    BY Zenon DEF Begin, IInv, TypeOK
  <2>4. OneCall'
    BY <2>2 DEF OneCall, Busy
  <2>5. (seen => flag = airplane)' /\ EbootAgrees'
    BY <2>1 DEF AtInv, Idle, Begin, props, EbootAgrees
  <2> QED BY <2>2, <2>3, <2>4, <2>5 DEF AtInv, Busy
<1>3. ASSUME excuses' = {} PROVE PowerInv'
  <2>1. Quiet /\ PowerInv /\ queue' = queue
    BY <1>3 DEF IInv, Begin, Quiet, Idle, Waiting
  <2>2. \A u \in Caller : u # t => pc'[u] = "idle"
    BY <2>1, Zenon DEF Begin, Quiet, Idle, IInv, TypeOK
  <2>3. pc'[t] = "get" /\ ~Quiet'
    BY Zenon DEF Begin, Quiet, Idle, Waiting, IInv, TypeOK
  <2>4. Off' => flag'
    BY <2>1 DEF PowerInv, Off, Begin, props
  <2>5. QueueInv' /\ \A p \in Phone : queue'[p] = <<>>
    BY <2>1 DEF QueueInv, Quiet, Waiting
  <2> QED BY <2>2, <2>3, <2>4, <2>5 DEF PowerInv
<1>4. AloneInv'
  <2> SUFFICES ASSUME Quiet PROVE AloneInv'
    BY DEF Begin, AloneInv
  <2>1. alone' = {t} /\ pc'[t] = "get" /\ t \in fresh' /\ isInApm'[t] = airplane'
        /\ (\A u \in Caller : u # t => pc'[u] = "idle") /\ \A p \in Phone : queue'[p] = <<>>
    BY Zenon DEF Begin, Quiet, Idle, Waiting, IInv, TypeOK
  <2> QED BY <2>1 DEF AloneInv, Busy
<1> QED BY <1>1, <1>2, <1>3, <1>4 DEF IInv

(* The call reads the property: its local takes over what the property     *)
(* knew.                                                                   *)
LEMMA GetInv ==
  ASSUME IInv, NEW t \in Caller, Get(t)
  PROVE  IInv'
<1> USE DEF Get, props, history
<1>1. TypeOK'
  BY Zenon DEF IInv, TypeOK
<1>0. /\ pc[t] = "get" /\ pc'[t] = "set" /\ wasInApm'[t] = flag
      /\ \A u \in Caller : u # t => pc'[u] = pc[u] /\ wasInApm'[u] = wasInApm[u]
  BY Zenon DEF IInv, TypeOK
<1>2. ASSUME excuses' \subseteq Harmless PROVE AtInv'
  <2>1. AtInv BY <1>2 DEF IInv
  <2>2. OneCall' BY <1>0, <2>1 DEF AtInv, OneCall, Busy
  <2>3. \A u \in Caller : u # t => pc[u] = "idle"
    BY <1>0, <2>1 DEF AtInv, OneCall, Busy
  <2>4. EbootAgrees' BY <1>0, <2>1, <2>3 DEF AtInv, EbootAgrees
  <2> QED BY <1>0, <2>1, <2>2, <2>3, <2>4 DEF AtInv, Busy
<1>3. ASSUME excuses' = {} PROVE PowerInv'
  <2>1. PowerInv /\ AtInv BY <1>3 DEF IInv
  <2>2. \A u \in Caller : u # t => pc[u] = "idle"
    BY <1>0, <2>1 DEF AtInv, OneCall, Busy
  <2>3. QueueInv' /\ ~Quiet' BY <1>0, <2>1 DEF PowerInv, QueueInv, Busy, Quiet, Idle
  <2> QED BY <1>0, <2>1, <2>2, <2>3 DEF PowerInv, Off
<1>4. AloneInv'
  <2> SUFFICES ASSUME NEW u \in alone
               PROVE  AloneInv'
    BY DEF AloneInv
  <2>0. alone \subseteq {t} BY <1>0, OnlyAlone
  <2>1. u = t /\ alone' = alone /\ alone = {t} BY <2>0
  <2> QED BY <1>0, <2>1 DEF AloneInv, Busy, IInv, PoweringOn, PoweringOff
<1> QED BY <1>1, <1>2, <1>3, <1>4 DEF IInv

(* The call overwrites the property; only its local remembers now.         *)
LEMMA SetInv ==
  ASSUME IInv, NEW t \in Caller, Set(t)
  PROVE  IInv'
<1> USE DEF Set, localVars, history
<1>1. TypeOK'
  BY Zenon DEF IInv, TypeOK
<1>0. /\ pc[t] = "set" /\ pc'[t] = "decide" /\ flag' = isInApm[t]
      /\ \A u \in Caller : u # t => pc'[u] = pc[u]
  BY Zenon DEF IInv, TypeOK
<1>2. ASSUME excuses' \subseteq Harmless PROVE AtInv'
  <2>1. AtInv BY <1>2 DEF IInv
  <2>2. OneCall' BY <1>0, <2>1 DEF AtInv, OneCall, Busy
  <2>3. \A u \in Caller : u # t => pc[u] = "idle"
    BY <1>0, <2>1 DEF AtInv, OneCall, Busy
  <2>4. EbootAgrees' BY <1>0, <2>1, <2>3 DEF AtInv, EbootAgrees
  <2>5. seen => isInApm[t] = airplane
    BY <1>0, <2>1 DEF AtInv, Busy
  <2> QED BY <1>0, <2>1, <2>2, <2>3, <2>4, <2>5 DEF AtInv, Busy
<1>3. ASSUME excuses' = {} PROVE PowerInv'
  <2>1. PowerInv /\ AtInv BY <1>3 DEF IInv
  <2>2. \A u \in Caller : u # t => pc[u] = "idle"
    BY <1>0, <2>1 DEF AtInv, OneCall, Busy
  <2>3. QueueInv' /\ ~Quiet' BY <1>0, <2>1 DEF PowerInv, QueueInv, Busy, Quiet, Idle
  <2>4. \A p \in Phone : queue'[p] = <<>> BY <1>0, <2>1 DEF PowerInv, QueueInv, Busy
  <2> QED BY <1>0, <2>1, <2>2, <2>3, <2>4 DEF PowerInv, Off
<1>4. AloneInv'
  <2> SUFFICES ASSUME NEW u \in alone
               PROVE  AloneInv'
    BY DEF AloneInv
  <2>0. alone \subseteq {t} BY <1>0, OnlyAlone
  <2>1. u = t /\ alone' = alone /\ alone = {t} BY <2>0
  <2> QED BY <1>0, <2>1 DEF AloneInv, Busy, IInv, PoweringOn, PoweringOff
<1> QED BY <1>1, <1>2, <1>3, <1>4 DEF IInv

(* The branch is chosen: a call that will not power the modem on although  *)
(* it remembers airplane mode is either in airplane mode or an excuse.     *)
LEMMA DecideInv ==
  ASSUME IInv, NEW t \in Caller, Decide(t)
  PROVE  IInv'
<1> USE DEF Decide, localVars
<1>1. TypeOK'
  BY Zenon DEF IInv, TypeOK
<1>0. /\ pc[t] = "decide" /\ pc'[t] = "send"
      /\ \A u \in Caller : u # t => pc'[u] = pc[u]
      /\ airplane' = airplane /\ flag' = flag /\ on' = on /\ isInApm' = isInApm
      /\ wasInApm' = wasInApm /\ queue' = queue /\ modem' = modem
      /\ lastPower' = lastPower /\ fresh' = fresh /\ seen' = seen /\ alone' = alone
      /\ excuses \subseteq excuses'
  BY Zenon DEF IInv, TypeOK
<1>a. on[t] \in BOOLEAN /\ wasInApm[t] \in BOOLEAN /\ isInApm[t] \in BOOLEAN
  BY Zenon DEF IInv, TypeOK
<1>b. PoweringOn(t)' = PoweringOn(t) /\ PoweringOff(t)' = PoweringOff(t)
  BY <1>0, Zenon DEF PoweringOn, PoweringOff
<1>c. /\ PoweringOn(t) => eboot' = 0
      /\ PoweringOff(t) => eboot' = 1
      /\ ~PoweringOn(t) /\ ~PoweringOff(t) => eboot' = eboot
      /\ ~(PoweringOn(t) /\ PoweringOff(t))
  BY Zenon DEF PoweringOn, PoweringOff
<1> HIDE DEF Decide
<1>2. ASSUME excuses' \subseteq Harmless PROVE AtInv'
  <2>1. AtInv BY <1>0, <1>2 DEF IInv
  <2>2. OneCall' BY <1>0, <2>1 DEF AtInv, OneCall, Busy
  <2>3. \A u \in Caller : u # t => pc[u] = "idle"
    BY <1>0, <2>1 DEF AtInv, OneCall, Busy
  <2>4. EbootAgrees
    BY <1>0, <2>1, <2>3 DEF AtInv
  <2>5. ~PoweringOn(t) /\ ~PoweringOff(t) => EbootAgrees'
    BY <1>0, <1>c, <2>4 DEF EbootAgrees
  <2>6. /\ PoweringOn(t)' => eboot' = 0
        /\ PoweringOff(t)' => eboot' = 1
        /\ ~PoweringOn(t)' /\ ~PoweringOff(t)' => EbootAgrees'
    BY <1>b, <1>c, <2>5
  <2>7. (seen => flag = airplane)' BY <1>0, <2>1 DEF AtInv
  <2>8. /\ t \in fresh' => isInApm'[t] = airplane'
        /\ t \notin fresh' => ~seen'
        /\ flag' = isInApm'[t]
    BY <1>0, <2>1 DEF AtInv, Busy
  <2> QED BY <1>0, <2>2, <2>3, <2>6, <2>7, <2>8 DEF AtInv, Busy
<1>3. ASSUME excuses' = {} PROVE PowerInv'
  <2>0. excuses = {} BY <1>0, <1>3
  <2>1. PowerInv /\ AtInv BY <2>0 DEF IInv
  <2>2. \A u \in Caller : u # t => pc[u] = "idle"
    BY <1>0, <2>1 DEF AtInv, OneCall, Busy
  <2>3. QueueInv' /\ ~Quiet' BY <1>0, <2>1 DEF PowerInv, QueueInv, Busy, Quiet, Idle
  <2>4. \A p \in Phone : queue'[p] = <<>> BY <1>0, <2>1 DEF PowerInv, QueueInv, Busy
  <2>5. Off /\ ~isInApm[t] => PoweringOn(t)
    <3>1. Off => wasInApm[t] BY <1>0, <2>1 DEF PowerInv
    <3>2. ~(~PoweringOn(t) /\ ~PoweringOff(t) /\ ~on[t] /\ wasInApm[t])
      BY <1>3, Zenon DEF Decide
    <3> QED BY <1>a, <3>1, <3>2 DEF PoweringOn, PoweringOff
  <2> QED BY <1>0, <1>b, <2>1, <2>2, <2>3, <2>4, <2>5 DEF PowerInv, Off
<1>4. AloneInv'
  <2> SUFFICES ASSUME alone # {} PROVE AloneInv'
    BY <1>0 DEF AloneInv
  <2>0. alone \subseteq {t} BY <1>0, OnlyAlone
  <2>1. alone = {t} BY <2>0
  <2>2. /\ t \in fresh' => isInApm'[t] = airplane'
        /\ t \notin fresh' => ~seen'
        /\ flag' = isInApm'[t] /\ \A u \in Caller : u # t => pc'[u] = "idle"
        /\ \A p \in Phone : queue'[p] = <<>>
    BY <1>0, <2>1 DEF AloneInv, IInv
  <2> QED BY <1>0, <1>b, <1>c, <2>1, <2>2 DEF AloneInv, Busy
<1> QED BY <1>1, <1>2, <1>3, <1>4 DEF IInv

(* The request leaves: what it will do to the modem, and the property that *)
(* was set before, agree.  A power command of a call that ran alone makes  *)
(* the invariants true again, whatever went wrong before.                  *)
LEMMA SendInv ==
  ASSUME IInv, NEW t \in Caller, NEW p \in Phone, Send(t, p)
  PROVE  IInv'
<1> DEFINE c == CASE PoweringOn(t)  -> "MODEM_POWERON"
                  [] PoweringOff(t) -> "MODEM_POWEROFF"
                  [] OTHER          -> "RADIO_POWER"
<1>0. /\ pc[t] = "send" /\ pc'[t] = "idle"
      /\ \A u \in Caller : u # t => pc'[u] = pc[u] /\ isInApm'[u] = isInApm[u]
      /\ queue' = [queue EXCEPT ![p] = Append(@, c)]
      /\ lastPower' = IF c \in Power THEN c ELSE lastPower
      /\ seen' = (seen \/ t \in fresh) /\ alone' = alone \ {t}
      /\ excuses' = IF t \in alone /\ c \in Power THEN {} ELSE excuses
      /\ UNCHANGED <<airplane, flag, eboot, modem, fresh>>
  BY Zenon DEF Send, Return, props, IInv, TypeOK
<1>a. on[t] \in BOOLEAN /\ wasInApm[t] \in BOOLEAN /\ isInApm[t] \in BOOLEAN
  BY Zenon DEF IInv, TypeOK
<1>c. /\ PoweringOn(t) => c = "MODEM_POWERON"
      /\ PoweringOff(t) => c = "MODEM_POWEROFF"
      /\ ~PoweringOn(t) /\ ~PoweringOff(t) => c = "RADIO_POWER"
      /\ ~(PoweringOn(t) /\ PoweringOff(t))
  BY <1>a DEF PoweringOn, PoweringOff
<1>d. c \in Command
  BY <1>c DEF Command, Power
<1> HIDE DEF c
<1>1. TypeOK'
  <2>1. queue' \in [Phone -> Seq(Command)]
    <3>1. queue[p] \in Seq(Command) BY Zenon DEF IInv, TypeOK
    <3>2. Append(queue[p], c) \in Seq(Command) BY <1>d, <3>1
    <3> QED BY <1>0, <3>2, Zenon DEF IInv, TypeOK
  <2>2. lastPower' \in Power
    BY <1>0, Zenon DEF IInv, TypeOK
  <2>3. /\ pc' \in [Caller -> {"idle", "get", "set", "decide", "send"}]
        /\ on' \in [Caller -> BOOLEAN]
        /\ isInApm' \in [Caller -> BOOLEAN] /\ wasInApm' \in [Caller -> BOOLEAN]
    BY Zenon DEF Send, Return, IInv, TypeOK
  <2>4. seen' \in BOOLEAN BY <1>0, Zenon DEF IInv, TypeOK
  <2> QED BY <1>0, <2>1, <2>2, <2>3, <2>4, Zenon DEF IInv, TypeOK
<1>2. ASSUME \A u \in Caller : pc'[u] = "idle",
             flag = isInApm[t], t \in fresh => isInApm[t] = airplane,
             t \notin fresh /\ seen => flag = airplane,
             PoweringOn(t) => eboot = 0, PoweringOff(t) => eboot = 1,
             ~PoweringOn(t) /\ ~PoweringOff(t) => EbootAgrees
      PROVE  AtInv'
  <2>1. (seen => flag = airplane)'
    <3>1. CASE t \in fresh BY <1>0, <1>2, <3>1
    <3>2. CASE t \notin fresh BY <1>0, <1>2, <3>2, Zenon
    <3> QED BY <3>1, <3>2
  <2>2. EbootAgrees'
    <3>1. CASE PoweringOn(t)
      BY <1>0, <1>2, <1>c, <3>1 DEF EbootAgrees, Power
    <3>2. CASE PoweringOff(t)
      BY <1>0, <1>2, <1>c, <3>2 DEF EbootAgrees, Power
    <3>3. CASE ~PoweringOn(t) /\ ~PoweringOff(t)
      BY <1>0, <1>2, <1>c, <3>3 DEF EbootAgrees, Power
    <3> QED BY <3>1, <3>2, <3>3
  <2> QED BY <1>2, <2>1, <2>2 DEF AtInv, OneCall, Busy
<1>3. ASSUME \A u \in Caller : pc'[u] = "idle", \A q \in Phone : queue[q] = <<>>,
             flag = isInApm[t],
             c = "RADIO_POWER" /\ Off /\ ~isInApm[t] => PoweringOn(t)
      PROVE  PowerInv'
  <2>1. queue'[p] = <<c>> /\ \A q \in Phone : q # p => queue'[q] = <<>>
    <3>1. Append(<<>>, c) = <<c>> OBVIOUS
    <3> QED BY <1>0, <1>3, <3>1, Zenon DEF IInv, TypeOK
  <2>2. QueueInv'
    <3>1. Len(queue'[p]) = 1 BY <2>1
    <3> QED BY <1>3, <2>1, <3>1, Zenon DEF QueueInv, Busy
  <2>3. ~Quiet'
    BY <2>1 DEF Quiet, Waiting
  <2>4. /\ c = "MODEM_POWEROFF" => flag'
        /\ c = "RADIO_POWER" /\ Off' => flag'
    BY <1>0, <1>a, <1>c, <1>3 DEF Off, PoweringOff
  <2> QED BY <1>3, <2>1, <2>2, <2>3, <2>4 DEF PowerInv
<1>4. AloneInv'
  <2>1. alone \ {t} = {}
    BY <1>0, OnlyAlone
  <2> QED BY <1>0, <2>1 DEF AloneInv
<1>5. CASE t \in alone /\ c \in Power
  <2>1. /\ \A u \in Caller : pc'[u] = "idle"
        /\ \A q \in Phone : queue[q] = <<>>
        /\ flag = isInApm[t] /\ (t \in fresh => isInApm[t] = airplane)
        /\ (t \notin fresh => ~seen)
        /\ (PoweringOn(t) => eboot = 0) /\ (PoweringOff(t) => eboot = 1)
    BY <1>0, <1>5 DEF IInv, AloneInv
  <2>2. (PoweringOn(t) \/ PoweringOff(t)) /\ c # "RADIO_POWER"
    BY <1>c, <1>5 DEF Power
  <2>3. AtInv' BY <1>2, <2>1, <2>2
  <2>4. PowerInv' BY <1>3, <2>1, <2>2
  <2> QED BY <1>1, <1>4, <2>3, <2>4 DEF IInv
<1>6. CASE ~(t \in alone /\ c \in Power)
  <2>0. excuses' = excuses
    BY <1>0, <1>6
  <2>1. ASSUME AtInv
        PROVE  /\ \A u \in Caller : pc'[u] = "idle"
               /\ flag = isInApm[t] /\ (t \in fresh => isInApm[t] = airplane)
               /\ (t \notin fresh /\ seen => flag = airplane)
               /\ (PoweringOn(t) => eboot = 0) /\ (PoweringOff(t) => eboot = 1)
               /\ (~PoweringOn(t) /\ ~PoweringOff(t) => EbootAgrees)
    BY <1>0, <2>1 DEF AtInv, OneCall, Busy
  <2>2. ASSUME PowerInv
        PROVE  /\ \A q \in Phone : queue[q] = <<>>
               /\ (Off /\ ~isInApm[t] => PoweringOn(t))
    BY <1>0, <2>2 DEF PowerInv, QueueInv, Busy
  <2>3. AtInv => AtInv' BY <1>2, <2>1
  <2>4. AtInv /\ PowerInv => PowerInv' BY <1>3, <2>1, <2>2
  <2> QED BY <1>1, <1>4, <2>0, <2>3, <2>4 DEF IInv
<1> QED BY <1>5, <1>6

(* The setting changes under a running call, which is not fresh any more.  *)
LEMMA ToggleInv ==
  ASSUME IInv, Toggle
  PROVE  IInv'
<1> USE DEF Toggle, props, localVars
<1>1. TypeOK'
  BY Zenon DEF IInv, TypeOK
<1>2. ASSUME excuses' \subseteq Harmless PROVE AtInv'
  <2>1. AtInv BY <1>2 DEF IInv
  <2>2. OneCall' BY <2>1 DEF AtInv, OneCall, Busy
  <2>3. EbootAgrees' = EbootAgrees BY DEF EbootAgrees
  <2>4. \A t \in Caller : PoweringOn(t)' = PoweringOn(t) /\ PoweringOff(t)' = PoweringOff(t)
    BY DEF PoweringOn, PoweringOff
  <2> QED BY <2>1, <2>2, <2>3, <2>4 DEF AtInv, Busy
<1>3. ASSUME excuses' = {} PROVE PowerInv'
  BY <1>3 DEF IInv, PowerInv, QueueInv, Busy, Off, Quiet, Idle, Waiting, PoweringOn
<1>4. AloneInv'
  BY DEF AloneInv, Busy, PoweringOn, PoweringOff, IInv
<1> QED BY <1>1, <1>2, <1>3, <1>4 DEF IInv

(* A request is executed: it was the only one, and the property is set if  *)
(* it powered the modem off.                                               *)
LEMMA ExecuteInv ==
  ASSUME IInv, NEW p \in Phone, Execute(p)
  PROVE  IInv'
<1> USE DEF Execute, props, localVars, history
<1>a. queue \in [Phone -> Seq(Command)] /\ queue[p] # <<>>
  BY Zenon DEF IInv, TypeOK
<1>1. TypeOK'
  <2>1. Tail(queue[p]) \in Seq(Command) BY <1>a
  <2>2. queue' \in [Phone -> Seq(Command)] BY <1>a, <2>1
  <2> QED BY <2>2, Zenon DEF IInv, TypeOK
<1>2. ASSUME excuses' \subseteq Harmless PROVE AtInv'
  <2>1. AtInv BY <1>2 DEF IInv
  <2>2. OneCall' BY <2>1 DEF AtInv, OneCall, Busy
  <2>3. EbootAgrees' = EbootAgrees BY DEF EbootAgrees
  <2>4. \A t \in Caller : PoweringOn(t)' = PoweringOn(t) /\ PoweringOff(t)' = PoweringOff(t)
    BY DEF PoweringOn, PoweringOff
  <2> QED BY <2>1, <2>2, <2>3, <2>4 DEF AtInv, Busy
<1>3. ASSUME excuses' = {} PROVE PowerInv'
  <2>1. PowerInv BY <1>3 DEF IInv
  <2>2. \A t \in Caller : pc[t] = "idle" BY <1>a, <2>1 DEF PowerInv, QueueInv, Busy
  <2>3. Len(queue[p]) = 1 /\ \A q \in Phone : q # p => queue[q] = <<>>
    BY <1>a, <2>1 DEF PowerInv, QueueInv
  <2>4. Tail(queue[p]) = <<>>
    <3>1. queue[p] \in Seq(Command) BY <1>a
    <3>2. Tail(queue[p]) \in Seq(Command) /\ Len(Tail(queue[p])) = 0
      BY <1>a, <2>3, <3>1, HeadTailProperties
    <3> QED BY <3>2, EmptySeq, Zenon
  <2>5. \A q \in Phone : queue'[q] = <<>> BY <1>a, <2>3, <2>4
  <2>6. Head(queue[p]) = queue[p][1] /\ queue[p][1] \in Command
    <3>1. queue[p] \in Seq(Command) BY <1>a
    <3>2. 1 \in 1 .. Len(queue[p]) BY <2>3
    <3>3. queue[p][1] \in Command BY <3>1, <3>2
    <3>4. Head(queue[p]) = queue[p][1] BY <3>1
    <3> QED BY <3>3, <3>4
  <2>7. Off' => flag'
    <3>1. CASE queue[p][1] = "MODEM_POWERON" BY <2>6, <3>1 DEF Off
    <3>2. CASE queue[p][1] = "MODEM_POWEROFF" BY <1>a, <2>1, <3>2 DEF PowerInv
    <3>3. CASE queue[p][1] = "RADIO_POWER"
      <4>1. modem' = modem BY <2>6, <3>3
      <4> QED BY <1>a, <2>1, <3>3, <4>1 DEF PowerInv, Off
    <3> QED BY <2>6, <3>1, <3>2, <3>3 DEF Command, Power
  <2> QED BY <2>2, <2>5, <2>7 DEF PowerInv, QueueInv, Busy
<1>4. AloneInv'
  <2>1. alone = {}
    BY <1>a DEF AloneInv, IInv
  <2> QED BY <2>1 DEF AloneInv
<1> QED BY <1>1, <1>2, <1>3, <1>4 DEF IInv

(* Lost requests and dead calls are excuses.                               *)
LEMMA SocketLostInv ==
  ASSUME IInv, NEW p \in Phone, SocketLost(p)
  PROVE  IInv'
<1> USE DEF SocketLost, props, localVars
<1>1. TypeOK'
  <2>1. <<>> \in Seq(Command) OBVIOUS
  <2>2. queue' \in [Phone -> Seq(Command)] BY <2>1, Zenon DEF IInv, TypeOK
  <2> QED BY <2>2, Zenon DEF IInv, TypeOK
<1>2. ASSUME excuses' \subseteq Harmless PROVE AtInv'
  <2>1. AtInv BY <1>2 DEF IInv
  <2>2. OneCall' BY <2>1 DEF AtInv, OneCall, Busy
  <2>3. EbootAgrees' = EbootAgrees BY DEF EbootAgrees
  <2>4. \A t \in Caller : PoweringOn(t)' = PoweringOn(t) /\ PoweringOff(t)' = PoweringOff(t)
    BY DEF PoweringOn, PoweringOff
  <2> QED BY <2>1, <2>2, <2>3, <2>4 DEF AtInv, Busy
<1>3. excuses' # {}
  OBVIOUS
<1>4. AloneInv'
  <2>1. alone = {}
    BY DEF AloneInv, IInv
  <2> QED BY <2>1 DEF AloneInv
<1> QED BY <1>1, <1>2, <1>3, <1>4 DEF IInv

(* A crash of the phone process keeps the invariant: it is recorded in     *)
(* excuses, and after one IInv claims no more than the types.              *)
LEMMA CrashInv ==
  ASSUME IInv, Crash
  PROVE  IInv'
<1>1. TypeOK'
  BY Zenon DEF IInv, TypeOK, Crash, Return, props
<1>2. ~(excuses' \subseteq Harmless) /\ excuses' # {}
  BY Zenon DEF Crash, Harmless
<1>3. AloneInv'
  BY DEF Crash, AloneInv
<1> QED BY <1>1, <1>2, <1>3 DEF IInv

-----------------------------------------------------------------------------
(* Before the first call the modem is on and nothing is under way.         *)
LEMMA InitInv == Init => IInv
<1> SUFFICES ASSUME Init PROVE IInv
  OBVIOUS
<1> USE DEF Init
<1>1. TypeOK
  <2>1. <<>> \in Seq(Command) OBVIOUS
  <2>2. queue \in [Phone -> Seq(Command)] BY <2>1
  <2> QED BY <2>2, Zenon DEF TypeOK, Power
<1>2. AtInv BY DEF AtInv, OneCall, Busy, EbootAgrees
<1>3. PowerInv BY DEF PowerInv, QueueInv, Busy, Off
<1>4. AloneInv BY DEF AloneInv
<1> QED BY <1>1, <1>2, <1>3, <1>4 DEF IInv

(* Every step of the callers and of their surroundings keeps it.           *)
LEMMA NextInv == IInv /\ [Next]_vars => IInv'
<1> SUFFICES ASSUME IInv, [Next]_vars PROVE IInv'
  OBVIOUS
<1>1. CASE \E t \in Caller : Step(t) \/ \E b \in BOOLEAN : Begin(t, b)
  BY <1>1, BeginInv, GetInv, SetInv, DecideInv, SendInv DEF Step
<1>2. CASE \E p \in Phone : Execute(p) \/ SocketLost(p)
  BY <1>2, ExecuteInv, SocketLostInv
<1>3. CASE Toggle BY <1>3, ToggleInv
<1>4. CASE Crash BY <1>4, CrashInv
<1>5. CASE UNCHANGED vars
  <2> USE <1>5 DEF vars, props, localVars, history
  <2>1. TypeOK' BY Zenon DEF IInv, TypeOK
  <2>2. AtInv' <=> AtInv
    BY DEF AtInv, OneCall, Busy, EbootAgrees, PoweringOn, PoweringOff
  <2>3. PowerInv' <=> PowerInv
    BY DEF PowerInv, QueueInv, Busy, Off, Quiet, Idle, Waiting, PoweringOn
  <2>4. AloneInv' <=> AloneInv
    BY DEF AloneInv, Busy, PoweringOn, PoweringOff
  <2> QED BY <2>1, <2>2, <2>3, <2>4 DEF IInv
<1> QED BY <1>1, <1>2, <1>3, <1>4, <1>5 DEF Next

(* IInv holds in every reachable state: the steps above, put together.     *)
LEMMA Invariance == Spec => []IInv
BY InitInv, NextInv, PTL DEF Spec

(* The state of setRadioPower, for any number of phones and callers.       *)
THEOREM TypeCorrect == Spec => []TypeOK
<1>1. IInv => TypeOK BY DEF IInv
<1> QED BY <1>1, Invariance, PTL

(* setRadioPower never forgets a modem it powered off, as long as calls    *)
(* come one at a time, none is lost or cut short, and the first call after *)
(* airplane mode asks for the radio; after any of these, a power command   *)
(* sent by a call that runs alone repairs the properties.                  *)
THEOREM ModemNotForgotten == Spec => []PowerRecoverable
<1>1. IInv => PowerRecoverable BY DEF IInv, PowerInv, PowerRecoverable, Off
<1> QED BY <1>1, Invariance, PTL

(* persist.radio.airplane.mode.on catches up with the setting by the first *)
(* call that begins after a toggle, although a running call may write an   *)
(* outdated value after it.                                                *)
THEOREM FlagCatchesUp == Spec => []FlagTracksSetting
<1>1. IInv => FlagTracksSetting BY DEF IInv, AtInv, FlagTracksSetting
<1> QED BY <1>1, Invariance, PTL

(* gsm.ril.eboot is set before the power command it goes with, and between *)
(* calls it is the value of the last one.                                  *)
THEOREM EbootCorrect == Spec => []EbootMatchesCommand
<1>1. IInv => EbootMatchesCommand
  BY DEF IInv, AtInv, EbootMatchesCommand, EbootAgrees, Idle
<1> QED BY <1>1, Invariance, PTL
================================================================================

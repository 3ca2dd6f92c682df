-------------------------------- MODULE Mrdump ---------------------------------
(***************************************************************************)
(* libmrdump (mrdump_status.c) and mrdump_tool: processes that read and    *)
(* clear the status block which the boot loader leaves on the expdb        *)
(* partition after a kernel crash.  Clearing is a read, a change of the    *)
(* copy and a write, without a lock and without a sync; a process may be   *)
(* cut off by a crash or a power loss between any two of its calls.        *)
(***************************************************************************)
EXTENDS Naturals, Sequences

CONSTANTS
  Proc,     \* processes that use the library
  Statuses, \* the status texts the boot loader writes: sequences of lines
  Mode,     \* operands of "MODE:" lines
  MaxDumps  \* bound on the number of crashes

(* The lines of a status text, as far as the parser tells them apart: a    *)
(* status, any other line counting as FAILED, and the two with an operand. *)
Line(k, v) == [key |-> k, val |-> v]
Lines ==
  [key: {"OK", "NONE", "CLEAR", "FAILED"}, val: {""}]
    \cup [key: {"OUTPUT"}, val: {"EXT4_DATA", "VFAT_INT_STORAGE", "?"}]
    \cup [key: {"MODE"}, val: Mode]

ASSUME MaxDumpsAssumption == MaxDumps \in Nat
ASSUME StatusesAssumption == Statuses \subseteq Seq(Lines)

ClearText == <<Line("CLEAR", "")>>

VARIABLES
  disk,    \* the block on the partition
  cache,   \* the block as the running system sees it
  pc, buf, \* per process: position, and its copy of the block
  out,     \* per process: what its last command printed
  cleared, \* history: a clear has returned true since the last restart
  last,    \* history: the status text of the last crash
  dumps    \* number of crashes so far

vars == <<disk, cache, pc, buf, out, cleared, last, dumps>>

(* memset(result, 0, ..): MRDUMP_STATUS_NONE and MRDUMP_OUTPUT_NULL.       *)
NoResult == [ok |-> FALSE, status |-> "NONE", output |-> "NULL", mode |-> "",
             line |-> <<>>, log |-> 0]

(* A block: signature, status text, and the dump its log describes.        *)
Blank == [sig |-> FALSE, text |-> <<>>, log |-> 0]

(* What the tool prints; nothing, to begin with.                           *)
Silent == [msg |-> "", mode |-> "", output |-> "", line |-> <<>>, log |-> 0]
Say(m) == [Silent EXCEPT !.msg = m]

Init ==
  /\ disk = Blank /\ cache = Blank
  /\ pc = [p \in Proc |-> "idle"] /\ buf = [p \in Proc |-> Blank]
  /\ out = [p \in Proc |-> Silent]
  /\ cleared = FALSE /\ last = <<>> /\ dumps = 0

-----------------------------------------------------------------------------
(* mrdump_status_get: the parser.                                          *)

(* Mutant of ParseLine: the first OUTPUT line is kept.                     *)
ParseLineFirst(r, l) ==
  IF ~r.ok THEN r ELSE
  CASE l.key = "OUTPUT" /\ l.val \in {"EXT4_DATA", "VFAT_INT_STORAGE"} /\ r.output = "NULL"
         -> [r EXCEPT !.output = l.val]
    [] l.key = "OUTPUT" /\ l.val \notin {"EXT4_DATA", "VFAT_INT_STORAGE"}
         -> [r EXCEPT !.ok = FALSE]
    [] l.key = "MODE" -> [r EXCEPT !.mode = l.val]
    [] OTHER -> r

(* One turn of the loop over the lines after "OK".  An output it does not  *)
(* know makes the call fail; other lines are skipped.                      *)
ParseLine(r, l) ==
  IF ~r.ok THEN r ELSE
  CASE l.key = "OUTPUT" /\ l.val \in {"EXT4_DATA", "VFAT_INT_STORAGE"}
         -> [r EXCEPT !.output = l.val]
    [] l.key = "OUTPUT" /\ l.val \notin {"EXT4_DATA", "VFAT_INT_STORAGE"}
         -> [r EXCEPT !.ok = FALSE]
    [] l.key = "MODE" -> [r EXCEPT !.mode = l.val]
    [] OTHER -> r

(* The loop: the first line is "OK".                                       *)
ParseLines(r, t) ==
  LET parsed[i \in 0 .. Len(t) - 1] ==
        IF i = 0 THEN r ELSE ParseLine(parsed[i - 1], t[i + 1])
  IN  parsed[Len(t) - 1]

(* The result for a block: false for a bad signature or an empty text.     *)
(* The log is copied last, so a call that fails leaves it out.             *)
Parse(block) ==
  LET t == block.text
      got == [NoResult EXCEPT !.ok = TRUE, !.line = t, !.log = block.log]
  IN  IF ~block.sig \/ t = <<>> THEN NoResult
      ELSE CASE t[1].key = "OK" -> ParseLines([got EXCEPT !.status = "OK"], t)
             [] t[1].key \in {"NONE", "CLEAR"} -> got
             [] OTHER -> [got EXCEPT !.status = "FAILED"]

-----------------------------------------------------------------------------
(* mrdump_tool.                                                            *)

(* Mutant of dump_status_ok: the output is printed as it is stored.        *)
dump_status_okRaw(r) == [Say("Ok") EXCEPT !.mode = r.mode, !.output = r.output]

dump_status_ok(r) ==
  [Say("Ok") EXCEPT !.mode = r.mode,
     !.output = CASE r.output = "NULL" -> "null"
                  [] r.output = "USB" -> "usb"
                  [] r.output = "EXT4_DATA" -> "ext4/data partition"
                  [] r.output = "VFAT_INT_STORAGE" -> "vfat/internal partition"]

(* What main prints for a result of mrdump_status_get.                     *)
Printed(cmd, r) ==
  CASE ~r.ok -> Say("get status failed")
    [] r.ok /\ cmd = "status-log" -> [Say("log") EXCEPT !.line = r.line, !.log = r.log]
    [] r.ok /\ cmd = "status-get" /\ r.status = "OK" -> dump_status_ok(r)
    [] r.ok /\ cmd = "status-get" /\ r.status # "OK" -> Say(r.status)

(* status-get and status-log; expdb_open, the seek or the read may fail.   *)
StatusGet(p, cmd) ==
  /\ pc[p] = "idle"
  /\ \E r \in {Parse(cache), NoResult} : out' = [out EXCEPT ![p] = Printed(cmd, r)]
  /\ UNCHANGED <<disk, cache, pc, buf, cleared, last, dumps>>

(* is-supported: whether the module's version file can be read.            *)
mrdump_is_supported(p) ==
  /\ pc[p] = "idle"
  /\ \E m \in {"support ok", "not support"} : out' = [out EXCEPT ![p] = Say(m)]
  /\ UNCHANGED <<disk, cache, pc, buf, cleared, last, dumps>>

-----------------------------------------------------------------------------
(* status-clear: mrdump_status_clear.                                      *)

(* expdb_open, lseek64 and read; if one fails the call returns false.      *)
ClearRead(p) ==
  /\ pc[p] = "idle"
  /\ \/ /\ pc' = [pc EXCEPT ![p] = "write"] /\ buf' = [buf EXCEPT ![p] = cache]
        /\ UNCHANGED out
     \/ out' = [out EXCEPT ![p] = Say("clear failed")] /\ UNCHANGED <<pc, buf>>
  /\ UNCHANGED <<disk, cache, cleared, last, dumps>>

(* Mutant of ClearWrite: the block is written without the part read.       *)
ClearWriteFresh(p) ==
  /\ pc[p] = "write"
  /\ pc' = [pc EXCEPT ![p] = "idle"] /\ buf' = [buf EXCEPT ![p] = Blank]
  /\ \/ /\ cache' = [Blank EXCEPT !.text = ClearText, !.sig = TRUE]
        /\ out' = [out EXCEPT ![p] = Silent]
        /\ cleared' = TRUE
     \/ /\ out' = [out EXCEPT ![p] = Say("clear failed")] /\ UNCHANGED cleared
        /\ cache' \in {cache, [buf[p] EXCEPT !.text = ClearText]}
  /\ UNCHANGED <<disk, last, dumps>>

(* Mutant of ClearWrite: a short write counts as a success.                *)
ClearWriteUntested(p) ==
  /\ pc[p] = "write"
  /\ pc' = [pc EXCEPT ![p] = "idle"] /\ buf' = [buf EXCEPT ![p] = Blank]
  /\ cache' \in {cache, [buf[p] EXCEPT !.text = ClearText]}
  /\ out' = [out EXCEPT ![p] = Silent]
  /\ cleared' = TRUE
  /\ UNCHANGED <<disk, last, dumps>>

(* Mutant of ClearWrite: after a failed write the block read is restored.  *)
ClearWriteRestores(p) ==
  /\ pc[p] = "write"
  /\ pc' = [pc EXCEPT ![p] = "idle"] /\ buf' = [buf EXCEPT ![p] = Blank]
  /\ \/ /\ cache' = [buf[p] EXCEPT !.text = ClearText]
        /\ out' = [out EXCEPT ![p] = Silent]
        /\ cleared' = TRUE
     \/ /\ out' = [out EXCEPT ![p] = Say("clear failed")] /\ UNCHANGED cleared
        /\ cache' = buf[p]
  /\ UNCHANGED <<disk, last, dumps>>

(* The second lseek64 and the write.  A short write returns false but may  *)
(* have changed the status, which lies in the first sector.  The signature *)
(* is neither tested nor written anew.                                     *)
ClearWrite(p) ==
  /\ pc[p] = "write"
  /\ pc' = [pc EXCEPT ![p] = "idle"] /\ buf' = [buf EXCEPT ![p] = Blank]
  /\ \/ /\ cache' = [buf[p] EXCEPT !.text = ClearText]
        /\ out' = [out EXCEPT ![p] = Silent]
        /\ cleared' = TRUE
     \/ /\ out' = [out EXCEPT ![p] = Say("clear failed")] /\ UNCHANGED cleared
        /\ cache' \in {cache, [buf[p] EXCEPT !.text = ClearText]}
  /\ UNCHANGED <<disk, last, dumps>>

-----------------------------------------------------------------------------
(* The kernel and the boot loader (external).                              *)

(* The page cache reaches the partition.                                   *)
WriteBack ==
  /\ disk # cache /\ disk' = cache
  /\ UNCHANGED <<cache, pc, buf, out, cleared, last, dumps>>

(* No process survives a restart, and the cache is read from the disk.     *)
Restart(block) ==
  /\ disk' = block /\ cache' = block
  /\ pc' = [p \in Proc |-> "idle"] /\ buf' = [p \in Proc |-> Blank]
  /\ out' = [p \in Proc |-> Silent] /\ cleared' = FALSE

PowerLoss == Restart(disk) /\ UNCHANGED <<last, dumps>>

(* The boot loader writes the outcome of the dump of this crash.           *)
Crash(text) ==
  /\ dumps < MaxDumps /\ dumps' = dumps + 1 /\ last' = text
  /\ Restart([sig |-> TRUE, text |-> text, log |-> dumps + 1])

Next ==
  \/ WriteBack \/ PowerLoss \/ \E text \in Statuses : Crash(text)
  \/ \E p \in Proc :
       \/ mrdump_is_supported(p) \/ ClearRead(p) \/ ClearWrite(p)
       \/ \E cmd \in {"status-get", "status-log"} : StatusGet(p, cmd)

Spec == Init /\ [][Next]_vars

-----------------------------------------------------------------------------
Texts == Statuses \cup {<<>>, ClearText}
Block == [sig: BOOLEAN, text: Texts, log: 0 .. MaxDumps]
Out == [msg: {"", "support ok", "not support", "NONE", "FAILED", "Ok", "log",
              "get status failed", "clear failed"},
        mode: Mode \cup {""}, line: Texts, log: 0 .. MaxDumps,
        output: {"", "null", "ext4/data partition", "vfat/internal partition"}]

(* Blocks, copies and what is printed have their shapes.                   *)
TypeOK ==
  /\ disk \in Block /\ cache \in Block
  /\ pc \in [Proc -> {"idle", "write"}] /\ buf \in [Proc -> Block]
  /\ out \in [Proc -> Out]
  /\ cleared \in BOOLEAN /\ last \in Texts /\ dumps \in 0 .. MaxDumps

(* The block of the last crash is kept through any number of concurrent,   *)
(* failed or interrupted clears and power losses: its log and signature    *)
(* stay, and its status is the one the boot loader wrote or CLEAR; nobody  *)
(* writes back the copy of an older block.                                 *)
BlockOfLastCrash ==
  \A block \in {disk, cache} :
    /\ block.log = dumps /\ (block.sig <=> dumps > 0)
    /\ block.text \in {last, ClearText}

(* A clear is not synced (line 116), so a power loss may undo it; but once *)
(* it has reached the partition only the next crash replaces it, whatever  *)
(* the clears that run beside it do.                                       *)
ClearStays ==
  [][disk.text = ClearText /\ dumps' = dumps => disk'.text = ClearText]_vars

(* Once a clear has returned true, whatever the other processes do, no     *)
(* caller sees a dump until the system restarts.                           *)
ClearedIsNone == cleared => Parse(cache).status = "NONE" /\ cache.text = ClearText

(* What mrdump_status_get reports is what the text says: of a successful   *)
(* dump, the operands of the last OUTPUT and the last MODE line, and it    *)
(* fails exactly if some OUTPUT line is unknown.  status-log prints the    *)
(* log of the last crash, also when another process has cleared the        *)
(* status, and never a status of an earlier one.                           *)
ReportsTheText ==
  LET t == cache.text
      Last1(k) == {i \in 2 .. Len(t) : t[i].key = k /\ \A j \in i + 1 .. Len(t) : t[j].key # k}
      known == \A i \in 2 .. Len(t) :
                 t[i].key = "OUTPUT" => t[i].val \in {"EXT4_DATA", "VFAT_INT_STORAGE"}
  IN  /\ cache.sig /\ t # <<>> /\ t[1].key = "OK" =>
           /\ Parse(cache).ok <=> known
           /\ known => /\ \A i \in Last1("OUTPUT") : Parse(cache).output = t[i].val
                       /\ \A i \in Last1("MODE") : Parse(cache).mode = t[i].val
                       /\ Last1("OUTPUT") = {} => Parse(cache).output = "NULL"
      /\ \A p \in Proc : out[p].msg = "log" =>
           out[p].log = dumps /\ out[p].line \in {last, ClearText}
================================================================================

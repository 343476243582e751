----------------------------- MODULE JsonLines -----------------------------
(***************************************************************************)
(* Append-only JSON-lines files, as every writer of the repository uses    *)
(* them: serialize the record, write it, write "\n", flush, sync_data      *)
(* (store.rs append, agb-policy-broker.rs persist_line, policy.rs          *)
(* append_audit and Gate3AuditLog, agb-admin-server.rs).                   *)
(*                                                                         *)
(* A file is [lines, tail]: lines are the newline-terminated lines, tail is *)
(* what follows the last newline (NoTail, a Torn prefix of a record, or a  *)
(* whole record that only lacks its newline).  A line that a failed write  *)
(* damaged is Garbage: it does not parse.  Nobody repairs a tail, so the   *)
(* next writer's bytes join it.                                            *)
(***************************************************************************)
LOCAL INSTANCE Sequences

CONSTANTS Garbage, NoTail, Torn

EmptyFile == [lines |-> <<>>, tail |-> NoTail]

(* All four steps succeed; also what the file holds when only sync fails.  *)
AppendWhole(file, rec) ==
  [lines |-> Append(file.lines, IF file.tail = NoTail THEN rec ELSE Garbage),
   tail  |-> NoTail]

(* write_all of the record stopped part of the way.                        *)
AppendTorn(file) == [lines |-> file.lines, tail |-> Torn]

(* The record is written and the write of "\n" fails.                      *)
AppendUnterminated(file, rec) ==
  [lines |-> file.lines, tail |-> IF file.tail = NoTail THEN rec ELSE Torn]

(* The files a failed append may leave: nothing written (open failed), a   *)
(* prefix, everything but the newline, everything but durable.             *)
AppendFailures(file, rec) ==
  {file, AppendTorn(file), AppendUnterminated(file, rec), AppendWhole(file, rec)}

(* What BufRead::lines() of a reader yields, an unterminated last line     *)
(* included.                                                               *)
LinesOf(file) ==
  IF file.tail = NoTail THEN file.lines
  ELSE Append(file.lines, IF file.tail = Torn THEN Garbage ELSE file.tail)
=============================================================================

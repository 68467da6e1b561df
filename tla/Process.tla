------------------------------ MODULE Process ------------------------------
(***************************************************************************)
(* What the extension keeps per process: the location of the log file,     *)
(* replaced by PHP code (ini_set) while the C/C++ driver's I/O threads log *)
(* (php_driver.c), and the UUID generator with the pid it was made for,    *)
(* which a fork copies (util/uuid_gen.c).                                  *)
(*                                                                         *)
(* The module entry declares NO_MODULE_GLOBALS, so the engine never calls  *)
(* GINIT and the log callback is never registered: `registered' is FALSE   *)
(* in the build, TRUE as the code was written.                             *)
(***************************************************************************)
EXTENDS Naturals, FiniteSets, Sequences, Null

CONSTANTS IOThread,       \* I/O threads of the driver
          Path,           \* log locations
          MaxUpdates,     \* bound: changes of the log setting
          Proc,           \* processes, one after the other
          Pid,            \* process ids, used again once their process is gone
          MaxUuids        \* bound: UUIDs a generator state gives

ASSUME ProcAssumption == Proc = 1..Cardinality(Proc)
ASSUME NullAssumption == NULL \notin Nat \cup Pid /\ "garbage" \notin Path \cup {NULL}
ASSUME MaxUuidsAssumption == MaxUuids \in Nat

VARIABLES
  registered,      \* is php_driver_log the driver's callback?
  log_lock,        \* [readers, writer] of the uv_rwlock
  log_location,    \* NULL or the number of an allocated string
  strings,         \* the strings ever allocated: [path, live]
  updating,        \* where OnUpdateLog is: "no", "locked", "freed", "stored"
  logging,         \* I/O thread -> [at, length, text] of its php_driver_log
  procs,           \* process -> [pid, alive, uuid_gen, uuid_gen_pid]
  generators,      \* number of cass_uuid_gen_new calls
  uuids            \* history: <<process, uuid>> generated

log == <<registered, log_lock, log_location, strings, updating, logging>>
uuid == <<procs, generators, uuids>>
processVars == <<registered, log_lock, log_location, strings, updating, logging,
          procs, generators, uuids>>

NotLogging == [at |-> "no", length |-> NULL, text |-> NULL]
NoProc == [pid |-> NULL, alive |-> FALSE, uuid_gen |-> NULL, uuid_gen_pid |-> NULL]

ProcessInit ==
  /\ registered \in BOOLEAN
  /\ log_lock = [readers |-> {}, writer |-> FALSE]
  /\ log_location = NULL /\ strings = <<>>
  /\ updating = "no"
  /\ logging = [t \in IOThread |-> NotLogging]
  /\ \E pid \in Pid : procs = [p \in Proc |-> IF p = 1 THEN [NoProc EXCEPT !.pid = pid, !.alive = TRUE]
                                                        ELSE NoProc]
  /\ generators = 0
  /\ uuids = {}

-----------------------------------------------------------------------------
(* OnUpdateLog: lock, free the old string, store the new one, unlock.  The *)
(* new value may be absent.                                                *)
OnUpdateLog ==
  /\ \/ /\ updating = "no" /\ Len(strings) < MaxUpdates
        /\ log_lock.readers = {} /\ log_lock' = [log_lock EXCEPT !.writer = TRUE]
        /\ updating' = "locked" /\ UNCHANGED <<log_location, strings>>
     \/ /\ updating = "locked" /\ updating' = "freed"
        /\ strings' = [i \in DOMAIN strings |->
                         IF i = log_location THEN [strings[i] EXCEPT !.live = FALSE] ELSE strings[i]]
        /\ log_location' = NULL /\ UNCHANGED log_lock
     \/ /\ updating = "freed" /\ updating' = "stored"
        /\ \/ UNCHANGED <<log_location, strings>>
           \/ \E path \in Path :
                /\ log_location' = Len(strings) + 1
                /\ strings' = Append(strings, [path |-> path, live |-> TRUE])
        /\ UNCHANGED log_lock
     \/ /\ updating = "stored" /\ updating' = "no"
        /\ log_lock' = [log_lock EXCEPT !.writer = FALSE]
        /\ UNCHANGED <<log_location, strings>>
  /\ UNCHANGED <<registered, logging, uuid>>

(* uv_rwlock_rdlock, and a variant that does not wait for the writer.      *)
Rdlock_NoWait == TRUE
Rdlock == ~log_lock.writer

(* php_driver_log in I/O thread t: lock, measure, copy, unlock, write.     *)
(* Reading a string that is gone gives "garbage".                          *)
Read == IF log_location = NULL THEN NULL
        ELSE IF strings[log_location].live THEN strings[log_location].path ELSE "garbage"

php_driver_log(t) ==
  /\ registered
  /\ \/ /\ logging[t].at = "no" /\ Rdlock
        /\ log_lock' = [log_lock EXCEPT !.readers = @ \cup {t}]
        /\ logging' = [logging EXCEPT ![t].at = "locked"]
     \/ /\ logging[t].at = "locked"
        /\ logging' = [logging EXCEPT ![t].at = "measured", ![t].length = Read]
        /\ UNCHANGED log_lock
     \/ /\ logging[t].at = "measured"
        /\ logging' = [logging EXCEPT ![t].at = "copied", ![t].text = Read]
        /\ UNCHANGED log_lock
     \/ /\ logging[t].at = "copied"
        /\ logging' = [logging EXCEPT ![t].at = "writing"]
        /\ log_lock' = [log_lock EXCEPT !.readers = @ \ {t}]
     \/ /\ logging[t].at = "writing"
        /\ logging' = [logging EXCEPT ![t] = NotLogging]
        /\ UNCHANGED log_lock
  /\ UNCHANGED <<registered, log_location, strings, updating, uuid>>

-----------------------------------------------------------------------------
(* A process forks: the child has the parent's globals, and a pid no live  *)
(* process has.  Or it ends.                                               *)
Fork(p, pid) ==
  /\ procs[p].alive
  /\ \A q \in Proc : procs[q].alive => procs[q].pid # pid
  /\ \E q \in Proc :
       /\ procs[q] = NoProc /\ \A r \in Proc : procs[r] = NoProc => q <= r
       /\ procs' = [procs EXCEPT ![q] = [procs[p] EXCEPT !.pid = pid]]
  /\ UNCHANGED <<log, generators, uuids>>

Exit(p) ==
  /\ procs[p].alive
  /\ procs' = [procs EXCEPT ![p].alive = FALSE]
  /\ UNCHANGED <<log, generators, uuids>>

(* get_uuid_gen: the generator that serves process p next, [seed, used].   *)
(* The variant only looks whether there is one.                            *)
get_uuid_gen_AnyPid(p) ==
  IF procs[p].uuid_gen = NULL THEN [seed |-> generators + 1, used |-> 0] ELSE procs[p].uuid_gen

get_uuid_gen(p) ==
  IF procs[p].uuid_gen_pid # procs[p].pid THEN [seed |-> generators + 1, used |-> 0]
                                          ELSE procs[p].uuid_gen

(* php_driver_uuid_generate_random and _time draw from the generator,      *)
(* _from_time only uses its node for the time given.                       *)
Generate(p, draws) ==
  LET gen == get_uuid_gen(p) IN
  /\ procs[p].alive /\ gen.used < MaxUuids
  /\ generators' = IF gen.seed > generators THEN gen.seed ELSE generators
  /\ procs' = [procs EXCEPT ![p].uuid_gen = IF draws THEN [gen EXCEPT !.used = @ + 1] ELSE gen,
                            ![p].uuid_gen_pid = procs[p].pid]
  /\ uuids' = uuids \cup {<<p, IF draws THEN <<gen.seed, gen.used>> ELSE <<gen.seed, NULL>>>>}
  /\ UNCHANGED log

ProcessNext ==
  \/ OnUpdateLog
  \/ \E t \in IOThread : php_driver_log(t)
  \/ \E p \in Proc, pid \in Pid : Fork(p, pid)
  \/ \E p \in Proc : Exit(p) \/ \E draws \in BOOLEAN : Generate(p, draws)

ProcessSpec == ProcessInit /\ [][ProcessNext]_processVars

-----------------------------------------------------------------------------
(* An I/O thread writes to one whole log location, or to stderr when none  *)
(* is set: it never reads a string that was freed and never mixes the      *)
(* length of one location with the text of another, whenever PHP code      *)
(* changes the setting.                                                    *)
LogLocationWhole ==
  \A t \in IOThread :
    /\ "garbage" \notin {logging[t].length, logging[t].text}
    /\ logging[t].at \in {"copied", "writing"} => logging[t].length = logging[t].text

(* "This prevents the same UUIDs from being generated in forked            *)
(* processes": two processes generate the same UUID only if they had the   *)
(* same pid, the later one getting the pid of a process that has ended.    *)
UuidsDistinct ==
  \A a, b \in uuids : a[2] = b[2] => procs[a[1]].pid = procs[b[1]].pid
=============================================================================

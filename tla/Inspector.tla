------------------------------- MODULE Inspector -------------------------------
(***************************************************************************)
(* The inspector (src/inspector/): a warp server on a thread and runtime   *)
(* of its own, which main (src/main.rs) starts before the framework runs,  *)
(* and which StopInspectorOnShutdown stops.                                *)
(*                                                                         *)
(* Its page /cache walks the cache directory with several file-system      *)
(* operations per request while the storage adds and removes entries; its  *)
(* other pages answer in one step.  The files are the server's only data:  *)
(* what the storage does to them is MakeDir, PutFile, RemoveFile and       *)
(* RemoveDir.                                                              *)
(***************************************************************************)
EXTENDS Integers, Sequences, FiniteSets, Functions

CONSTANTS
  Requests, \* identities of requests; each is made at most once
  Root,     \* the cache directory
  Dirs,     \* directories of keys (hash[0..2]/hash[2..4]/hash as one)
  Files,    \* what lies in Root (the state file) or in a directory of Dirs
  Parent,   \* the directory a node of Dirs \cup Files lies in
  Rank,     \* place of its lower-case name in the alphabet
  NoPage    \* no listing

Nodes == {Root} \cup Dirs \cup Files
Children(d) == {n \in Dirs \cup Files : Parent[n] = d}
\* A key's directory makes one for the root, too.
Above(n) == IF n = Root THEN {Root} ELSE {Root, Parent[n]}

ASSUME InspectorAssumption ==
  /\ Root \notin Dirs \cup Files /\ Dirs \cap Files = {}
  /\ \A d \in Dirs : Parent[d] = Root
  /\ \A f \in Files : Parent[f] \in Dirs \cup {Root}
  /\ \A n \in Dirs \cup Files : Rank[n] \in Nat

VARIABLES
  fs,        \* the nodes that exist
  \* ---- requests --------------------------------------------------------
  pc,        \* what the handler does next, or how the request ended
  tail,      \* the node asked for
  items,     \* entries read from the directory so far
  plain,     \* those of them whose type could not be read, taken for files
  page,      \* the listing it was answered with
  \* ---- processes -------------------------------------------------------
  server,    \* the framework: "start", "up", "stopping" (SIGTERM), "exited"
  daemon,    \* the configuration asks for a daemon
  thread,    \* of the inspector: "bind", "serve", "drain", "ended", "lost"
  handle,    \* InspectorHandle: "full", "joining" (sender taken and used), "joined"
  \* ---- history ---------------------------------------------------------
  due,       \* entries there since the directory was opened
  gone,      \* requests whose node was not there at some moment
  failed,    \* requests in which a file-system operation failed
  panicked   \* a panic ended the thread

reqVars  == <<pc, tail, items, plain, page>>
procVars == <<server, daemon, thread, handle, panicked>>
vars     == <<fs, reqVars, procVars, due, gone, failed>>

OpenPc == {"metadata", "canonicalize", "is_dir", "read_dir", "next_entry", "read"}
Open == {r \in Requests : pc[r] \in OpenPc}

Init ==
  /\ fs \in {S \in SUBSET Nodes : \A n \in S : Above(n) \subseteq S}
  /\ pc = [r \in Requests |-> "idle"] /\ tail = [r \in Requests |-> Root]
  /\ items = [r \in Requests |-> {}] /\ plain = [r \in Requests |-> {}]
  /\ page = [r \in Requests |-> NoPage]
  /\ server = "start" /\ daemon \in BOOLEAN /\ thread = "bind" /\ handle = "full"
  /\ due = [r \in Requests |-> {}] /\ gone = {} /\ failed = {}
  /\ panicked = FALSE

-----------------------------------------------------------------------------
(* The storage and PersistCacheOnShutdown, as the inspector sees them *)

Appears(S) == /\ fs' = fs \cup S
              /\ UNCHANGED <<reqVars, procVars, due, gone, failed>>
Disappears(n) ==
  /\ n \in fs /\ fs' = fs \ {n}
  /\ due' = [r \in Requests |-> due[r] \ {n}]
  /\ gone' = gone \cup {r \in Open : tail[r] = n}
  /\ UNCHANGED <<reqVars, procVars, failed>>

MakeDir(d) == Appears(Above(d) \cup {d})
PutFile(f) == /\ Parent[f] \in fs
              /\ Parent[f] = Root => server = "stopping"
              /\ Appears({f})
RemoveFile(f) == Parent[f] # Root /\ Disappears(f)
RemoveDirAnyway(d) == d # Root /\ Disappears(d)  \* a mistake: it need not be empty
RemoveDir(d) == d # Root /\ Children(d) \cap fs = {} /\ Disappears(d)

Storage == /\ server \in {"up", "stopping"}
           /\ \/ \E d \in Dirs \cup {Root} : MakeDir(d) \/ RemoveDir(d)
              \/ \E f \in Files : PutFile(f) \/ RemoveFile(f)

-----------------------------------------------------------------------------
(* Requests.  Only a running thread works on them. *)

Serving == thread \in {"serve", "drain"} /\ server # "exited"
Step(r, from, to) == /\ Serving /\ pc[r] = from
                     /\ pc' = [pc EXCEPT ![r] = to]

\* /, /version, /health, /stats and /metrics: one step, and an answer unless
\* /stats panics because the clock was set back behind start_time.
Page(r) ==
  /\ thread = "serve" /\ server # "exited" /\ pc[r] = "idle"
  /\ \E end \in {"ok", "panic"} : pc' = [pc EXCEPT ![r] = end]
  /\ UNCHANGED <<fs, tail, items, plain, page, procVars, due, gone, failed>>

\* An operation that finds what it asks for may fail all the same (EMFILE, EACCES,
\* EIO); the code does not tell such an error from absence.
Fails(r, from, to) == Step(r, from, to) /\ failed' = failed \cup {r}

\* /cache/<tail>: resolve_under_root canonicalises the root, ...
CacheStart(r, n) ==
  /\ thread = "serve" /\ server # "exited" /\ pc[r] = "idle"
  /\ \/ pc' = [pc EXCEPT ![r] = IF Root \in fs THEN "metadata" ELSE "not_found"]
        /\ UNCHANGED failed
     \/ Fails(r, "idle", "not_found")
  /\ tail' = [tail EXCEPT ![r] = n]
  /\ gone' = IF n \in fs THEN gone ELSE gone \cup {r}
  /\ UNCHANGED <<fs, items, plain, page, procVars, due>>

\* ... asks whether the path exists; one that does not is taken as it is, which
\* is refused unless the root is configured in its canonical form, ...
Metadata(r) ==
  /\ \/ tail[r] \in fs /\ Step(r, "metadata", "canonicalize") /\ UNCHANGED failed
     \/ \E to \in {"is_dir", "not_found"} :
          \/ tail[r] \notin fs /\ Step(r, "metadata", to) /\ UNCHANGED failed
          \/ Fails(r, "metadata", to)
  /\ UNCHANGED <<fs, tail, items, plain, page, procVars, due, gone>>

\* ... and canonicalises one that does.
Canonicalize(r) ==
  /\ \/ /\ Step(r, "canonicalize", IF tail[r] \in fs THEN "is_dir" ELSE "not_found")
        /\ UNCHANGED failed
     \/ Fails(r, "canonicalize", "not_found")
  /\ UNCHANGED <<fs, tail, items, plain, page, procVars, due, gone>>

\* A second look decides between a listing and a file; an error means a file.
IsDirByExtension(r) ==  \* a mistake: only the state file's name has an extension
  /\ Step(r, "is_dir", IF tail[r] # Root /\ Parent[tail[r]] = Root /\ tail[r] \in Files
                       THEN "read" ELSE "read_dir")
  /\ UNCHANGED <<fs, tail, items, plain, page, procVars, due, gone, failed>>
IsDir(r) ==
  /\ \/ /\ Step(r, "is_dir", IF tail[r] \in fs \ Files THEN "read_dir" ELSE "read")
        /\ UNCHANGED failed
     \/ Fails(r, "is_dir", "read")
  /\ UNCHANGED <<fs, tail, items, plain, page, procVars, due, gone>>

\* fs::read, which fails on a directory as well.
Read(r) ==
  /\ \/ /\ Step(r, "read", IF tail[r] \in fs \cap Files THEN "ok" ELSE "not_found")
        /\ UNCHANGED failed
     \/ Fails(r, "read", "not_found")
  /\ UNCHANGED <<fs, tail, items, plain, page, procVars, due, gone>>

\* render_dir_listing: read_dir, ...
ReadDir(r) ==
  LET there == tail[r] \in fs \ Files
  IN
  /\ \/ /\ Step(r, "read_dir", IF there THEN "next_entry" ELSE "not_found")
        /\ due' = [due EXCEPT ![r] = IF there THEN Children(tail[r]) \cap fs ELSE {}]
        /\ UNCHANGED failed
     \/ Fails(r, "read_dir", "not_found") /\ UNCHANGED due
  /\ UNCHANGED <<fs, tail, items, plain, page, procVars, gone>>

\* ... next_entry and file_type, until ...
NextEntry(r, n) ==
  /\ n \in (Children(tail[r]) \cap fs) \ items[r]
  /\ items' = [items EXCEPT ![r] = @ \cup {n}]
  /\ \/ Step(r, "next_entry", "next_entry") /\ UNCHANGED <<plain, failed>>
     \/ /\ Fails(r, "next_entry", "next_entry")
        /\ plain' = [plain EXCEPT ![r] = @ \cup {n}]
  /\ UNCHANGED <<fs, tail, page, procVars, due, gone>>

\* ... next_entry fails, which leaves no listing, or ...
NextEntryFails(r) ==
  /\ Fails(r, "next_entry", "not_found")
  /\ UNCHANGED <<fs, tail, items, plain, page, procVars, due, gone>>

\* What a listing shows as directories.
ShownAsDirs(r) == Dirs \ plain[r]

\* The comparator of sort_by: (b.1, a.0) against (a.1, b.0), reversed.
Less(x, y) == (~x[1] /\ y[1]) \/ (x[1] = y[1] /\ x[2] < y[2])
PrecedesUnreversed(D, a, b) ==  \* a mistake: the result is not reversed
  Less(<<b \in D, Rank[a]>>, <<a \in D, Rank[b]>>)
Precedes(D, a, b) == Less(<<a \in D, Rank[b]>>, <<b \in D, Rank[a]>>)

\* ... there is no more.  Entries that stay are read; one that comes or goes meanwhile
\* may be.  Entries of one name stay in the order in which they were read, which is any.
EndOfDir(r) ==
  /\ Step(r, "next_entry", "ok")
  /\ due[r] \subseteq items[r]
  /\ \E list \in Bijection(1..Cardinality(items[r]), items[r]) :
       /\ \A i, j \in DOMAIN list : i < j => ~Precedes(ShownAsDirs(r), list[j], list[i])
       /\ page' = [page EXCEPT ![r] = list]
  /\ UNCHANGED <<fs, tail, items, plain, procVars, due, gone, failed>>

Handle(r) == \/ Metadata(r) \/ Canonicalize(r) \/ IsDir(r) \/ Read(r) \/ ReadDir(r)
             \/ NextEntryFails(r) \/ EndOfDir(r) \/ \E n \in Nodes : NextEntry(r, n)

-----------------------------------------------------------------------------
(* Start and stop *)

\* bind(addr), which panics if the port is taken.
Bind ==
  /\ thread = "bind" /\ server # "exited"
  /\ \/ thread' = "serve" /\ UNCHANGED panicked
     \/ thread' = "ended" /\ panicked' = TRUE
  /\ UNCHANGED <<fs, reqVars, server, daemon, handle, due, gone, failed>>

\* A process that goes away takes its requests with it.
Lose(when) == pc' = [r \in Requests |-> IF when /\ pc[r] \in OpenPc THEN "lost" ELSE pc[r]]

\* run_forever: a daemon is a fork, in which the threads of main do not exist.
RunForever ==
  /\ server = "start" /\ server' = "up"
  /\ thread' = IF daemon THEN "lost" ELSE thread
  /\ Lose(daemon)
  /\ UNCHANGED <<fs, tail, items, plain, page, daemon, handle, due, gone, failed, panicked>>

\* SIGTERM and SIGQUIT change the shutdown watch, SIGINT ends the process.
Terminate ==
  /\ server = "up" /\ server' = "stopping"
  /\ UNCHANGED <<fs, reqVars, daemon, thread, handle, due, gone, failed, panicked>>

\* The end of the grace period and of the runtimes does not wait for the thread.
Exit ==
  /\ server \in {"up", "stopping"} /\ server' = "exited"
  /\ Lose(TRUE)
  /\ UNCHANGED <<fs, tail, items, plain, page, daemon, thread, handle, due, gone, failed, panicked>>

\* StopInspectorOnShutdown::start, once the watch has changed: send, and leave the
\* join to a blocking task.
StopUnheard ==  \* a mistake: who does not listen yet does not hear it
  /\ server = "stopping" /\ handle = "full"
  /\ handle' = IF thread = "bind" THEN "joined" ELSE "joining"
  /\ UNCHANGED <<fs, reqVars, server, daemon, thread, due, gone, failed, panicked>>
Stop ==
  /\ server = "stopping" /\ handle = "full"
  /\ handle' = "joining"
  /\ UNCHANGED <<fs, reqVars, server, daemon, thread, due, gone, failed, panicked>>

\* rx of graceful fires: no more requests, ...
Graceful ==
  /\ thread = "serve" /\ handle = "joining" /\ server # "exited"
  /\ thread' = "drain"
  /\ UNCHANGED <<fs, reqVars, server, daemon, handle, due, gone, failed, panicked>>

\* ... run() returns when the open ones have been answered, and the runtime goes.
RunEnds ==
  /\ thread = "drain" /\ server # "exited" /\ Open = {}
  /\ thread' = "ended"
  /\ UNCHANGED <<fs, reqVars, server, daemon, handle, due, gone, failed, panicked>>

\* th.join() returns; in a daemon there is nobody to join.
Join ==
  /\ handle = "joining" /\ thread = "ended" /\ server # "exited"
  /\ handle' = "joined"
  /\ UNCHANGED <<fs, reqVars, server, daemon, thread, due, gone, failed, panicked>>

-----------------------------------------------------------------------------

Request(r) == Page(r) \/ (\E n \in Nodes : CacheStart(r, n)) \/ Handle(r)
Shutdown == Stop \/ Graceful \/ RunEnds \/ Join
Next == Storage \/ (\E r \in Requests : Request(r))
        \/ Bind \/ RunForever \/ Terminate \/ Exit \/ Shutdown

Spec == Init /\ [][Next]_vars

\* The thread's runtime polls what is ready, and the framework its service.
FairSpec == /\ Spec
            /\ \A r \in Requests : WF_vars(Handle(r))
            /\ WF_vars(Bind) /\ WF_vars(Stop) /\ WF_vars(Graceful)
            /\ WF_vars(RunEnds) /\ WF_vars(Join)

-----------------------------------------------------------------------------
(* Properties *)

\* Every variable has its type, and nothing exists without its directory.
TypeOK ==
  /\ fs \in SUBSET Nodes /\ \A n \in fs : Above(n) \subseteq fs
  /\ pc \in [Requests -> {"idle", "ok", "not_found", "panic", "lost"} \cup OpenPc]
  /\ tail \in [Requests -> Nodes]
  /\ items \in [Requests -> SUBSET Nodes] /\ plain \in [Requests -> SUBSET Nodes]
  /\ due \in [Requests -> SUBSET Nodes]
  /\ page \in [Requests -> {NoPage} \cup Seq(Nodes)]
  /\ server \in {"start", "up", "stopping", "exited"} /\ daemon \in BOOLEAN
  /\ thread \in {"bind", "serve", "drain", "ended", "lost"}
  /\ handle \in {"full", "joining", "joined"}
  /\ gone \in SUBSET Requests /\ failed \in SUBSET Requests /\ panicked \in BOOLEAN

\* /cache looks at its path up to four times while purges and commits go on; it
\* answers 404 only if at one moment the node really was not there, or one of the
\* request's own file-system operations failed.
NotFoundMeansAbsent == \A r \in Requests : pc[r] = "not_found" => r \in gone \cup failed

\* A listing shows entries of its directory only, none twice, and each that was
\* there all along, never a part of them because reading stopped at an error; files
\* before directories and the last name first: the reverse of what the comment at
\* src/inspector/display_disk_cache.rs:63 says.  A directory is shown as a file only
\* after an error of its file_type.
ListingOrder ==
  \A r \in Requests : page[r] # NoPage =>
    /\ \A n \in due[r] : \E i \in DOMAIN page[r] : page[r][i] = n
    /\ \A i \in DOMAIN page[r] : Parent[page[r][i]] = tail[r]
    /\ plain[r] # {} => r \in failed
    /\ \A i, j \in DOMAIN page[r] : i < j =>
         LET a == page[r][i]  b == page[r][j]  D == ShownAsDirs(r)
         IN /\ a # b /\ (a \in D => b \in D)
            /\ (a \in D <=> b \in D) => Rank[a] >= Rank[b]

\* Whenever the signal comes, before the port is bound or in the middle of
\* requests, the thread ends and is joined, unless the process ends first.  A
\* daemon has no such thread, and waits for it in vain.
StopEnds ==
  server = "stopping" ~>
    (thread = "ended" /\ handle = "joined") \/ server = "exited" \/ daemon

-----------------------------------------------------------------------------
(* The inductive invariant *)

\* A path that is not there any more is known not to be, and each step of a request
\* was chosen by what the path named, or by an error.
AbsentOK ==
  \A r \in Requests :
    /\ r \in Open /\ tail[r] \notin fs => r \in gone
    /\ pc[r] = "read" => tail[r] \in Files \/ r \in gone \cup failed
    /\ pc[r] = "read_dir" => tail[r] \notin Files

\* What was read lies in the directory, and there is no end to reading it before.
ItemsOK ==
  \A r \in Requests :
    /\ items[r] \subseteq Children(tail[r]) /\ IsFiniteSet(items[r])
    /\ plain[r] # {} => r \in failed
    /\ pc[r] = "idle" => items[r] = {}

\* An answered listing is what was read, sorted.
PageOK ==
  \A r \in Requests : page[r] # NoPage =>
    /\ pc[r] = "ok" /\ due[r] \subseteq items[r]
    /\ page[r] \in Bijection(1..Cardinality(items[r]), items[r])
    /\ \A i, j \in DOMAIN page[r] :
         i < j => ~Precedes(ShownAsDirs(r), page[r][j], page[r][i])

IInv == TypeOK /\ AbsentOK /\ ItemsOK /\ PageOK /\ NotFoundMeansAbsent

=============================================================================

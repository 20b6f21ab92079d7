----------------------------- MODULE ModelCache -----------------------------
(***************************************************************************)
(* resolve_model_path of bindings/python/sam3cpp/__init__.py: processes    *)
(* that want the same model file find it in the cache or download it to a  *)
(* ".part" file next to it, which they then rename.                        *)
(*                                                                         *)
(* The name of the ".part" file is the same in every process, so they meet *)
(* on it: opening it truncates whatever file has the name, and a file that *)
(* was renamed or unlinked is still written by who had opened it.  Hence   *)
(* files are told from names here, as a file system does.  The body of the *)
(* file is a sequence of chunks, of 8 MiB in the code.                     *)
(***************************************************************************)
EXTENDS Integers

CONSTANTS
  Procs,     \* processes; each resolves the path once
  NChunks,   \* chunks of the whole model file
  NoFile

ASSUME ModelCacheAssumption ==
  /\ NChunks \in Nat \ {0}
  /\ NoFile \notin Procs

VARIABLES
  pc,
  data,     \* the chunks a file holds; a file is named for who created it
  dir,      \* the directory: the file, or None, that each name stands for
  fd,       \* the file a process has opened to write
  at        \* the chunks a process has written, which is where it writes next

cacheVars == <<pc, data, dir, fd, at>>

Chunks == 0 .. NChunks - 1

FileNames == {"part", "model"}

CacheInit ==
  /\ pc = [p \in Procs |-> "start"]
  /\ data = [p \in Procs |-> {}]
  /\ dir = [n \in FileNames |-> NoFile]
  /\ fd = [p \in Procs |-> NoFile]
  /\ at = [p \in Procs |-> 0]

Goto(p, l) == pc' = [pc EXCEPT ![p] = l]

\* Faulty: a process waits while the ".part" file of another one is there.
AfterLookupWaiting(d) ==
  IF d["model"] # NoFile THEN "returned" ELSE IF d["part"] # NoFile THEN "start" ELSE "open"

AfterLookup(d) == IF d["model"] # NoFile THEN "returned" ELSE "open"

(* cached.is_file(): the cached file is used whatever it holds. *)
Lookup(p) ==
  /\ pc[p] = "start"
  /\ Goto(p, AfterLookup(dir))
  /\ UNCHANGED <<data, dir, fd, at>>

(* open(tmp, "wb"), once the server answers: a new file, or an old one *)
(* without its contents.                                               *)
Open(p) ==
  /\ pc[p] = "open"
  /\ LET f == IF dir["part"] = NoFile THEN p ELSE dir["part"]
     IN /\ dir' = [dir EXCEPT !["part"] = f]
        /\ fd' = [fd EXCEPT ![p] = f]
        /\ data' = [data EXCEPT ![f] = {}]
  /\ Goto(p, "download")
  /\ UNCHANGED at

\* Faulty: every other chunk of the body is lost.
NextAtSkipping(n) == n + 2

NextAt(n) == n + 1

\* Faulty: one chunk more is written than there are.
MoreToWriteOne(n) == n <= NChunks

MoreToWrite(n) == n < NChunks

(* One chunk is read and written at the offset of this process. *)
Write(p) ==
  /\ pc[p] = "download" /\ MoreToWrite(at[p])
  /\ data' = [data EXCEPT ![fd[p]] = data[fd[p]] \cup {at[p]}]
  /\ at' = [at EXCEPT ![p] = NextAt(at[p])]
  /\ UNCHANGED <<pc, dir, fd>>

(* resp.read returns nothing: the body ended, or the connection was closed  *)
(* early.  Content-Length is not compared with what arrived.                *)
EndOfBody(p) ==
  /\ pc[p] = "download"
  /\ Goto(p, "rename")
  /\ UNCHANGED <<data, dir, fd, at>>

\* Faulty: the cached file is removed as well.
UnlinkedBoth(d) == [n \in FileNames |-> NoFile]

\* Faulty: the ".part" file is left for the next process to find.
UnlinkedNothing(d) == d

(* tmp.unlink(missing_ok=True) *)
Unlinked(d) == [d EXCEPT !["part"] = NoFile]

(* urlopen, open, read or write raises: the ".part" name is unlinked, even  *)
(* when it is of another process, and the exception goes on to the caller.  *)
Raise(p) ==
  /\ pc[p] \in {"open", "download"}
  /\ dir' = Unlinked(dir)
  /\ Goto(p, "raised")
  /\ UNCHANGED <<data, fd, at>>

(* tmp.rename(cached): whatever file has the ".part" name by now gets the   *)
(* name of the model; without one it raises.                                *)
Rename(p) ==
  /\ pc[p] = "rename"
  /\ \/ /\ dir["part"] = NoFile
        /\ Goto(p, "raised") /\ UNCHANGED dir
     \/ /\ dir["part"] # NoFile
        /\ Goto(p, "returned")
        /\ dir' = [dir EXCEPT !["model"] = dir["part"], !["part"] = NoFile]
  /\ UNCHANGED <<data, fd, at>>

(* The process is killed, or KeyboardInterrupt, which is no Exception, goes *)
(* through: nothing is undone.                                              *)
KillProcess(p) ==
  /\ pc[p] \in {"open", "download", "rename"}
  /\ Goto(p, "killed")
  /\ UNCHANGED <<data, dir, fd, at>>

(* urlopen is given no timeout: a server that stops answering without       *)
(* closing the connection holds the process for ever.                       *)
Stall(p) ==
  /\ pc[p] \in {"open", "download"}
  /\ Goto(p, "stalled")
  /\ UNCHANGED <<data, dir, fd, at>>

Ended(p) == pc[p] \in {"returned", "raised", "killed", "stalled"}

Stopped == (\A p \in Procs : Ended(p)) /\ UNCHANGED cacheVars

Step(p) ==
  \/ Lookup(p) \/ Open(p) \/ Write(p) \/ EndOfBody(p) \/ Raise(p) \/ Rename(p)

CacheNext == (\E p \in Procs : Step(p) \/ KillProcess(p) \/ Stall(p)) \/ Stopped

CacheSpec == CacheInit /\ [][CacheNext]_cacheVars

(* A process that is neither killed nor held by its server goes on. *)
FairCacheSpec == CacheSpec /\ \A p \in Procs : WF_cacheVars(Step(p))

-----------------------------------------------------------------------------
(***************************************************************************)
(* Properties.                                                             *)
(***************************************************************************)

CacheTypeOK ==
  /\ pc \in [Procs -> {"start", "open", "download", "rename",
                       "returned", "raised", "killed", "stalled"}]
  /\ data \in [Procs -> SUBSET Chunks]
  /\ dir \in [FileNames -> Procs \cup {NoFile}]
  /\ fd \in [Procs -> Procs \cup {NoFile}]
  /\ at \in [Procs -> 0 .. NChunks]

(* A file under the name of the model lacks a chunk only if some process   *)
(* that opened that very file has not come to the chunk: because it is not *)
(* done, was cut short by the server, raised or was killed.  Downloads     *)
(* that all run to the end leave a whole file, however they overlapped.    *)
CachedLacksOnlyUnwritten ==
  dir["model"] # NoFile =>
    \A k \in Chunks \ data[dir["model"]] :
      \E p \in Procs : fd[p] = dir["model"] /\ at[p] <= k

(* Once the model is cached it stays cached: no failure of another process *)
(* takes the name away from who was given the path.                        *)
CachedStays == [][dir["model"] # NoFile => dir["model"]' # NoFile]_cacheVars

(* When every process has returned or raised, no ".part" file is left over. *)
NoPartLeft == (\A p \in Procs : pc[p] \in {"returned", "raised"}) => dir["part"] = NoFile

(* Every process that is neither killed nor held by its own server is given *)
(* a path or an exception: no process waits for what another one does, and  *)
(* the ".part" file of a dead one is no obstacle.                           *)
Resolves == \A p \in Procs : <>Ended(p)
=============================================================================

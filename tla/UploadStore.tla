---------------------------- MODULE UploadStore ----------------------------
(***************************************************************************)
(* The upload directory of the server (internal/upload/upload.go, and the  *)
(* prune at startup in server.New).  Every POST /files/{name} runs in a    *)
(* goroutine of its own: it writes the body to a file under .tmp, renames  *)
(* that to its target and then prunes the directory, oldest files first,   *)
(* from a list it has made before.  Nothing locks the directory, and the   *)
(* process may stop between any two steps.                                 *)
(*                                                                         *)
(* A file is the upload that wrote it; its modification time is that of    *)
(* the last write to the temporary file, or of its creation when the body  *)
(* is empty; a rename does not change it.  The digest is the identity of   *)
(* the upload.                                                             *)
(***************************************************************************)
EXTENDS Integers, FiniteSets, FiniteSetsExt

CONSTANTS
  Handlers,        \* goroutines of the HTTP server
  Boot,            \* server.New
  Names,           \* sanitized target names
  Sizes,           \* sizes of request bodies
  MaxStorageBytes, \* the cap
  MaxUploads,      \* bound: requests that create a temporary file
  MaxCrashes,      \* bound: times the process stops
  IOErrors         \* a call of PruneDir to the file system may fail

NoFile == 0
Uploads == 1..MaxUploads
Pruners == Handlers \cup {Boot}

ASSUME Parameters ==
  /\ Boot \notin Handlers
  /\ Sizes \subseteq Nat
  /\ MaxStorageBytes \in Nat \ {0}
  /\ MaxUploads \in Nat /\ MaxCrashes \in Nat /\ IOErrors \in BOOLEAN

VARIABLES
  files,    \* the upload in each regular file of the directory
  temps,    \* uploads whose temporary file exists
  written,  \* bytes written for each upload
  mtime,    \* when its temporary file was created or last written
  body,     \* size of the request body of each upload
  clock,    \* the time
  created,  \* uploads so far
  pc,       \* where each handler, and server.New, is
  upload,   \* the upload a handler works on
  keep,     \* keepPath of a running PruneDir
  pending,  \* directory entries PruneDir has yet to stat
  seen,     \* the files it has listed and not removed: name, size and mtime
  remaining,\* result.RemainingBytes
  failed,   \* why prunes ended in an error
  crashes   \* times the process has stopped

diskVars == <<files, temps, written, mtime, body, clock, created>>
pruneVars == <<keep, pending, seen, remaining>>
vars == <<diskVars, pc, upload, pruneVars, failed, crashes>>

noPath == "none"

Init ==
  /\ files = [n \in Names |-> NoFile] /\ temps = {}
  /\ written = [u \in Uploads |-> 0] /\ mtime = [u \in Uploads |-> 0]
  /\ body = [u \in Uploads |-> 0]
  /\ clock = 0 /\ created = 0
  /\ pc = [h \in Pruners |-> IF h = Boot THEN "readdir" ELSE "idle"]
  /\ upload = [h \in Handlers |-> NoFile]
  /\ keep = [h \in Pruners |-> noPath] /\ pending = [h \in Pruners |-> {}]
  /\ seen = [h \in Pruners |-> {}] /\ remaining = [h \in Pruners |-> 0]
  /\ failed = {} /\ crashes = 0

Goto(h, label) == pc' = [pc EXCEPT ![h] = label]
Serving == pc[Boot] = "done"

-----------------------------------------------------------------------------
(* ServeHTTP                                                               *)

\* A request that is not refused by its Content-Length (which may be unknown)
\* or its name gets a temporary file.
CreateTemp(h) ==
  /\ Serving
  /\ pc[h] = "idle"
  /\ created < MaxUploads
  /\ \E n \in Names, size \in Sizes :
       /\ keep' = [keep EXCEPT ![h] = n]
       /\ body' = [body EXCEPT ![created + 1] = size]
  /\ created' = created + 1
  /\ clock' = clock + 1
  /\ mtime' = [mtime EXCEPT ![created + 1] = clock + 1]
  /\ temps' = temps \cup {created + 1}
  /\ upload' = [upload EXCEPT ![h] = created + 1]
  /\ Goto(h, "copy")
  /\ UNCHANGED <<files, written, pending, seen, remaining, failed, crashes>>

\* Variant: the body is not wrapped in a MaxBytesReader.
CopyPieceUncapped(h) ==
  LET u == upload[h] IN
  /\ pc[h] = "copy"
  /\ written[u] < body[u]
  /\ written' = [written EXCEPT ![u] = @ + 1]
  /\ clock' = clock + 1
  /\ mtime' = [mtime EXCEPT ![u] = clock + 1]
  /\ UNCHANGED <<files, temps, body, created, pc, upload, pruneVars, failed,
                 crashes>>

\* io.Copy writes a piece of the body; MaxBytesReader yields no more than the
\* cap.
CopyPiece(h) ==
  LET u == upload[h] IN
  /\ pc[h] = "copy"
  /\ written[u] < body[u]
  /\ written[u] < MaxStorageBytes
  /\ written' = [written EXCEPT ![u] = @ + 1]
  /\ clock' = clock + 1
  /\ mtime' = [mtime EXCEPT ![u] = clock + 1]
  /\ UNCHANGED <<files, temps, body, created, pc, upload, pruneVars, failed,
                 crashes>>

\* The body is too large, its stream breaks, or the disk is full: an error
\* status, and the deferred function removes the temporary file.
CopyFails(h) ==
  /\ pc[h] = "copy"
  /\ temps' = temps \ {upload[h]}
  /\ upload' = [upload EXCEPT ![h] = NoFile]
  /\ keep' = [keep EXCEPT ![h] = noPath]
  /\ Goto(h, "idle")
  /\ UNCHANGED <<files, written, mtime, body, clock, created, pending, seen, remaining,
                 failed, crashes>>

\* Variant: the rename does not wait for the end of the body.
RenameEarly(h) ==
  /\ pc[h] = "copy"
  /\ files' = [files EXCEPT ![keep[h]] = upload[h]]
  /\ temps' = temps \ {upload[h]}
  /\ Goto(h, "readdir")
  /\ UNCHANGED <<written, mtime, body, clock, created, upload, pruneVars, failed, crashes>>

\* The body has been copied: the file is closed and renamed to its target,
\* replacing what was there.
Rename(h) ==
  /\ pc[h] = "copy"
  /\ written[upload[h]] = body[upload[h]]
  /\ files' = [files EXCEPT ![keep[h]] = upload[h]]
  /\ temps' = temps \ {upload[h]}
  /\ Goto(h, "readdir")
  /\ UNCHANGED <<written, mtime, body, clock, created, upload, pruneVars, failed, crashes>>

\* The 200 with the size and the digest; the handler is done.
Respond(h) ==
  /\ pc[h] = "pruned"
  /\ Goto(h, "idle")
  /\ upload' = [upload EXCEPT ![h] = NoFile]
  /\ keep' = [keep EXCEPT ![h] = noPath]
  /\ UNCHANGED <<diskVars, pending, seen, remaining, failed, crashes>>

-----------------------------------------------------------------------------
(* PruneDir                                                                *)

\* os.ReadDir.  The subdirectory .tmp is skipped with all that is in it.
ReadDir(h) ==
  /\ pc[h] = "readdir"
  /\ pending' = [pending EXCEPT ![h] = {n \in Names : files[n] # NoFile}]
  /\ seen' = [seen EXCEPT ![h] = {}]
  /\ remaining' = [remaining EXCEPT ![h] = 0]
  /\ Goto(h, "stat")
  /\ UNCHANGED <<diskVars, upload, keep, failed, crashes>>

\* entry.Info: a file that is gone by now is skipped, one that was replaced has
\* the size and time of the new one.
Stat(h) ==
  /\ pc[h] = "stat"
  /\ \E n \in pending[h] :
       /\ pending' = [pending EXCEPT ![h] = @ \ {n}]
       /\ IF files[n] = NoFile
          THEN UNCHANGED <<seen, remaining>>
          ELSE LET u == files[n] IN
               /\ seen' = [seen EXCEPT ![h] =
                    @ \cup {[name |-> n, size |-> written[u], mtime |-> mtime[u]]}]
               /\ remaining' = [remaining EXCEPT ![h] = @ + written[u]]
  /\ UNCHANGED <<diskVars, pc, upload, keep, failed, crashes>>

Listed(h) == pc[h] = "stat" /\ pending[h] = {}

\* The listed files PruneDir may remove.
evictable(h) == {f \in seen[h] : f.name # keep[h]}

\* The first of them in the order of sort.Slice.
isNext(h, f) == \A g \in evictable(h) : f.mtime <= g.mtime

\* os.Remove of the next file, whatever has that name now; one that is gone
\* already counts as removed.
Remove(h) ==
  /\ Listed(h)
  /\ remaining[h] > MaxStorageBytes
  /\ \E f \in evictable(h) :
       /\ isNext(h, f)
       /\ files' = [files EXCEPT ![f.name] = NoFile]
       /\ seen' = [seen EXCEPT ![h] = @ \ {f}]
       /\ remaining' = [remaining EXCEPT ![h] = @ - f.size]
  /\ UNCHANGED <<temps, written, mtime, body, clock, created, pc, upload, keep, pending,
                 failed, crashes>>

\* PruneDir returns nil; server.New goes on to serve.
PruneEnds(h) ==
  /\ Listed(h)
  /\ remaining[h] <= MaxStorageBytes
  /\ Goto(h, IF h = Boot THEN "done" ELSE "pruned")
  /\ seen' = [seen EXCEPT ![h] = {}] /\ remaining' = [remaining EXCEPT ![h] = 0]
  /\ UNCHANGED <<diskVars, upload, keep, pending, failed, crashes>>

\* All that may be removed is, and it was not enough.
NoSpace(h) == Listed(h) /\ remaining[h] > MaxStorageBytes /\ evictable(h) = {}

\* PruneDir has a call to make: os.ReadDir, entry.Info or os.Remove.
Calls(h) ==
  \/ pc[h] = "readdir"
  \/ pc[h] = "stat" /\ pending[h] # {}
  \/ Listed(h) /\ remaining[h] > MaxStorageBytes /\ evictable(h) # {}

\* PruneDir returns an error: one of its calls failed, or nothing is left to remove.
\* The handler answers 500, server.New fails.
PruneFails(h) ==
  /\ NoSpace(h) \/ (IOErrors /\ Calls(h))
  /\ failed' = failed \cup {IF NoSpace(h) THEN "space" ELSE "io"}
  /\ pending' = [pending EXCEPT ![h] = {}]
  /\ Goto(h, IF h = Boot THEN "down" ELSE "idle")
  /\ seen' = [seen EXCEPT ![h] = {}] /\ remaining' = [remaining EXCEPT ![h] = 0]
  /\ keep' = [keep EXCEPT ![h] = noPath]
  /\ upload' = [g \in Handlers |-> IF g = h THEN NoFile ELSE upload[g]]
  /\ UNCHANGED <<diskVars, crashes>>

-----------------------------------------------------------------------------
(* The process stops and is started again                                  *)

Crash ==
  /\ pc[Boot] # "down"
  /\ crashes < MaxCrashes
  /\ crashes' = crashes + 1
  /\ pc' = [h \in Pruners |-> IF h = Boot THEN "down" ELSE "idle"]
  /\ upload' = [h \in Handlers |-> NoFile]
  /\ keep' = [h \in Pruners |-> noPath] /\ pending' = [h \in Pruners |-> {}]
  /\ seen' = [h \in Pruners |-> {}] /\ remaining' = [h \in Pruners |-> 0]
  /\ UNCHANGED <<diskVars, failed>>

\* Variant: no prune at startup.
RestartUnpruned ==
  /\ pc[Boot] = "down"
  /\ Goto(Boot, "done")
  /\ UNCHANGED <<diskVars, upload, pruneVars, failed, crashes>>

\* server.New: PruneDir(uploadDir, uploadMaxBytes, "") before anything else.
Restart ==
  /\ pc[Boot] = "down"
  /\ Goto(Boot, "readdir")
  /\ UNCHANGED <<diskVars, upload, pruneVars, failed, crashes>>

Next ==
  \/ \E h \in Handlers : CreateTemp(h) \/ CopyPiece(h) \/ CopyFails(h) \/ Rename(h)
                           \/ Respond(h)
  \/ \E h \in Pruners : ReadDir(h) \/ Stat(h) \/ Remove(h) \/ PruneEnds(h) \/ PruneFails(h)
  \/ Crash \/ Restart

Spec == Init /\ [][Next]_vars

-----------------------------------------------------------------------------

\* Every variable has its type.
TypeOK ==
  /\ files \in [Names -> Uploads \cup {NoFile}]
  /\ temps \subseteq Uploads
  /\ written \in [Uploads -> 0..MaxStorageBytes]
  /\ mtime \in [Uploads -> 0..clock]
  /\ body \in [Uploads -> Sizes \cup {0}]
  /\ clock \in Nat /\ created \in 0..MaxUploads
  /\ pc \in [Pruners -> {"idle", "copy", "readdir", "stat", "pruned", "done", "down"}]
  /\ upload \in [Handlers -> Uploads \cup {NoFile}]
  /\ keep \in [Pruners -> Names \cup {noPath}]
  /\ pending \in [Pruners -> SUBSET Names]
  /\ seen \in [Pruners -> SUBSET [name : Names, size : Nat, mtime : Nat]]
  /\ remaining \in [Pruners -> Nat]
  /\ failed \subseteq {"space", "io"} /\ crashes \in 0..MaxCrashes

\* The names under which there is a file, and the bytes under some of them.
Stored == {n \in Names : files[n] # NoFile}
Bytes(ns) == SumFunction([n \in ns |-> written[files[n]]])

\* Handlers that have put a file in place and not finished their prune.
Overdue == {h \in Handlers : pc[h] \in {"readdir", "stat"}}

\* However uploads and prunes interleave, and wherever the process was stopped
\* before, the directory exceeds the cap by no more than the uploads whose own
\* prune is still to finish; with none in flight it is within the cap.
CapHolds ==
  Serving /\ failed = {} =>
    Bytes(Stored) <= MaxStorageBytes + SumFunction([h \in Overdue |-> written[upload[h]]])

\* A file under its target name is a complete body, whatever failed or stopped
\* in the middle of an upload.
FilesAreWhole ==
  \A n \in Names : files[n] # NoFile => written[files[n]] = body[files[n]]

\* PruneDir always finds enough to remove: the upload just stored fits the cap
\* by itself, so no handler and no startup fails for want of space, although
\* others change the directory between the listing and the removals.
PruneSucceeds == "space" \notin failed

=============================================================================

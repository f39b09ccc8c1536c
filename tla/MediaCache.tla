----------------------------- MODULE MediaCache -----------------------------
(***************************************************************************)
(* The content-addressed media cache of Media/Cache.hs with its collector  *)
(* (Lifecycle.hs, media.gc), media.delete, and the chat history that       *)
(* refers to media (Bot/Session.hs).  Nothing is locked: a job is a row of *)
(* queries, file operations and statements, each a step of its own, and    *)
(* any job may be cut short by a timeout, an error or the end of the       *)
(* process.                                                                *)
(*                                                                         *)
(* A content stands for its digest and for the file named after it; the    *)
(* same content under two extensions, which makes two files, is left out.  *)
(***************************************************************************)
EXTENDS Naturals, FiniteSets

CONSTANTS Jobs,        \* threads that use the cache
          Contents,
          Refs,        \* sources, such as URLs, that media come from
          MaxIds,      \* bound: media ids that are given out
          MaxAge,      \* bound: times that media grow old
          Kinds,       \* the jobs of this run
          None

MediaAssumption == /\ MaxIds \in Nat /\ MaxAge \in Nat
                   /\ Kinds \subseteq {"store", "send", "gc", "delete"}
                   /\ None \notin Contents \cup Refs \cup Nat

Ids == 1..MaxIds

VARIABLES
  files,     \* contents that have a file
  row,       \* media_files: the content of each id, or None
  fresh,     \* ids used since the cutoff of the collector
  link,      \* media_sources
  history,   \* ids attached to messages
  next,      \* the next id
  ages,
  job,       \* what each job is at
  exposed    \* ids stored or attached while a removal that may hit them was under way

vars == <<files, row, fresh, link, history, next, ages, job, exposed>>

Stages == {"idle", "source", "digest", "touch", "file", "size", "insert", "unlink", "link",
           "attach", "append", "retain", "expire", "shared", "remove", "forget"}

Job(k, s, x, r, i) ==
  [kind |-> k, at |-> s, content |-> x, ref |-> r, id |-> i, retained |-> {}, doomed |-> {}, removing |-> {}]
Idle == Job("none", "idle", None, None, None)

TypeOK ==
  /\ files \subseteq Contents
  /\ row \in [Ids -> Contents \cup {None}]
  /\ fresh \subseteq Ids /\ history \subseteq Ids /\ exposed \subseteq Ids
  /\ link \in [Refs -> Ids \cup {None}]
  /\ next \in 1..(MaxIds + 1) /\ ages \in 0..MaxAge
  /\ job \in [Jobs -> [kind : Kinds \cup {"none"}, at : Stages, content : Contents \cup {None},
                       ref : Refs \cup {None}, id : Ids \cup {None},
                       retained : SUBSET Ids, doomed : SUBSET Ids, removing : SUBSET Contents]]
  /\ \A i \in Ids : i >= next => row[i] = None

Init ==
  /\ files = {} /\ row = [i \in Ids |-> None] /\ fresh = {}
  /\ link = [r \in Refs |-> None] /\ history = {}
  /\ next = 1 /\ ages = 0
  /\ job = [j \in Jobs |-> Idle] /\ exposed = {}

Rows == {i \in Ids : row[i] # None}
At(j, s) == job[j].at = s
Go(j, s) == job' = [job EXCEPT ![j].at = s]
Done(j) == job' = [job EXCEPT ![j] = Idle]

stores == <<files, row, fresh, link, history, next, ages, exposed>>

Begin(j, k, s, x, r, i) ==
  /\ At(j, "idle") /\ k \in Kinds
  /\ job' = [job EXCEPT ![j] = Job(k, s, x, r, i)]
  /\ UNCHANGED stores

-----------------------------------------------------------------------------
(* Storing (cacheMediaObject) *)

Store(j) == \E x \in Contents, r \in Refs \cup {None} :
  Begin(j, "store", IF r = None THEN "digest" ELSE "source", x, r, None)

(* Look for a row, by its source or by its digest; if there is one, see    *)
(* whether its file is there.                                              *)
Candidates(j) ==
  IF At(j, "source") THEN {i \in Rows : link[job[j].ref] = i}
  ELSE {i \in Rows : row[i] = job[j].content}

Otherwise(j) == IF At(j, "source") THEN "digest" ELSE "file"

(* Media found by its source is linked to it already. *)
ToLink(j) == IF At(j, "source") THEN None ELSE job[j].ref

Look(j) ==
  /\ At(j, "source") \/ At(j, "digest")
  /\ \/ /\ \A i \in Candidates(j) : row[i] \notin files
        /\ Go(j, Otherwise(j))
     \/ \E i \in Candidates(j) :
          /\ row[i] \in files
          /\ job' = [job EXCEPT ![j].id = i, ![j].at = "touch", ![j].ref = ToLink(j)]
  /\ UNCHANGED stores

Used(i) == IF i \in Rows THEN fresh \cup {i} ELSE fresh

(* touchMediaFile, before media found by its digest is linked to the source. *)
Touch(j) ==
  /\ At(j, "touch")
  /\ fresh' = Used(job[j].id)
  /\ CASE job[j].kind = "send" -> Go(j, "append")
       [] job[j].kind = "store" /\ job[j].ref # None -> Go(j, "unlink")
       [] OTHER -> Done(j)
  /\ UNCHANGED <<files, row, link, history, next, ages, exposed>>

(* storeStreamedMediaFile: the file, its size, the row, the source. *)
Rename(j) ==
  /\ At(j, "file")
  /\ files' = files \cup {job[j].content}
  /\ Go(j, "size")
  /\ UNCHANGED <<row, fresh, link, history, next, ages, exposed>>

Size(j) ==
  /\ At(j, "size")
  /\ IF job[j].content \in files THEN Go(j, "insert") ELSE Done(j)
  /\ UNCHANGED stores

Removing(x) == \E j \in Jobs : x \in job[j].removing

Insert(j) ==
  /\ At(j, "insert") /\ next <= MaxIds
  /\ row' = [row EXCEPT ![next] = job[j].content]
  /\ fresh' = fresh \cup {next}
  /\ next' = next + 1
  /\ exposed' = IF job[j].content \in files /\ ~Removing(job[j].content) THEN exposed ELSE exposed \cup {next}
  /\ job' = [job EXCEPT ![j].id = next, ![j].at = IF job[j].ref = None THEN "idle" ELSE "unlink"]
  /\ UNCHANGED <<files, link, history, ages>>

(* linkSourceRef: two statements and no transaction; the second fails when *)
(* somebody else has linked the source in between.                         *)
Unlink(j) ==
  /\ At(j, "unlink")
  /\ link' = [link EXCEPT ![job[j].ref] = None]
  /\ Go(j, "link")
  /\ UNCHANGED <<files, row, fresh, history, next, ages, exposed>>

Link(j) ==
  /\ At(j, "link")
  /\ link' = IF link[job[j].ref] = None THEN [link EXCEPT ![job[j].ref] = job[j].id] ELSE link
  /\ Done(j)
  /\ UNCHANGED <<files, row, fresh, history, next, ages, exposed>>

-----------------------------------------------------------------------------
(* A message with an attachment (appendUserMessage) *)

Send(j) == \E i \in Ids : Begin(j, "send", "attach", None, None, i)

(* resolveMediaRef: the row must be there; the file need not. *)
Attach(j) ==
  /\ At(j, "attach")
  /\ IF job[j].id \notin Rows THEN Done(j)
     ELSE Go(j, IF row[job[j].id] \in files THEN "touch" ELSE "append")
  /\ UNCHANGED stores

Whole(i) == i \in Rows /\ row[i] \in files
Threatened(i) ==
  \/ ~Whole(i) \/ Removing(row[i])
  \/ \E j \in Jobs : i \in job[j].doomed \/ At(j, "expire")

Append(j) ==
  /\ At(j, "append")
  /\ history' = history \cup {job[j].id}
  /\ exposed' = IF Threatened(job[j].id) THEN exposed \cup {job[j].id} ELSE exposed
  /\ Done(j)
  /\ UNCHANGED <<files, row, fresh, link, next, ages>>

(* deleteSession takes messages of the history with their attachments.     *)
DeleteMessages ==
  /\ history # {} /\ \E taken \in SUBSET history \ {{}} : history' = history \ taken
  /\ UNCHANGED <<files, row, fresh, link, next, ages, job, exposed>>

-----------------------------------------------------------------------------
(* Removal *)

(* gcMediaCacheRetaining: first what the history refers to, then the rows. *)
Collect(j) == Begin(j, "gc", "retain", None, None, None)

Retain(j) ==
  /\ At(j, "retain")
  /\ job' = [job EXCEPT ![j].retained = history, ![j].at = "expire"]
  /\ UNCHANGED stores

\* Mutant: ids that the history retains expire as well.
MutExpired(j) == Rows \ fresh
Expired(j) == (Rows \ fresh) \ job[j].retained

\* Mutant: the file goes with the row although another row shares it.
MutRemovable(ids) == {row[i] : i \in ids}
Removable(ids) == {row[i] : i \in ids} \ {row[i] : i \in Rows \ ids}

Expire(j) ==
  /\ At(j, "expire")
  /\ job' = [job EXCEPT ![j].doomed = Expired(j), ![j].removing = Removable(Expired(j)), ![j].at = "remove"]
  /\ UNCHANGED stores

(* deleteCachedMedia: isPathShared asks whether another row has the file. *)
Delete(j) == \E i \in Ids : Begin(j, "delete", "shared", None, None, i)

Shared(j) ==
  /\ At(j, "shared")
  /\ IF job[j].id \in Rows
     THEN job' = [job EXCEPT ![j].doomed = {job[j].id}, ![j].removing = Removable({job[j].id}), ![j].at = "remove"]
     ELSE Done(j)
  /\ exposed' = exposed \cup {job[j].id}
  /\ UNCHANGED <<files, row, fresh, link, history, next, ages>>

RemoveFile(j) ==
  /\ At(j, "remove")
  /\ IF job[j].removing = {} THEN Go(j, "forget") /\ UNCHANGED files
     ELSE \E x \in job[j].removing :
            /\ files' = files \ {x}
            /\ job' = [job EXCEPT ![j].removing = @ \ {x}]
  /\ UNCHANGED <<row, fresh, link, history, next, ages, exposed>>

(* One transaction takes the rows and the links. *)
Forget(j) ==
  /\ At(j, "forget")
  /\ row' = [i \in Ids |-> IF i \in job[j].doomed THEN None ELSE row[i]]
  /\ link' = [r \in Refs |-> IF link[r] \in job[j].doomed THEN None ELSE link[r]]
  /\ fresh' = fresh \ job[j].doomed
  /\ Done(j)
  /\ UNCHANGED <<files, history, next, ages, exposed>>

-----------------------------------------------------------------------------

(* A job ends early; the rows whose files it has removed stay. *)
Abort(j) ==
  /\ ~At(j, "idle")
  /\ Done(j)
  /\ exposed' = exposed \cup job[j].doomed
  /\ UNCHANGED <<files, row, fresh, link, history, next, ages>>

GrowOld ==
  /\ ages < MaxAge /\ fresh # {}
  /\ ages' = ages + 1 /\ fresh' = {}
  /\ UNCHANGED <<files, row, link, history, next, job, exposed>>

Next ==
  \/ \E j \in Jobs :
       \/ Store(j) \/ Look(j) \/ Touch(j) \/ Rename(j) \/ Size(j) \/ Insert(j) \/ Unlink(j) \/ Link(j)
       \/ Send(j) \/ Attach(j) \/ Append(j)
       \/ Collect(j) \/ Retain(j) \/ Expire(j) \/ Delete(j) \/ Shared(j) \/ RemoveFile(j) \/ Forget(j)
       \/ Abort(j)
  \/ DeleteMessages \/ GrowOld

Spec == Init /\ [][Next]_vars

-----------------------------------------------------------------------------
(* Properties *)

(* A row keeps its file, also when it shares it with rows that are         *)
(* removed, unless it is itself being removed or was stored while a        *)
(* removal of the same content was under way (gcMediaCacheRetaining,       *)
(* deleteCachedMedia, storeStreamedMediaFile).                             *)
RowsKeepTheirFile ==
  \A i \in Rows \ exposed : row[i] \in files \/ \E j \in Jobs : i \in job[j].doomed

(* What is attached to a message stays whole, however old it grows, unless *)
(* it was attached while it was being removed, or somebody deletes it      *)
(* (referencedMediaFileIds).                                               *)
AttachmentsStay == \A i \in history \ exposed : Whole(i)

(* Both, with the types of the variables.                                  *)
MediaStay == TypeOK /\ RowsKeepTheirFile /\ AttachmentsStay

(* doc/RPC.md: media ids referenced by chat history are retained.          *)
ReferencedIsRetained ==
  [][\A i \in history : row[i] # None /\ row'[i] = None =>
       \A j \in Jobs : job[j] # job'[j] => job[j].kind # "gc"]_vars

(* doc/RPC.md: media.delete leaves a file alone that another row shares.   *)
SharedFileStays ==
  [][\A j \in Jobs : job[j].kind = "delete" /\ job[j] # job'[j] =>
       \A i \in Rows \ job[j].doomed : row[i] \in files => row[i] \in files']_vars
=============================================================================

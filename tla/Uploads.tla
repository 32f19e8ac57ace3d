------------------------------- MODULE Uploads -------------------------------
(***************************************************************************)
(* Attachments, of the API and of the classic controllers.                 *)
(*                                                                         *)
(* The API (src/api/attachment_routes.rs) writes a file under a name that  *)
(* is free and then a row about it.  Neither is ever removed: the number   *)
(* that the delete handler reads from an identifier is that of no row.     *)
(* The classic attachments (src/attachments.rs) are records of a store in  *)
(* memory, with counters of what a directory holds; a call of the store is *)
(* one step.  With SurrealDB none gets in, as the query for the usage of   *)
(* the directory names a function that there is not.                       *)
(* They are parts of two processes, and a behaviour is one of either.      *)
(*                                                                         *)
(* Sessions are checked before anything is touched and left out; the rates *)
(* are those of one client.                                                *)
(***************************************************************************)
EXTENDS Calls, RateLimiter, SequencesExt, FiniteSetsExt

CONSTANTS
  Names,         \* names of files, cleaned by sanitize_filename
  Batches,       \* sequences of sizes that are attached at once
  DirSizeBytes,  \* dir_size_bytes of AttachmentLimits
  PostFiles,     \* per_post_files of AttachmentLimits
  MaxFiles       \* bound on files and on attachments

(***************************************************************************)
(* refused:    a query fails and has no effect; the request answers so.    *)
(* lost:       a query has its effect and reports failure.                 *)
(* unnoticed:  a statement fails inside a response that is not looked at,  *)
(*             and the request goes on.                                    *)
(* unreadable: try_exists fails, and reads as that there is no such file.  *)
(* same_tick:  two records get one number from the clock.                  *)
(***************************************************************************)
ASSUME UploadsAssumption ==
  /\ Keys = {"attach", "attach_upload"}
  /\ Stores \subseteq {"memory", "surreal", "api"}
  /\ Batches \subseteq Seq(Nat \ {0})
  /\ DirSizeBytes \in Nat /\ PostFiles \in Nat \ {0}
  /\ MaxFiles \in Nat /\ MaxActs \in Nat
  /\ Faults \subseteq {"refused", "lost", "unnoticed", "unreadable", "same_tick"}

VARIABLES
  files,        \* the upload that each file is of
  metas,        \* rows: the files they name and the uploads that made them
  told,         \* history: uploads that were answered 201, with their files
  crossed,      \* history: files that were found free before another write ended
  attachments,  \* size and message of each classic attachment
  next_attach_id,
  dir_usage,    \* bytes and files of the directory
  overlapped    \* history: two requests attached at once

uploads == <<files, metas, told, crossed>>
attached == <<attachments, next_attach_id, dir_usage, overlapped>>
-----------------------------------------------------------------------------
None == 0

Partial == 0    \* a file that was not written to its end

UploadsInit ==
  /\ LimiterInit
  /\ store \in Stores
  /\ files = <<>> /\ metas = {} /\ told = {} /\ crossed = {}
  /\ attachments = <<>> /\ next_attach_id = 1
  /\ dir_usage = [size |-> 0, count |-> 0]
  /\ overlapped = FALSE
  /\ req = [r \in Requests |-> Idle]
  /\ acts = 0

\* The function f with the value v for x.
Put(f, x, v) == [y \in DOMAIN f \cup {x} |-> IF y = x THEN v ELSE f[y]]

Start(r, state) == Act /\ req[r] = Idle /\ Become(r, state)
-----------------------------------------------------------------------------
(* Uploads of the API.  An upload is known by the number of its call.      *)

upload_attachment(r, name) ==
  /\ allow("attach_upload")
  /\ Start(r, [stage |-> "look", name |-> name, n |-> acts + 1])
  /\ UNCHANGED <<store, uploads, attached>>

Taken(name) == {f \in DOMAIN files : f[1] = name}

\* As if the name were taken as it is.
NameAsItIs(name) == {<<name, 0>>}

\* Files are only added, so the loop that tries one name after the other is
\* one step, when it has found its last.
FreeNames(name) ==
  {<<name, k>> : k \in {n \in 0..MaxFiles :
     <<name, n>> \notin Taken(name) /\ \A j \in 0..(n - 1) : <<name, j>> \in Taken(name)}}

\* A write is to come, or goes on though its client went away.
Writes(o, file) == req[o].stage \in {"write", "orphan"} /\ req[o].file = file

\* A name that cannot be looked up is taken for free.
FindName(r) ==
  LET name == req[r].name
      Found(f) == Become(r, [stage |-> "write", file |-> f, n |-> req[r].n])
  IN
  /\ req[r].stage = "look"
  /\ \/ \E f \in FreeNames(name) :
          /\ Found(f)
          /\ crossed' = IF \E o \in Requests : Writes(o, f)
                        THEN crossed \cup {f} ELSE crossed
     \/ \E f \in Taken(name) :
          /\ "unreadable" \in Faults
          /\ Found(f)
          /\ crossed' = crossed \cup {f}
  /\ UNCHANGED <<store, files, metas, told, attached, acts>>

\* fs::write, which may end early, and goes on in a thread of its own when
\* its client is gone.
WriteFile(r) ==
  /\ req[r].stage \in {"write", "orphan"}
  /\ \E n \in {req[r].n, Partial} :
       /\ files' = Put(files, req[r].file, n)
       /\ Become(r, IF n = Partial \/ req[r].stage = "orphan" THEN Idle
                    ELSE [req[r] EXCEPT !.stage = "row"])
  /\ UNCHANGED <<store, metas, told, crossed, attached, acts>>

\* The row of an upload, or of any name that a client tells.
create_attachment_meta(file, n) == metas' = metas \cup {[file |-> file, n |-> n]}

RowIsWritten(r) ==
  /\ req[r].stage = "row"
  /\ create_attachment_meta(req[r].file, req[r].n)
  /\ told' = told \cup {[file |-> req[r].file, n |-> req[r].n]}
  /\ Become(r, Idle)
  /\ UNCHANGED <<store, files, crossed, attached, acts>>

\* A failure, or a client that goes away where nothing goes on without it.
UploadFails(r) ==
  /\ req[r].stage \in {"look", "write", "orphan", "row"}
  /\ \/ metas' = metas
     \/ /\ req[r].stage = "row" /\ "lost" \in Faults
        /\ create_attachment_meta(req[r].file, req[r].n)
  /\ Become(r, Idle)
  /\ UNCHANGED <<store, files, told, crossed, attached, acts>>

\* The client goes away during the write.
ClientLeaves(r) ==
  /\ req[r].stage = "write"
  /\ Become(r, [req[r] EXCEPT !.stage = "orphan"])
  /\ UNCHANGED <<store, uploads, attached, acts>>

tell_attachment(name) ==
  /\ allow("attach")
  /\ Act
  /\ create_attachment_meta(<<name, 0>>, None)
  /\ UNCHANGED <<store, files, told, crossed, attached, req>>

\* The handler looks for a number in an identifier that has none, and answers
\* that it is invalid; neither the row nor the file is touched.
delete_attachment_api ==
  /\ metas # {} /\ Act
  /\ UNCHANGED <<store, uploads, attached, req>>

\* What is served for a file; Partial stands for what is not an upload.
serve_upload(f) == IF f \in DOMAIN files THEN files[f] ELSE Partial
-----------------------------------------------------------------------------
(* Classic attachments. *)

Attaching == {r \in Requests : req[r].stage = "attach"}

process_attachments(r, sizes) ==
  /\ store = "memory" /\ Len(sizes) > 0
  /\ Start(r, [stage |-> "attach", at |-> "usage", left |-> sizes, dir_size |-> 0,
               total_files |-> 0, size |-> 0])
  /\ overlapped' = (overlapped \/ Attaching # {})
  /\ UNCHANGED <<store, uploads, attachments, next_attach_id, dir_usage>>

attachment_dir_usage(r) ==
  /\ req[r].stage = "attach" /\ req[r].at = "usage"
  /\ Become(r, [req[r] EXCEPT !.at = "store", !.dir_size = dir_usage.size])
  /\ UNCHANGED <<store, uploads, attached, acts>>

enforce_dir_limit(file_size, dir_size) == dir_size + file_size <= DirSizeBytes

enforce_post_limits(total_files) == total_files + 1 <= PostFiles

Counted(size) ==
  dir_usage' = [size |-> dir_usage.size + size, count |-> dir_usage.count + 1]

\* The next file is refused, and with it the rest; or stored and counted.
store_attachment(r) ==
  LET rq == req[r]
      size == Head(rq.left)
  IN /\ rq.stage = "attach" /\ rq.at = "store"
     /\ UNCHANGED <<store, uploads, overlapped, acts>>
     /\ IF /\ enforce_dir_limit(size, rq.dir_size)
           /\ enforce_post_limits(rq.total_files)
        THEN /\ next_attach_id <= MaxFiles
             /\ attachments' =
                  Put(attachments, next_attach_id, [size |-> size, message |-> None])
             /\ next_attach_id' = next_attach_id + 1
             /\ Counted(size)
             /\ Become(r, [rq EXCEPT !.at = "count", !.size = size])
        ELSE /\ Become(r, Idle)
             /\ UNCHANGED <<attachments, next_attach_id, dir_usage>>

\* What was stored is counted again.
update_attachment_dir_usage(r) ==
  LET rq == req[r] IN
  /\ rq.stage = "attach" /\ rq.at = "count"
  /\ Counted(rq.size)
  /\ Become(r, IF Len(rq.left) = 1 THEN Idle
               ELSE [rq EXCEPT !.at = "store", !.left = Tail(@), !.dir_size = @ + rq.size,
                               !.total_files = @ + 1])
  /\ UNCHANGED <<store, uploads, attachments, next_attach_id, overlapped, acts>>

\* Lists of attachments to link to a message or to delete, one by one.
assign_attachments(r, ids, message) ==
  /\ Start(r, [stage |-> "link", left |-> SetToSeq(ids), message |-> message])
  /\ ids # {}
  /\ UNCHANGED <<store, uploads, attached>>

remove_attachments(r, ids) ==
  /\ Start(r, [stage |-> "delete", left |-> SetToSeq(ids)])
  /\ ids # {}
  /\ UNCHANGED <<store, uploads, attached>>

list_message_attachments(message) ==
  {i \in DOMAIN attachments : attachments[i].message = message}

remove_message_attachments(r, message) ==
  remove_attachments(r, list_message_attachments(message))

Onward(r) ==
  Become(r, IF Len(req[r].left) = 1 THEN Idle ELSE [req[r] EXCEPT !.left = Tail(@)])

\* An attachment that is gone ends the list.
link_attachment_to_message(r) ==
  LET i == Head(req[r].left) IN
  /\ IF i \in DOMAIN attachments
     THEN /\ attachments' = [attachments EXCEPT ![i].message = req[r].message]
          /\ Onward(r)
     ELSE /\ attachments' = attachments
          /\ Become(r, Idle)
  /\ UNCHANGED <<store, uploads, next_attach_id, dir_usage, overlapped, acts>>

\* The counters stay as they are.
delete_attachment(r) ==
  /\ attachments' = [i \in DOMAIN attachments \ {Head(req[r].left)} |-> attachments[i]]
  /\ Onward(r)
  /\ UNCHANGED <<store, uploads, next_attach_id, dir_usage, overlapped, acts>>

\* Types and sizes are checked after the rate.
Refused(key) == allow(key) /\ UNCHANGED <<store, uploads, attached, req, acts>>

Proceed(messages) ==
  \/ \E r \in Requests :
       FindName(r) \/ WriteFile(r) \/ RowIsWritten(r) \/ UploadFails(r) \/ ClientLeaves(r)
  \/ \E r \in Requests, sizes \in Batches : process_attachments(r, sizes)
  \/ \E r \in Requests :
       attachment_dir_usage(r) \/ store_attachment(r) \/ update_attachment_dir_usage(r)
  \/ \E r \in Requests, ids \in SUBSET DOMAIN attachments :
       \/ \E message \in messages : assign_attachments(r, ids, message)
       \/ remove_attachments(r, ids)
  \/ \E r \in Requests, message \in messages : remove_message_attachments(r, message)
  \/ \E r \in Requests : req[r].stage = "link" /\ link_attachment_to_message(r)
  \/ \E r \in Requests : req[r].stage = "delete" /\ delete_attachment(r)

Api ==
  /\ store = "api"
  /\ \/ \E r \in Requests, name \in Names : upload_attachment(r, name)
     \/ \E name \in Names : tell_attachment(name)
     \/ \E key \in Keys : Refused(key)
     \/ delete_attachment_api /\ UNCHANGED limiter
     \/ Tick /\ UNCHANGED <<store, uploads, attached, req, acts>>

UploadsNext(messages) ==
  \/ Api
  \/ Proceed(messages) /\ UNCHANGED limiter
-----------------------------------------------------------------------------
(***************************************************************************)
(* An upload that was answered 201 is served as it was sent, for ever,     *)
(* though anybody may upload under the same name at any time and a client  *)
(* may leave while its file is written: unless a name was found free while *)
(* another write to it was still to end, the client of that there or gone; *)
(* or a name could not be looked up.  No row that an upload made names a   *)
(* file that is not there.                                                 *)
(***************************************************************************)
UploadsServed ==
  /\ \A t \in told : t.file \notin crossed => serve_upload(t.file) = t.n
  /\ \A row \in metas : row.n # None => row.file \in DOMAIN files

SizeAt(i) == IF i \in DOMAIN attachments THEN attachments[i].size ELSE 0

\* The sum of the sizes of the attachments, whose numbers are in 1..MaxFiles.
Stored ==
  LET sum[i \in 0..MaxFiles] == IF i = 0 THEN 0 ELSE sum[i - 1] + SizeAt(i)
  IN sum[MaxFiles]

(***************************************************************************)
(* What the directory holds keeps to its limit, although the usage is read *)
(* once for many files and its counters are written twice: unless requests *)
(* attached at once.  The counters are never below what is stored.         *)
(***************************************************************************)
QuotaKept ==
  /\ ~overlapped => Stored <= DirSizeBytes
  /\ dir_usage.size >= Stored

\* Files of both kinds are kept as promised.
FilesKept == UploadsServed /\ QuotaKept
=============================================================================

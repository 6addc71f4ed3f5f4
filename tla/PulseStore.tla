----------------------------- MODULE PulseStore -----------------------------
(***************************************************************************)
(* core/db.py on MongoDB: a pulse is a document of pulse_meta that holds   *)
(* its metadata and either the blob itself or the id of a GridFS file.     *)
(* A method of PulseDB is a sequence of database commands; the commands of *)
(* concurrent requests mix, and a request may be abandoned between two.    *)
(*                                                                         *)
(* A content is a blob together with the metadata that seal or rotate made *)
(* for it.  The callers are those of main.py: seal and scan save under a   *)
(* fresh id; unseal loads, and rotate updates what it has loaded, even if  *)
(* the pulse has been deleted since; delete deletes, the TTL job of        *)
(* core/scheduler.py removes documents.                                    *)
(***************************************************************************)
EXTENDS PulseContents, Integers, FiniteSets

CONSTANTS
  Large,         \* contents beyond GRIDFS_THRESHOLD
  MaxFiles       \* bound of a run: files ever uploaded

ASSUME StoreAssumption ==
  /\ Large \subseteq Contents /\ NoContent \notin Contents /\ NoPulse \notin Pulses
  /\ MaxFiles \in Nat

VARIABLES
  doc,        \* per pulse: its document in pulse_meta
  files,      \* the GridFS files: id -> pulse and content
  made,       \* files ever uploaded; ids are never used again
  step,       \* per client: the database command it is about to issue
  job,        \* per client: the method it is in
  used,       \* pulse ids that uuid4 has given out
  abandoned,  \* pulses on which a writer was abandoned half way
  leaky       \* pulses with overlapping writers, an expiry or a failed delete
              \* of a file: for these nothing is promised about old files

storeVars == <<doc, files, made, step, job, used, abandoned, leaky>>

NoFile == 0
NoDoc == [content |-> NoContent, file |-> NoFile]
NoJob == [kind |-> "none", pulse |-> NoPulse, content |-> NoContent,
          file |-> NoFile, old |-> NoFile]

Kinds == {"none", "save", "load", "update", "delete"}
Steps == {"idle", "finding", "dropping", "uploading", "replacing", "erasing",
          "reading", "rotating"}

StoreInit ==
  /\ doc = [p \in Pulses |-> NoDoc]
  /\ files = [f \in {} |-> f] /\ made = 0
  /\ step = [c \in Clients |-> "idle"] /\ job = [c \in Clients |-> NoJob]
  /\ used = {} /\ abandoned = {} /\ leaky = {}

Stored(p) == doc[p] # NoDoc

Writers(p) == {c \in Clients : /\ step[c] # "idle" /\ job[c].pulse = p
                               /\ job[c].kind # "load"}

-----------------------------------------------------------------------------
(* The calls.                                                              *)

\* A call is made by a client that is idle, or by a rotation that has loaded.
Call(c, from, kind, p, x, first) ==
  /\ step[c] = from
  /\ step' = [step EXCEPT ![c] = first]
  /\ job' = [job EXCEPT ![c] = [kind |-> kind, pulse |-> p, content |-> x,
                                file |-> NoFile, old |-> NoFile]]
  /\ leaky' = IF kind # "load" /\ Writers(p) # {} THEN leaky \cup {p} ELSE leaky
  /\ UNCHANGED <<doc, files, made, abandoned>>

\* The first command of save_pulse.
SaveStep(x) == IF x \in Large THEN "uploading" ELSE "replacing"

Save(c, p, x) ==
  /\ p \notin used /\ used' = used \cup {p}
  /\ Call(c, "idle", "save", p, x, SaveStep(x))

Update(c, p, x) ==
  /\ job[c].pulse = p /\ Call(c, "rotating", "update", p, x, "finding")
  /\ UNCHANGED used

Delete(c, p) ==
  Call(c, "idle", "delete", p, NoContent, "finding") /\ UNCHANGED used

Load(c, p) == Call(c, "idle", "load", p, NoContent, "finding") /\ UNCHANGED used

-----------------------------------------------------------------------------
(* The commands.                                                           *)

Goto(c, where) == step' = [step EXCEPT ![c] = where]

Return(c) == Goto(c, "idle") /\ job' = [job EXCEPT ![c] = NoJob]

\* A pulse was loaded: for its caller, or in order to rotate it.
Loaded(c) ==
  \/ Return(c)
  \/ /\ Goto(c, "rotating")
     /\ job' = [job EXCEPT ![c].content = NoContent, ![c].file = NoFile]

\* What follows the old file in update_pulse and in delete_pulse.
AfterOld(c) ==
  IF job[c].kind = "update" THEN SaveStep(job[c].content) ELSE "erasing"

\* Variant: the old file is looked for only when the new blob needs one.
FindForLarge(c) ==
  /\ step[c] = "finding" /\ job[c].kind \in {"update", "delete"}
  /\ IF job[c].content \in Large /\ doc[job[c].pulse].file # NoFile
       THEN /\ job' = [job EXCEPT ![c].old = doc[job[c].pulse].file]
            /\ Goto(c, "dropping")
       ELSE Goto(c, AfterOld(c)) /\ UNCHANGED job
  /\ UNCHANGED <<doc, files, made, used, abandoned, leaky>>

Find(c) ==
  /\ step[c] = "finding" /\ job[c].kind \in {"update", "delete"}
  /\ IF doc[job[c].pulse].file # NoFile
       THEN /\ job' = [job EXCEPT ![c].old = doc[job[c].pulse].file]
            /\ Goto(c, "dropping")
       ELSE Goto(c, AfterOld(c)) /\ UNCHANGED job
  /\ UNCHANGED <<doc, files, made, used, abandoned, leaky>>

\* Variant: every file with the name of the pulse is deleted.
DropByName(c) ==
  /\ step[c] = "dropping"
  /\ files' = [f \in {g \in DOMAIN files : files[g].pulse # job[c].pulse}
                 |-> files[f]]
  /\ Goto(c, AfterOld(c))
  /\ UNCHANGED <<doc, made, job, used, abandoned, leaky>>

\* _gfs.delete; a file that is gone already raises, which is suppressed.
Drop(c) ==
  /\ step[c] = "dropping"
  /\ files' = [f \in DOMAIN files \ {job[c].old} |-> files[f]]
  /\ Goto(c, AfterOld(c))
  /\ UNCHANGED <<doc, made, job, used, abandoned, leaky>>

\* Any other error of _gfs.delete is suppressed too.
DropFails(c) ==
  /\ step[c] = "dropping"
  /\ leaky' = leaky \cup {job[c].pulse}
  /\ Goto(c, AfterOld(c))
  /\ UNCHANGED <<doc, files, made, job, used, abandoned>>

\* Variant: the file is stored under the id of the one it replaces.
UploadInPlace(c) ==
  LET id == IF job[c].old # NoFile THEN job[c].old ELSE made + 1
  IN  /\ step[c] = "uploading" /\ made < MaxFiles
      /\ made' = made + 1
      /\ files' = [f \in DOMAIN files \cup {id} |->
                     IF f = id THEN [pulse |-> job[c].pulse,
                                     content |-> job[c].content]
                               ELSE files[f]]
      /\ job' = [job EXCEPT ![c].file = id]
      /\ Goto(c, "replacing")
      /\ UNCHANGED <<doc, used, abandoned, leaky>>

Upload(c) ==
  /\ step[c] = "uploading" /\ made < MaxFiles
  /\ made' = made + 1
  /\ files' = [f \in DOMAIN files \cup {made'} |->
                 IF f = made' THEN [pulse |-> job[c].pulse,
                                    content |-> job[c].content]
                              ELSE files[f]]
  /\ job' = [job EXCEPT ![c].file = made']
  /\ Goto(c, "replacing")
  /\ UNCHANGED <<doc, used, abandoned, leaky>>

\* replace_one with upsert.
Replace(c) ==
  /\ step[c] = "replacing"
  /\ doc' = [doc EXCEPT ![job[c].pulse] =
               [content |-> job[c].content, file |-> job[c].file]]
  /\ Return(c)
  /\ UNCHANGED <<files, made, used, abandoned, leaky>>

Erase(c) ==
  /\ step[c] = "erasing"
  /\ doc' = [doc EXCEPT ![job[c].pulse] = NoDoc]
  /\ Return(c)
  /\ UNCHANGED <<files, made, used, abandoned, leaky>>

\* find_one of load_pulse: 404, the document with its blob, or a file to read.
LoadFind(c) ==
  LET found == doc[job[c].pulse]
  IN  /\ step[c] = "finding" /\ job[c].kind = "load"
      /\ IF found = NoDoc THEN Return(c)
         ELSE IF found.file = NoFile THEN Loaded(c)
         ELSE /\ job' = [job EXCEPT ![c].content = found.content,
                                    ![c].file = found.file]
              /\ Goto(c, "reading")
      /\ UNCHANGED <<doc, files, made, used, abandoned, leaky>>

\* The file is read, or it is gone and the load fails.
LoadRead(c) ==
  /\ step[c] = "reading"
  /\ IF job[c].file \in DOMAIN files THEN Loaded(c) ELSE Return(c)
  /\ UNCHANGED <<doc, files, made, used, abandoned, leaky>>

\* A command raises, the request is cancelled or the process ends.
Abandon(c) ==
  /\ step[c] # "idle" /\ Return(c)
  /\ abandoned' = IF job[c].kind = "load" THEN abandoned
                                          ELSE abandoned \cup {job[c].pulse}
  /\ UNCHANGED <<doc, files, made, used, leaky>>

\* The TTL job deletes documents by age, and no files.
Expire(p) ==
  /\ Stored(p)
  /\ doc' = [doc EXCEPT ![p] = NoDoc]
  /\ leaky' = leaky \cup {p}
  /\ UNCHANGED <<files, made, step, job, used, abandoned>>

StoreNext ==
  \/ \E c \in Clients, p \in Pulses :
       \/ \E x \in Contents : Save(c, p, x) \/ Update(c, p, x)
       \/ Delete(c, p) \/ Load(c, p)
  \/ \E c \in Clients :
       \/ Find(c) \/ Drop(c) \/ DropFails(c) \/ Upload(c) \/ Replace(c)
       \/ Erase(c) \/ LoadFind(c) \/ LoadRead(c) \/ Abandon(c)
  \/ \E p \in Pulses : Expire(p)

StoreSpec == StoreInit /\ [][StoreNext]_storeVars

-----------------------------------------------------------------------------
(* Properties.                                                             *)

Content == Contents \cup {NoContent}

\* Every variable stays in its type: a file holds a content, and only files
\* that were uploaded are pointed to.
StoreTypeOK ==
  /\ made \in 0..MaxFiles
  /\ doc \in [Pulses -> [content : Content, file : 0..made]]
  /\ DOMAIN files \subseteq 1..made
  /\ \A f \in DOMAIN files : files[f] \in [pulse : Pulses, content : Contents]
  /\ step \in [Clients -> Steps]
  /\ job \in [Clients -> [kind : Kinds, pulse : Pulses \cup {NoPulse},
                          content : Content, file : 0..made, old : 0..made]]
  /\ used \subseteq Pulses /\ abandoned \subseteq Pulses /\ leaky \subseteq Pulses

\* The file f, if it is there, holds content x of pulse p.
Holds(f, p, x) ==
  f \in DOMAIN files => files[f] = [pulse |-> p, content |-> x]

\* A blob is never paired with the metadata of another: the file that a
\* document names, or that a load found in one and is about to read, holds the
\* content of that document or is gone, whatever was saved, replaced, deleted
\* or expired since.
BlobMatchesMeta ==
  /\ \A p \in Pulses : doc[p].file # NoFile => Holds(doc[p].file, p, doc[p].content)
  /\ \A c \in Clients :
       step[c] = "reading" => Holds(job[c].file, job[c].pulse, job[c].content)

\* The document names a file that is gone: the pulse cannot be loaded.
Broken(p) == doc[p].file # NoFile /\ doc[p].file \notin DOMAIN files

PastDrop == {"uploading", "replacing", "erasing"}

\* No mix of writers breaks a pulse for good: it is broken only while an update
\* or a delete that has dropped its file goes on, or after one was abandoned.
BrokenOnlyInWork ==
  \A p \in Pulses :
    Broken(p) => \/ p \in abandoned
                 \/ \E c \in Writers(p) : step[c] \in PastDrop

\* No file is left behind: every file is named by the document of its pulse or
\* is in the hands of a writer, unless the pulse expired, had overlapping
\* writers, an abandoned one, or a file that could not be deleted.
NoOrphans ==
  \A f \in DOMAIN files :
    LET p == files[f].pulse
    IN  \/ doc[p].file = f
        \/ \E c \in Writers(p) : f \in {job[c].file, job[c].old}
        \/ p \in abandoned \cup leaky
=============================================================================

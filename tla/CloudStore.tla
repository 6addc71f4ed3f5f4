----------------------------- MODULE CloudStore -----------------------------
(***************************************************************************)
(* core/storage_s3.py and core/storage_gcs.py: a pulse is two objects of a *)
(* bucket, its blob and its metadata, with the same name and no pointer    *)
(* between them.  A method of either class is a sequence of requests to    *)
(* the object store; each is atomic, and those of concurrent callers mix.  *)
(*                                                                         *)
(* A rotation (POST /pulse/{id}/rotate) is a load followed by the update   *)
(* of what was loaded.                                                     *)
(***************************************************************************)
EXTENDS PulseContents, Naturals, Sequences

VARIABLES
  service,      \* "s3" or "gcs": QUANTUM_STORAGE_BACKEND
  blobs, metas, \* per pulse: the content of either object
  named,        \* pulse ids that uuid4 has given out
  todo,         \* per client: the requests that it still has to make
  call,         \* per client: its method, pulse, new content and what it read
  torn,         \* pulses with overlapping writers, or one that was abandoned
  dropped       \* history: pulses whose blob a delete has dropped

cloudVars == <<service, blobs, metas, named, todo, call, torn, dropped>>

NoCall == [kind |-> "none", pulse |-> NoPulse, new |-> NoContent,
           blob |-> NoContent, meta |-> NoContent, met |-> FALSE]

-----------------------------------------------------------------------------
(* The methods.                                                            *)

\* Variant: the metadata are not stored.
S3SaveBlobOnly == <<"putBlob">>

\* Variant: the metadata are stored first.
S3SaveMetaFirst == <<"putMeta", "putBlob">>

S3Save   == <<"putBlob", "putMeta">>
S3Load   == <<"getBlob", "getMeta">>

\* Variant: the metadata stay as they are.
S3UpdateBlobOnly == <<"putBlob">>

S3Update == S3Save
S3Delete == <<"headBlob", "dropBlob", "dropMeta">>

GcsSave   == <<"putBlob", "putMeta">>
GcsLoad   == <<"getBlob", "getMeta">>
GcsUpdate == GcsSave
GcsDelete == <<"dropBlob", "dropMeta">>

Method(kind) ==
  LET s3 == [save |-> S3Save, load |-> S3Load, rotate |-> S3Load \o S3Update,
             delete |-> S3Delete]
      gcs == [save |-> GcsSave, load |-> GcsLoad,
              rotate |-> GcsLoad \o GcsUpdate, delete |-> GcsDelete]
  IN  IF service = "s3" THEN s3[kind] ELSE gcs[kind]

\* What list_pulses lists: the metadata objects.
Listed == {p \in Pulses : metas[p] # NoContent}

CloudInit ==
  /\ service \in {"s3", "gcs"}
  /\ blobs = [p \in Pulses |-> NoContent] /\ metas = blobs
  /\ named = {} /\ torn = {} /\ dropped = {}
  /\ todo = [c \in Clients |-> <<>>] /\ call = [c \in Clients |-> NoCall]

Working(p) == {c \in Clients : todo[c] # <<>> /\ call[c].pulse = p}
CloudWriters(p) == {c \in Working(p) : call[c].kind # "load"}

\* A call begins; it meets the writers at work, and if it writes it is met by
\* everybody at work.
Enter(c, kind, p, x) ==
  LET writes == kind # "load"
  IN  /\ todo[c] = <<>>
      /\ todo' = [todo EXCEPT ![c] = Method(kind)]
      /\ call' = [d \in Clients |->
           IF d = c THEN [NoCall EXCEPT !.kind = kind, !.pulse = p, !.new = x,
                                        !.met = CloudWriters(p) # {}]
           ELSE IF writes /\ d \in Working(p) THEN [call[d] EXCEPT !.met = TRUE]
           ELSE call[d]]
      /\ torn' = IF writes /\ CloudWriters(p) # {} THEN torn \cup {p} ELSE torn
      /\ UNCHANGED <<service, blobs, metas, dropped>>

CloudSave(c, p, x) ==
  /\ p \notin named /\ named' = named \cup {p} /\ Enter(c, "save", p, x)
CloudRotate(c, p, x) ==
  p \in named /\ Enter(c, "rotate", p, x) /\ UNCHANGED named
CloudDelete(c, p) ==
  p \in named /\ Enter(c, "delete", p, NoContent) /\ UNCHANGED named
CloudLoad(c, p) ==
  p \in named /\ Enter(c, "load", p, NoContent) /\ UNCHANGED named

-----------------------------------------------------------------------------
(* The requests.                                                           *)

Requests(c, r) == todo[c] # <<>> /\ Head(todo[c]) = r

\* The client goes on with rest; at the end only what a load returns is kept.
Go(c, rest, now) ==
  /\ todo' = [todo EXCEPT ![c] = rest]
  /\ call' = [call EXCEPT ![c] =
       IF rest = <<>> /\ ~(now.kind = "load" /\ now.meta # NoContent)
         THEN NoCall ELSE now]

Proceed(c) == Go(c, Tail(todo[c]), call[c])
ReturnEarly(c) == Go(c, <<>>, call[c])

PutBlob(c) ==
  /\ Requests(c, "putBlob") /\ Proceed(c)
  /\ blobs' = [blobs EXCEPT ![call[c].pulse] = call[c].new]
  /\ UNCHANGED <<service, metas, named, torn, dropped>>

\* Variant: the metadata are those that the pulse had, if it had any.
PutMetaOnce(c) ==
  /\ Requests(c, "putMeta") /\ Proceed(c)
  /\ metas' = [metas EXCEPT ![call[c].pulse] =
                 IF @ = NoContent THEN call[c].new ELSE @]
  /\ UNCHANGED <<service, blobs, named, torn, dropped>>

PutMeta(c) ==
  /\ Requests(c, "putMeta") /\ Proceed(c)
  /\ metas' = [metas EXCEPT ![call[c].pulse] = call[c].new]
  /\ UNCHANGED <<service, blobs, named, torn, dropped>>

\* S3: a blob that is not there ends the delete with False.
HeadBlob(c) ==
  /\ Requests(c, "headBlob")
  /\ IF blobs[call[c].pulse] = NoContent THEN ReturnEarly(c) ELSE Proceed(c)
  /\ UNCHANGED <<service, blobs, metas, named, torn, dropped>>

\* Deleting what is not there succeeds on S3; on GCS it is a 404, which ends
\* the method with False.
DropBlob(c) ==
  /\ Requests(c, "dropBlob")
  /\ IF service = "gcs" /\ blobs[call[c].pulse] = NoContent
       THEN ReturnEarly(c) ELSE Proceed(c)
  /\ blobs' = [blobs EXCEPT ![call[c].pulse] = NoContent]
  /\ dropped' = dropped \cup {call[c].pulse}
  /\ UNCHANGED <<service, metas, named, torn>>

DropMeta(c) ==
  /\ Requests(c, "dropMeta") /\ Proceed(c)
  /\ metas' = [metas EXCEPT ![call[c].pulse] = NoContent]
  /\ UNCHANGED <<service, blobs, named, torn, dropped>>

\* KeyError, a 404 for the client, if the object is not there.
GetBlob(c) ==
  LET found == blobs[call[c].pulse]
  IN  /\ Requests(c, "getBlob")
      /\ Go(c, IF found = NoContent THEN <<>> ELSE Tail(todo[c]),
               [call[c] EXCEPT !.blob = found])
      /\ UNCHANGED <<service, blobs, metas, named, torn, dropped>>

\* A rotation goes on only with a blob that its metadata can decrypt.
GetMeta(c) ==
  LET found == metas[call[c].pulse]
  IN  /\ Requests(c, "getMeta")
      /\ Go(c, IF found = call[c].blob THEN Tail(todo[c]) ELSE <<>>,
               [call[c] EXCEPT !.meta = found])
      /\ UNCHANGED <<service, blobs, metas, named, torn, dropped>>

\* A request raises, or the caller is cancelled or ends with the process.
CloudAbandon(c) ==
  /\ todo[c] # <<>> /\ ReturnEarly(c)
  /\ torn' = IF call[c].kind = "load" THEN torn ELSE torn \cup {call[c].pulse}
  /\ UNCHANGED <<service, blobs, metas, named, dropped>>

CloudNext ==
  \/ \E c \in Clients, p \in Pulses :
       \/ \E x \in Contents : CloudSave(c, p, x) \/ CloudRotate(c, p, x)
       \/ CloudDelete(c, p) \/ CloudLoad(c, p)
  \/ \E c \in Clients :
       \/ PutBlob(c) \/ PutMeta(c) \/ HeadBlob(c) \/ DropBlob(c) \/ DropMeta(c)
       \/ GetBlob(c) \/ GetMeta(c) \/ CloudAbandon(c)

CloudSpec == CloudInit /\ [][CloudNext]_cloudVars

-----------------------------------------------------------------------------
(* Properties.                                                             *)

\* The two objects of a pulse belong together whenever nobody is writing it,
\* unless two writers have overlapped or one stopped half way: one writer at a
\* time leaves either a whole pulse or nothing.
TornOnlyByOverlap ==
  \A p \in Pulses \ torn : CloudWriters(p) = {} => blobs[p] = metas[p]

\* A load that has returned both objects returned a pair, unless a writer was
\* at work in the meantime or the pulse had been torn before.
LoadsPair ==
  \A c \in Clients :
    call[c].meta # NoContent /\ ~call[c].met /\ call[c].pulse \notin torn
      => call[c].blob = call[c].meta

\* A listed pulse has its blob, unless a delete has dropped it: however saves
\* and rotations overlap, fail between their two requests or end with the
\* process, they leave no metadata without a blob (a blob without metadata they
\* may leave).
ListedHasBlob == \A p \in Listed \ dropped : blobs[p] # NoContent
=============================================================================

--------------------------- MODULE Storage_proofs ---------------------------
(***************************************************************************)
(* Proofs about the storage of pulses, for any number of clients, pulses,  *)
(* files and contents: MongoDB (PulseStore), a bucket (CloudStore), and    *)
(* the router over these and the memory (Storage).                         *)
(*                                                                         *)
(* MongoDB: BlobMatchesMeta and BrokenOnlyInWork are conjuncts of          *)
(* StoreInv, which is inductive; NoOrphans is one of OrphanInv, which is   *)
(* inductive given StoreInv.  A file that a writer has uploaded and not    *)
(* yet put into its document is known to that writer alone (PrivateFile),  *)
(* so nobody can drop it; the file that a writer is about to drop was in   *)
(* the document of its own pulse (OldIsOwn), so only that pulse can break, *)
(* and that writer is still at work on it.  A file cannot be left behind,  *)
(* because a writer that is alone drops the very file that its document    *)
(* names (Found), and from then on neither that file nor any older one is  *)
(* there (Dropped).                                                        *)
(*                                                                         *)
(* A bucket: outside torn a pulse has one writer at most, so where that    *)
(* writer is says how its two objects are related (AtHand); a load that    *)
(* met nobody reads what stays there (Unmet).                              *)
(* Metadata are only put by who has put the blob before, which nothing but *)
(* the deletion of a blob takes away again (BlobFirst).                    *)
(*                                                                         *)
(* The router: a pulse that a backend accepted is whole there and nobody   *)
(* is writing it (InMongo, InCloud), so a step can spoil it only by        *)
(* beginning to.                                                           *)
(***************************************************************************)
EXTENDS Storage, SequenceTheorems, TLAPS

\* Who is in a method works on a pulse; who is beyond the search is a writer.
AtWork ==
  \A c \in Clients :
    /\ step[c] # "idle" => job[c].pulse \in Pulses
    /\ step[c] \in PastDrop \cup {"dropping"} =>
         job[c].kind \in {"save", "update", "delete"}
    /\ step[c] = "dropping" => job[c].kind \in {"update", "delete"}
    /\ step[c] \in {"uploading", "replacing"} => job[c].content \in Contents
    /\ job[c].kind \in {"save", "update"} => job[c].content \in Contents
    /\ step[c] \in {"finding", "dropping", "uploading"} => job[c].file = NoFile
    /\ step[c] \in {"reading", "rotating"} => job[c].kind = "load"

\* No two documents name the same file.
OneOwner ==
  \A p, q \in Pulses :
    doc[p].file # NoFile /\ doc[p].file = doc[q].file => p = q

\* A file that a client found in order to drop it is in no other document.
OldIsOwn ==
  \A c \in Clients, p \in Pulses :
    job[c].old # NoFile /\ doc[p].file = job[c].old => p = job[c].pulse

\* A file between its upload and its document.
Fresh(c) == step[c] = "replacing" /\ job[c].file # NoFile

PrivateFile ==
  \A c \in Clients :
    Fresh(c) =>
      /\ job[c].file \in DOMAIN files
      /\ files[job[c].file] = [pulse |-> job[c].pulse, content |-> job[c].content]
      /\ \A p \in Pulses : doc[p].file # job[c].file
      /\ \A d \in Clients : job[d].old # job[c].file
      /\ \A d \in Clients : Fresh(d) /\ job[d].file = job[c].file => d = c

StoreInv ==
  /\ StoreTypeOK /\ AtWork /\ OneOwner /\ OldIsOwn /\ PrivateFile
  /\ BlobMatchesMeta /\ BrokenOnlyInWork

Job == [kind : Kinds, pulse : Pulses \cup {NoPulse}, content : Content,
        file : 0..made, old : 0..made]

-----------------------------------------------------------------------------
\* The type of an empty job and an empty document.
LEMMA EmptyTyped ==
  ASSUME made \in Nat
  PROVE  NoJob \in Job /\ NoDoc \in [content : Content, file : 0..made]
  BY DEF NoJob, NoDoc, Job, Content, Kinds, NoFile

LEMMA InitInv == StoreInit => StoreInv
  <1> SUFFICES ASSUME StoreInit PROVE StoreInv
    OBVIOUS
  <1> USE StoreAssumption DEF StoreInit
  <1>1. StoreTypeOK
    <2>1. NoJob \in Job /\ NoDoc \in [content : Content, file : 0..made]
      BY EmptyTyped
    <2> QED
      BY <2>1 DEF StoreTypeOK, Job, Steps
  <1>2. AtWork
    BY DEF AtWork, PastDrop, NoJob
  <1>3. OneOwner
    BY DEF OneOwner, NoDoc
  <1>4. OldIsOwn
    BY DEF OldIsOwn, NoJob
  <1>5. PrivateFile
    BY DEF PrivateFile, Fresh
  <1>6. BlobMatchesMeta
    BY DEF BlobMatchesMeta, NoDoc
  <1>7. BrokenOnlyInWork
    BY DEF BrokenOnlyInWork, Broken, NoDoc
  <1> QED
    BY <1>1, <1>2, <1>3, <1>4, <1>5, <1>6, <1>7 DEF StoreInv

-----------------------------------------------------------------------------
(* One lemma per kind of step.                                             *)

\* A call changes nothing but the step and the job of its client.
LEMMA CallInv ==
  ASSUME StoreInv, NEW c \in Clients, NEW kind \in Kinds \ {"none"},
         NEW p \in Pulses, NEW x \in Content, NEW from \in {"idle", "rotating"},
         NEW first \in {"finding", "uploading", "replacing", "rotating"},
         kind \in {"save", "update"} => x \in Contents,
         first \in {"uploading", "replacing"} => kind = "save",
         first = "rotating" => kind = "load",
         used' \subseteq Pulses,
         Call(c, from, kind, p, x, first)
  PROVE  StoreInv'
  <1> USE DEF Call, StoreInv
  <1>1. StoreTypeOK'
    <2>1. job' \in [Clients -> Job]
      BY DEF StoreTypeOK, Job, NoFile
    <2> QED
      BY <2>1 DEF StoreTypeOK, Job, Steps
  <1>2. /\ step'[c] = first /\ job'[c].kind = kind /\ job'[c].pulse = p
        /\ job'[c].content = x /\ job'[c].file = NoFile /\ job'[c].old = NoFile
        /\ \A d \in Clients \ {c} : step'[d] = step[d] /\ job'[d] = job[d]
    BY DEF StoreTypeOK
  <1>3. AtWork'
    BY <1>2 DEF AtWork, PastDrop
  <1>4. OneOwner'
    BY DEF OneOwner
  <1>5. OldIsOwn'
    BY <1>2 DEF OldIsOwn
  <1>6. PrivateFile'
    BY <1>2 DEF PrivateFile, Fresh
  <1>7. BlobMatchesMeta'
    BY <1>2 DEF BlobMatchesMeta, Holds
  <1>8. BrokenOnlyInWork'
    BY <1>2 DEF BrokenOnlyInWork, Broken, Writers, PastDrop
  <1> QED
    BY <1>1, <1>3, <1>4, <1>5, <1>6, <1>7, <1>8

\* A search of a writer: the file it finds is in its own document.
LEMMA FindInv ==
  ASSUME StoreInv, NEW c \in Clients, Find(c)
  PROVE  StoreInv'
  <1> USE DEF Find, Goto, StoreInv
  <1>1. AfterOld(c) \in {"uploading", "replacing", "erasing"}
    BY DEF AfterOld, SaveStep
  <1>2. job[c].pulse \in Pulses
    BY DEF AtWork
  <1>3. StoreTypeOK'
    <2>1. job' \in [Clients -> Job]
      BY <1>2 DEF StoreTypeOK, Job
    <2>2. step' \in [Clients -> Steps]
      BY <1>1 DEF StoreTypeOK, Steps
    <2> QED
      BY <2>1, <2>2 DEF StoreTypeOK, Job
  <1>4. /\ \A d \in Clients \ {c} : step'[d] = step[d] /\ job'[d] = job[d]
        /\ job'[c].kind = job[c].kind /\ job'[c].pulse = job[c].pulse
        /\ job'[c].content = job[c].content /\ job'[c].file = job[c].file
        /\ \/ job'[c].old = doc[job[c].pulse].file /\ step'[c] = "dropping"
           \/ job'[c].old = job[c].old /\ step'[c] = AfterOld(c)
    BY DEF StoreTypeOK
  <1>5. AtWork'
    BY <1>1, <1>4 DEF AtWork, PastDrop, AfterOld, SaveStep
  <1>6. OneOwner'
    BY DEF OneOwner
  <1>7. OldIsOwn'
    BY <1>2, <1>4 DEF OldIsOwn, OneOwner
  <1>8. PrivateFile'
    BY <1>2, <1>4 DEF PrivateFile, Fresh, AtWork
  <1>9. BlobMatchesMeta'
    BY <1>1, <1>4 DEF BlobMatchesMeta, Holds
  <1>10. BrokenOnlyInWork'
    BY <1>4 DEF BrokenOnlyInWork, Broken, Writers, PastDrop
  <1> QED
    BY <1>3, <1>5, <1>6, <1>7, <1>8, <1>9, <1>10

\* The deletion of the old file: the one pulse it can break is the writer's own.
LEMMA DropInv ==
  ASSUME StoreInv, NEW c \in Clients, Drop(c)
  PROVE  StoreInv'
  <1> USE DEF Drop, Goto, StoreInv
  <1>1. AfterOld(c) \in PastDrop
    BY DEF AfterOld, SaveStep, PastDrop
  <1>2. /\ step'[c] = AfterOld(c) /\ \A d \in Clients \ {c} : step'[d] = step[d]
        /\ job[c].pulse \in Pulses /\ job[c].kind \in {"update", "delete"}
        /\ job[c].file = NoFile
    BY DEF StoreTypeOK, AtWork
  <1>3. StoreTypeOK'
    BY <1>1 DEF StoreTypeOK, PastDrop, Steps
  <1>4. AtWork'
    BY <1>1, <1>2 DEF AtWork, PastDrop, AfterOld, SaveStep
  <1>5. OneOwner' /\ OldIsOwn'
    BY DEF OneOwner, OldIsOwn
  <1>6. PrivateFile'
    BY <1>2 DEF PrivateFile, Fresh
  <1>7. BlobMatchesMeta'
    BY <1>1, <1>2 DEF BlobMatchesMeta, Holds, PastDrop
  <1>8. BrokenOnlyInWork'
    <2> SUFFICES ASSUME NEW p \in Pulses, Broken(p)', p \notin abandoned
                 PROVE  \E d \in Writers(p)' : step'[d] \in PastDrop
      BY DEF BrokenOnlyInWork
    <2>1. CASE doc[p].file = job[c].old
      <3>1. p = job[c].pulse
        BY <2>1 DEF OldIsOwn, Broken
      <3>2. c \in Writers(p)'
        BY <3>1, <1>1, <1>2 DEF Writers, PastDrop
      <3> QED
        BY <3>2, <1>1, <1>2
    <2>2. CASE doc[p].file # job[c].old
      <3>1. PICK d \in Writers(p) : step[d] \in PastDrop
        BY <2>2 DEF BrokenOnlyInWork, Broken
      <3> QED
        BY <3>1, <1>2 DEF Writers, PastDrop
    <2> QED
      BY <2>1, <2>2
  <1> QED
    BY <1>3, <1>4, <1>5, <1>6, <1>7, <1>8

LEMMA DropFailsInv ==
  ASSUME StoreInv, NEW c \in Clients, DropFails(c)
  PROVE  StoreInv'
  <1> USE DEF DropFails, Goto, StoreInv
  <1>1. AfterOld(c) \in PastDrop
    BY DEF AfterOld, SaveStep, PastDrop
  <1>2. /\ step'[c] = AfterOld(c) /\ \A d \in Clients \ {c} : step'[d] = step[d]
        /\ job[c].pulse \in Pulses /\ job[c].kind \in {"update", "delete"}
        /\ job[c].file = NoFile
    BY DEF StoreTypeOK, AtWork
  <1>3. StoreTypeOK'
    BY <1>1, <1>2 DEF StoreTypeOK, PastDrop, Steps
  <1>4. AtWork'
    BY <1>1, <1>2 DEF AtWork, PastDrop, AfterOld, SaveStep
  <1>5. OneOwner' /\ OldIsOwn'
    BY DEF OneOwner, OldIsOwn
  <1>6. PrivateFile'
    BY <1>2 DEF PrivateFile, Fresh
  <1>7. BlobMatchesMeta'
    BY <1>1, <1>2 DEF BlobMatchesMeta, Holds, PastDrop
  <1>8. BrokenOnlyInWork'
    BY <1>1, <1>2 DEF BrokenOnlyInWork, Broken, Writers, PastDrop
  <1> QED
    BY <1>3, <1>4, <1>5, <1>6, <1>7, <1>8

\* An upload: the id is new, so nobody else knows the file.
LEMMA UploadInv ==
  ASSUME StoreInv, NEW c \in Clients, Upload(c)
  PROVE  StoreInv'
  <1> USE DEF Upload, Goto, StoreInv
  <1>1. /\ made \in Nat /\ made' = made + 1 /\ made' \in 0..MaxFiles
        /\ made' \notin DOMAIN files
        /\ DOMAIN files' = DOMAIN files \cup {made'}
        /\ \A f \in DOMAIN files : files'[f] = files[f]
        /\ files'[made'] = [pulse |-> job[c].pulse, content |-> job[c].content]
    BY StoreAssumption DEF StoreTypeOK
  <1>2. /\ step'[c] = "replacing" /\ job'[c].file = made'
        /\ job'[c].kind = job[c].kind /\ job'[c].pulse = job[c].pulse
        /\ job'[c].content = job[c].content /\ job'[c].old = job[c].old
        /\ \A d \in Clients \ {c} : step'[d] = step[d] /\ job'[d] = job[d]
    BY DEF StoreTypeOK
  <1>3. job[c].pulse \in Pulses /\ job[c].content \in Contents
    BY DEF AtWork
  <1>4. \A d \in Clients : /\ job[d].old \in Nat /\ job[d].old # made'
                           /\ job[d].file \in Nat /\ job[d].file # made'
    BY <1>1 DEF StoreTypeOK
  <1>5. \A p \in Pulses : doc[p].file \in Nat /\ doc[p].file # made'
    BY <1>1 DEF StoreTypeOK
  <1>6. StoreTypeOK'
    <2>1. 0..made \subseteq 0..made' /\ made' \in 0..made'
      BY <1>1
    <2>2. doc' \in [Pulses -> [content : Content, file : 0..made']]
      BY <2>1 DEF StoreTypeOK
    <2>3. job' \in [Clients -> Job]'
      BY <2>1 DEF StoreTypeOK, Job
    <2>4. step' \in [Clients -> Steps]
      BY DEF StoreTypeOK, Steps
    <2>5. DOMAIN files' \subseteq 1..made'
      BY <1>1 DEF StoreTypeOK
    <2>6. \A f \in DOMAIN files' : files'[f] \in [pulse : Pulses, content : Contents]
      BY <1>1, <1>3 DEF StoreTypeOK
    <2> QED
      BY <1>1, <2>2, <2>3, <2>4, <2>5, <2>6 DEF StoreTypeOK, Job
  <1>7. AtWork'
    BY <1>2 DEF AtWork, PastDrop
  <1>8. OneOwner' /\ OldIsOwn'
    BY <1>2 DEF OneOwner, OldIsOwn
  <1>9. PrivateFile'
    <2> SUFFICES ASSUME NEW d \in Clients, Fresh(d)'
                 PROVE  /\ job'[d].file \in DOMAIN files'
                        /\ files'[job'[d].file]
                             = [pulse |-> job'[d].pulse, content |-> job'[d].content]
                        /\ \A p \in Pulses : doc[p].file # job'[d].file
                        /\ \A e \in Clients : job'[e].old # job'[d].file
                        /\ \A e \in Clients :
                             Fresh(e)' /\ job'[e].file = job'[d].file => e = d
      BY DEF PrivateFile
    <2>1. CASE d = c
      BY <2>1, <1>1, <1>2, <1>4, <1>5
    <2>2. CASE d # c
      BY <2>2, <1>1, <1>2, <1>4 DEF PrivateFile, Fresh
    <2> QED
      BY <2>1, <2>2
  <1>10. BlobMatchesMeta'
    BY <1>1, <1>2, <1>4, <1>5 DEF BlobMatchesMeta, Holds
  <1>11. BrokenOnlyInWork'
    BY <1>1, <1>2 DEF BrokenOnlyInWork, Broken, Writers, PastDrop
  <1> QED
    BY <1>6, <1>7, <1>8, <1>9, <1>10, <1>11

\* What the return of a client leaves of the others.
LEMMA ReturnedClient ==
  ASSUME StoreTypeOK, NEW c \in Clients, Return(c), UNCHANGED made
  PROVE  /\ step'[c] = "idle" /\ job'[c] = NoJob
         /\ \A d \in Clients \ {c} : step'[d] = step[d] /\ job'[d] = job[d]
         /\ step' \in [Clients -> Steps] /\ job' \in [Clients -> Job]
  <1>1. made \in Nat /\ job \in [Clients -> Job] /\ step \in [Clients -> Steps]
    BY StoreAssumption DEF StoreTypeOK, Job
  <1>2. NoJob \in Job
    BY <1>1, EmptyTyped
  <1> QED
    BY <1>1, <1>2 DEF Return, Goto, Steps

\* A replaced document names no file, or one that its writer alone knew.
LEMMA ReplaceInv ==
  ASSUME StoreInv, NEW c \in Clients, Replace(c)
  PROVE  StoreInv'
  <1> USE DEF Replace, StoreInv
  <1>1. /\ step'[c] = "idle" /\ job'[c] = NoJob
        /\ \A d \in Clients \ {c} : step'[d] = step[d] /\ job'[d] = job[d]
        /\ step' \in [Clients -> Steps] /\ job' \in [Clients -> Job]
    BY ReturnedClient
  <1>2. job[c].pulse \in Pulses /\ job[c].content \in Contents
    BY DEF AtWork
  <1>3. /\ doc'[job[c].pulse] = [content |-> job[c].content, file |-> job[c].file]
        /\ \A p \in Pulses \ {job[c].pulse} : doc'[p] = doc[p]
    BY <1>2 DEF StoreTypeOK
  <1>4. job[c].file = NoFile \/ Fresh(c)
    BY DEF Fresh
  <1>5. StoreTypeOK'
    <2>1. doc' \in [Pulses -> [content : Content, file : 0..made]]
      BY <1>2 DEF StoreTypeOK, Content
    <2> QED
      BY <1>1, <2>1 DEF StoreTypeOK, Job
  <1>6. AtWork'
    BY <1>1 DEF AtWork, PastDrop, NoJob
  <1>7. OneOwner'
    <2> SUFFICES ASSUME NEW p \in Pulses, NEW q \in Pulses,
                        doc'[p].file # NoFile, doc'[p].file = doc'[q].file
                 PROVE  p = q
      BY DEF OneOwner
    <2>1. doc'[job[c].pulse].file = job[c].file
      BY <1>3
    <2>2. job[c].file # NoFile => \A r \in Pulses : doc[r].file # job[c].file
      BY <1>4 DEF PrivateFile
    <2>3. CASE p = job[c].pulse \/ q = job[c].pulse
      BY <2>1, <2>2, <2>3, <1>3
    <2>4. CASE p # job[c].pulse /\ q # job[c].pulse
      BY <2>4, <1>3 DEF OneOwner
    <2> QED
      BY <2>3, <2>4
  <1>8. OldIsOwn'
    <2> SUFFICES ASSUME NEW d \in Clients, NEW p \in Pulses,
                        job'[d].old # NoFile, doc'[p].file = job'[d].old
                 PROVE  p = job'[d].pulse
      BY DEF OldIsOwn
    <2>1. d # c /\ job'[d] = job[d]
      BY <1>1 DEF NoJob
    <2>2. p # job[c].pulse
      <3>1. doc'[job[c].pulse].file = job[c].file
        BY <1>3
      <3>2. job[c].file # NoFile => job[d].old # job[c].file
        BY <1>4 DEF PrivateFile
      <3> QED
        BY <2>1, <3>1, <3>2
    <2> QED
      BY <2>1, <2>2, <1>3 DEF OldIsOwn
  <1>9. PrivateFile'
    <2> SUFFICES ASSUME NEW d \in Clients, Fresh(d)'
                 PROVE  /\ job'[d].file \in DOMAIN files'
                        /\ files'[job'[d].file]
                             = [pulse |-> job'[d].pulse, content |-> job'[d].content]
                        /\ \A p \in Pulses : doc'[p].file # job'[d].file
                        /\ \A e \in Clients : job'[e].old # job'[d].file
                        /\ \A e \in Clients :
                             Fresh(e)' /\ job'[e].file = job'[d].file => e = d
      BY DEF PrivateFile
    <2>1. d # c /\ job'[d] = job[d] /\ Fresh(d) /\ job[d].file # NoFile
      BY <1>1 DEF Fresh
    <2>2. \A e \in Clients : Fresh(e)' => e # c /\ Fresh(e) /\ job'[e] = job[e]
      BY <1>1 DEF Fresh
    <2>3. \A p \in Pulses : doc'[p].file # job[d].file
      <3>1. job[c].file # job[d].file
        BY <1>4, <2>1 DEF PrivateFile
      <3>2. \A p \in Pulses : doc[p].file # job[d].file
        BY <2>1 DEF PrivateFile
      <3>3. doc'[job[c].pulse].file = job[c].file
        BY <1>3
      <3> QED
        BY <3>1, <3>2, <3>3, <1>3
    <2>4. \A e \in Clients : job'[e].old # job[d].file
      <3>1. job'[c].old = NoFile
        BY <1>1 DEF NoJob
      <3>2. \A e \in Clients : job[e].old # job[d].file
        BY <2>1 DEF PrivateFile
      <3> QED
        BY <1>1, <2>1, <3>1, <3>2
    <2> QED
      BY <2>1, <2>2, <2>3, <2>4 DEF PrivateFile
  <1>10. BlobMatchesMeta'
    BY <1>1, <1>3, <1>4 DEF BlobMatchesMeta, Holds, PrivateFile
  <1>11. BrokenOnlyInWork'
    <2> SUFFICES ASSUME NEW p \in Pulses, Broken(p)', p \notin abandoned
                 PROVE  \E d \in Writers(p)' : step'[d] \in PastDrop
      BY DEF BrokenOnlyInWork
    <2>1. p # job[c].pulse
      <3>1. doc'[p].file # NoFile /\ doc'[p].file \notin DOMAIN files
        BY DEF Broken
      <3>2. job[c].file = NoFile \/ job[c].file \in DOMAIN files
        BY <1>4 DEF PrivateFile
      <3>3. doc'[job[c].pulse].file = job[c].file
        BY <1>3
      <3> QED
        BY <3>1, <3>2, <3>3
    <2>2. PICK d \in Writers(p) : step[d] \in PastDrop
      BY <2>1, <1>3 DEF BrokenOnlyInWork, Broken
    <2> QED
      BY <2>1, <2>2, <1>1 DEF Writers
  <1> QED
    BY <1>5, <1>6, <1>7, <1>8, <1>9, <1>10, <1>11

LEMMA EraseInv ==
  ASSUME StoreInv, NEW c \in Clients, Erase(c)
  PROVE  StoreInv'
  <1> USE DEF Erase, StoreInv
  <1>1. /\ step'[c] = "idle" /\ job'[c] = NoJob
        /\ \A d \in Clients \ {c} : step'[d] = step[d] /\ job'[d] = job[d]
        /\ step' \in [Clients -> Steps] /\ job' \in [Clients -> Job]
    BY ReturnedClient
  <1>2. job[c].pulse \in Pulses
    BY DEF AtWork, PastDrop
  <1>3. /\ doc'[job[c].pulse].file = NoFile
        /\ \A p \in Pulses \ {job[c].pulse} : doc'[p] = doc[p]
    BY <1>2 DEF StoreTypeOK, NoDoc
  <1>4. StoreTypeOK'
    <2>1. NoDoc \in [content : Content, file : 0..made]
      BY EmptyTyped, StoreAssumption DEF StoreTypeOK
    <2>2. doc' \in [Pulses -> [content : Content, file : 0..made]]
      BY <2>1 DEF StoreTypeOK
    <2> QED
      BY <1>1, <2>2 DEF StoreTypeOK, Job
  <1>5. AtWork'
    BY <1>1 DEF AtWork, PastDrop, NoJob
  <1>6. OneOwner'
    BY <1>3 DEF OneOwner
  <1>7. OldIsOwn'
    BY <1>1, <1>3 DEF OldIsOwn, NoJob
  <1>8. PrivateFile'
    BY <1>1, <1>3 DEF PrivateFile, Fresh, NoJob
  <1>9. BlobMatchesMeta'
    BY <1>1, <1>3 DEF BlobMatchesMeta, Holds
  <1>10. BrokenOnlyInWork'
    BY <1>1, <1>3 DEF BrokenOnlyInWork, Broken, Writers
  <1> QED
    BY <1>4, <1>5, <1>6, <1>7, <1>8, <1>9, <1>10

\* A search of a load that finds a file: what is about to be read is what the
\* document names.
LEMMA ReadingClient ==
  ASSUME StoreTypeOK, NEW c \in Clients, NEW p \in Pulses,
         job' = [job EXCEPT ![c].content = doc[p].content, ![c].file = doc[p].file],
         Goto(c, "reading"), UNCHANGED made
  PROVE  /\ step'[c] = "reading" /\ job'[c].kind = job[c].kind
         /\ job'[c].pulse = job[c].pulse /\ job'[c].old = job[c].old
         /\ job'[c].file = doc[p].file /\ job'[c].content = doc[p].content
         /\ \A d \in Clients \ {c} : step'[d] = step[d] /\ job'[d] = job[d]
         /\ step' \in [Clients -> Steps] /\ job' \in [Clients -> Job]
  <1>1. job \in [Clients -> Job] /\ doc[p].content \in Content
        /\ doc[p].file \in 0..made
    BY DEF StoreTypeOK, Job
  <1>2. [job[c] EXCEPT !.content = doc[p].content, !.file = doc[p].file] \in Job
    <2>1. \A j \in Job, x \in Content, f \in 0..made :
            [j EXCEPT !.content = x, !.file = f] \in Job
      BY DEF Job
    <2> QED
      BY <1>1, <2>1
  <1>3. job' = [job EXCEPT ![c] =
                  [job[c] EXCEPT !.content = doc[p].content, !.file = doc[p].file]]
    BY <1>1
  <1>4. job' \in [Clients -> Job]
    BY <1>1, <1>2, <1>3
  <1>5. /\ step' \in [Clients -> Steps] /\ step'[c] = "reading"
        /\ \A d \in Clients \ {c} : step'[d] = step[d]
    BY DEF Goto, StoreTypeOK, Steps
  <1>6. /\ job'[c].kind = job[c].kind /\ job'[c].pulse = job[c].pulse
        /\ job'[c].old = job[c].old /\ job'[c].file = doc[p].file
        /\ job'[c].content = doc[p].content
        /\ \A d \in Clients \ {c} : job'[d] = job[d]
    BY DEF StoreTypeOK
  <1> QED
    BY <1>4, <1>5, <1>6

LEMMA ReadingInv ==
  ASSUME StoreInv, NEW c \in Clients, NEW p \in Pulses, p = job[c].pulse,
         step[c] = "finding", job[c].kind = "load", doc[p].file # NoFile,
         step'[c] = "reading", job'[c].kind = job[c].kind,
         job'[c].pulse = job[c].pulse, job'[c].old = job[c].old,
         job'[c].file = doc[p].file, job'[c].content = doc[p].content,
         \A d \in Clients \ {c} : step'[d] = step[d] /\ job'[d] = job[d],
         step' \in [Clients -> Steps], job' \in [Clients -> Job],
         UNCHANGED <<doc, files, made, used, abandoned, leaky>>
  PROVE  StoreInv'
  <1> USE DEF StoreInv
  <1>1. StoreTypeOK'
    BY DEF StoreTypeOK, Job
  <1>2. AtWork'
    BY DEF AtWork, PastDrop
  <1>3. OneOwner' /\ OldIsOwn'
    BY DEF OneOwner, OldIsOwn
  <1>4. PrivateFile'
    BY DEF PrivateFile, Fresh
  <1>5. BlobMatchesMeta'
    BY DEF BlobMatchesMeta, Holds
  <1>6. BrokenOnlyInWork'
    BY DEF BrokenOnlyInWork, Broken, Writers, PastDrop
  <1> QED
    BY <1>1, <1>2, <1>3, <1>4, <1>5, <1>6

\* A load that goes on to a rotation keeps nothing in its hands.
LEMMA RotatingClient ==
  ASSUME StoreTypeOK, NEW c \in Clients, Goto(c, "rotating"), UNCHANGED made,
         job' = [job EXCEPT ![c].content = NoContent, ![c].file = NoFile]
  PROVE  /\ step'[c] = "rotating" /\ job'[c].kind = job[c].kind
         /\ job'[c].pulse = job[c].pulse /\ job'[c].old = job[c].old
         /\ job'[c].file = NoFile
         /\ \A d \in Clients \ {c} : step'[d] = step[d] /\ job'[d] = job[d]
         /\ step' \in [Clients -> Steps] /\ job' \in [Clients -> Job]
  <1>1. job \in [Clients -> Job] /\ made \in Nat
    BY StoreAssumption DEF StoreTypeOK, Job
  <1>2. [job[c] EXCEPT !.content = NoContent, !.file = NoFile] \in Job
    <2>1. job[c] \in Job /\ NoContent \in Content /\ NoFile \in 0..made
      BY <1>1 DEF Content, NoFile
    <2>2. \A j \in Job, x \in Content, f \in 0..made :
            [j EXCEPT !.content = x, !.file = f] \in Job
      BY DEF Job
    <2> QED
      BY <2>1, <2>2
  <1>3. job' = [job EXCEPT ![c] =
                  [job[c] EXCEPT !.content = NoContent, !.file = NoFile]]
    BY <1>1
  <1>4. job' \in [Clients -> Job]
    BY <1>1, <1>2, <1>3
  <1>5. /\ step' \in [Clients -> Steps] /\ step'[c] = "rotating"
        /\ \A d \in Clients \ {c} : step'[d] = step[d]
    BY DEF Goto, StoreTypeOK, Steps
  <1>6. /\ job'[c].kind = job[c].kind /\ job'[c].pulse = job[c].pulse
        /\ job'[c].old = job[c].old /\ job'[c].file = NoFile
        /\ \A d \in Clients \ {c} : job'[d] = job[d]
    BY DEF StoreTypeOK
  <1> QED
    BY <1>4, <1>5, <1>6

LEMMA RotatingInv ==
  ASSUME StoreInv, NEW c \in Clients, Goto(c, "rotating"),
         job' = [job EXCEPT ![c].content = NoContent, ![c].file = NoFile],
         step[c] \in {"finding", "reading"}, job[c].kind = "load",
         UNCHANGED <<doc, files, made, used, abandoned, leaky>>
  PROVE  StoreInv'
  <1> USE DEF StoreInv
  <1>1. /\ step'[c] = "rotating" /\ job'[c].kind = job[c].kind
        /\ job'[c].pulse = job[c].pulse /\ job'[c].old = job[c].old
        /\ job'[c].file = NoFile
        /\ \A d \in Clients \ {c} : step'[d] = step[d] /\ job'[d] = job[d]
        /\ step' \in [Clients -> Steps] /\ job' \in [Clients -> Job]
    BY RotatingClient
  <1>2. StoreTypeOK'
    BY <1>1 DEF StoreTypeOK, Job
  <1>3. AtWork'
    BY <1>1 DEF AtWork, PastDrop
  <1>4. OneOwner' /\ OldIsOwn'
    BY <1>1 DEF OneOwner, OldIsOwn
  <1>5. PrivateFile'
    BY <1>1 DEF PrivateFile, Fresh
  <1>6. BlobMatchesMeta'
    BY <1>1 DEF BlobMatchesMeta, Holds
  <1>7. BrokenOnlyInWork'
    BY <1>1 DEF BrokenOnlyInWork, Broken, Writers, PastDrop
  <1> QED
    BY <1>2, <1>3, <1>4, <1>5, <1>6, <1>7

\* A method that ends without a last command: a writer that ends so marks its
\* pulse.
LEMMA LeaveInv ==
  ASSUME StoreInv, NEW c \in Clients, Return(c), step[c] # "idle",
         UNCHANGED <<doc, files, made, used, leaky>>,
         abandoned' = IF job[c].kind = "load" THEN abandoned
                                              ELSE abandoned \cup {job[c].pulse}
  PROVE  StoreInv'
  <1> USE DEF StoreInv
  <1>1. /\ step'[c] = "idle" /\ job'[c] = NoJob
        /\ \A d \in Clients \ {c} : step'[d] = step[d] /\ job'[d] = job[d]
        /\ step' \in [Clients -> Steps] /\ job' \in [Clients -> Job]
    BY ReturnedClient
  <1>2. /\ abandoned \subseteq abandoned' /\ abandoned' \subseteq Pulses
        /\ c \in Writers(job[c].pulse) /\ step[c] \in PastDrop
             => job[c].pulse \in abandoned'
    BY DEF AtWork, StoreTypeOK, Writers, PastDrop
  <1>3. StoreTypeOK'
    BY <1>1, <1>2 DEF StoreTypeOK, Job
  <1>4. AtWork'
    BY <1>1 DEF AtWork, PastDrop, NoJob
  <1>5. OneOwner' /\ OldIsOwn'
    BY <1>1 DEF OneOwner, OldIsOwn, NoJob
  <1>6. PrivateFile'
    BY <1>1 DEF PrivateFile, Fresh, NoJob
  <1>7. BlobMatchesMeta'
    BY <1>1 DEF BlobMatchesMeta, Holds
  <1>8. BrokenOnlyInWork'
    BY <1>1, <1>2 DEF BrokenOnlyInWork, Broken, Writers
  <1> QED
    BY <1>3, <1>4, <1>5, <1>6, <1>7, <1>8

LEMMA LoadFindInv ==
  ASSUME StoreInv, NEW c \in Clients, LoadFind(c)
  PROVE  StoreInv'
  <1>1. /\ job[c].pulse \in Pulses /\ step[c] = "finding" /\ job[c].kind = "load"
        /\ UNCHANGED <<doc, files, made, used, abandoned, leaky>>
    BY DEF LoadFind, StoreInv, AtWork
  <1>2. \/ Return(c)
        \/ /\ Goto(c, "rotating")
           /\ job' = [job EXCEPT ![c].content = NoContent, ![c].file = NoFile]
        \/ /\ Goto(c, "reading") /\ doc[job[c].pulse].file # NoFile
           /\ job' = [job EXCEPT ![c].content = doc[job[c].pulse].content,
                                 ![c].file = doc[job[c].pulse].file]
    BY DEF LoadFind, Loaded
  <1>3. CASE Goto(c, "reading") /\ doc[job[c].pulse].file # NoFile
             /\ job' = [job EXCEPT ![c].content = doc[job[c].pulse].content,
                                   ![c].file = doc[job[c].pulse].file]
    <2>1. PICK p \in Pulses : p = job[c].pulse
      BY <1>1
    <2>2. /\ step'[c] = "reading" /\ job'[c].kind = job[c].kind
          /\ job'[c].pulse = job[c].pulse /\ job'[c].old = job[c].old
          /\ job'[c].file = doc[p].file /\ job'[c].content = doc[p].content
          /\ \A d \in Clients \ {c} : step'[d] = step[d] /\ job'[d] = job[d]
          /\ step' \in [Clients -> Steps] /\ job' \in [Clients -> Job]
      BY <1>1, <1>3, <2>1, ReadingClient DEF StoreInv
    <2> QED
      BY <1>1, <1>3, <2>1, <2>2, ReadingInv
  <1> QED
    BY <1>1, <1>2, <1>3, LeaveInv, RotatingInv

LEMMA LoadReadInv ==
  ASSUME StoreInv, NEW c \in Clients, LoadRead(c)
  PROVE  StoreInv'
  <1>1. /\ step[c] = "reading" /\ job[c].kind = "load"
        /\ UNCHANGED <<doc, files, made, used, abandoned, leaky>>
    BY DEF LoadRead, StoreInv, AtWork
  <1>2. \/ Return(c)
        \/ /\ Goto(c, "rotating")
           /\ job' = [job EXCEPT ![c].content = NoContent, ![c].file = NoFile]
    BY DEF LoadRead, Loaded
  <1> QED
    BY <1>1, <1>2, LeaveInv, RotatingInv

LEMMA AbandonInv ==
  ASSUME StoreInv, NEW c \in Clients, Abandon(c)
  PROVE  StoreInv'
  BY LeaveInv DEF Abandon

LEMMA ExpireInv ==
  ASSUME StoreInv, NEW p \in Pulses, Expire(p)
  PROVE  StoreInv'
  <1> USE DEF Expire, StoreInv
  <1>1. /\ doc'[p].file = NoFile /\ \A q \in Pulses \ {p} : doc'[q] = doc[q]
        /\ doc' \in [Pulses -> [content : Content, file : 0..made]]
    <2>1. NoDoc \in [content : Content, file : 0..made]
      BY EmptyTyped, StoreAssumption DEF StoreTypeOK
    <2> QED
      BY <2>1 DEF StoreTypeOK, NoDoc
  <1>2. StoreTypeOK'
    BY <1>1 DEF StoreTypeOK
  <1>3. AtWork' /\ OneOwner' /\ OldIsOwn'
    BY <1>1 DEF AtWork, OneOwner, OldIsOwn
  <1>4. PrivateFile'
    BY <1>1 DEF PrivateFile, Fresh
  <1>5. BlobMatchesMeta'
    BY <1>1 DEF BlobMatchesMeta, Holds
  <1>6. BrokenOnlyInWork'
    BY <1>1 DEF BrokenOnlyInWork, Broken, Writers
  <1> QED
    BY <1>2, <1>3, <1>4, <1>5, <1>6

LEMMA NextInv == StoreInv /\ [StoreNext]_storeVars => StoreInv'
  <1> SUFFICES ASSUME StoreInv, [StoreNext]_storeVars PROVE StoreInv'
    OBVIOUS
  <1>1. ASSUME NEW c \in Clients, NEW p \in Pulses, NEW x \in Contents,
               Save(c, p, x) \/ Update(c, p, x)
        PROVE  StoreInv'
    <2>1. CASE Save(c, p, x)
      <3>1. used' \subseteq Pulses /\ Call(c, "idle", "save", p, x, SaveStep(x))
        BY <2>1 DEF Save, StoreInv, StoreTypeOK
      <3>2. SaveStep(x) \in {"uploading", "replacing"}
        BY DEF SaveStep
      <3> QED
        BY <3>1, <3>2, CallInv DEF Kinds, Content
    <2>2. CASE Update(c, p, x)
      <3>1. used' \subseteq Pulses /\ Call(c, "rotating", "update", p, x, "finding")
        BY <2>2 DEF Update, StoreInv, StoreTypeOK
      <3> QED
        BY <3>1, CallInv DEF Kinds, Content
    <2> QED
      BY <1>1, <2>1, <2>2
  <1>2. ASSUME NEW c \in Clients, NEW p \in Pulses, Delete(c, p) \/ Load(c, p)
        PROVE  StoreInv'
    <2>1. /\ used' \subseteq Pulses /\ NoContent \in Content
          /\ \/ Call(c, "idle", "delete", p, NoContent, "finding")
             \/ Call(c, "idle", "load", p, NoContent, "finding")
      BY <1>2 DEF Delete, Load, StoreInv, StoreTypeOK, Content
    <2> QED
      BY <2>1, CallInv DEF Kinds
  <1>3. ASSUME NEW c \in Clients,
               \/ Find(c) \/ Drop(c) \/ DropFails(c) \/ Upload(c) \/ Replace(c)
               \/ Erase(c) \/ LoadFind(c) \/ LoadRead(c) \/ Abandon(c)
        PROVE  StoreInv'
    BY <1>3, FindInv, DropInv, DropFailsInv, UploadInv, ReplaceInv, EraseInv,
       LoadFindInv, LoadReadInv, AbandonInv
  <1>4. ASSUME NEW p \in Pulses, Expire(p) PROVE StoreInv'
    BY <1>4, ExpireInv
  <1>5. CASE UNCHANGED storeVars
    BY <1>5 DEF storeVars, StoreInv, StoreTypeOK, AtWork, OneOwner, OldIsOwn,
       PrivateFile, Fresh, BlobMatchesMeta, Holds, BrokenOnlyInWork, Broken, Writers
  <1> QED
    BY <1>1, <1>2, <1>3, <1>4, <1>5 DEF StoreNext

-----------------------------------------------------------------------------
(* NoOrphans.  A pulse is clean while its writers came one after the other  *)
(* and none was abandoned; then the only writer at work knows every file    *)
(* that its document does not name, and when it puts another file into the  *)
(* document, the one that was named there is gone (Dropped).                *)

Clean(p) == p \notin abandoned \cup leaky

SoleWriter == \A p \in Pulses : p \notin leaky => \A c, d \in Writers(p) : c = d

\* An id that was not given out has no document and no save or update, and no
\* load has found it.
UsedOnly ==
  /\ \A p \in Pulses \ used : doc[p] = NoDoc
  /\ \A c \in Clients :
       /\ step[c] # "idle" /\ job[c].kind \in {"save", "update"} => job[c].pulse \in used
       /\ step[c] \in {"reading", "rotating"} => job[c].pulse \in used

\* Before it has found a file a client holds none; a delete uploads none and
\* nobody else erases a document.
Stages ==
  \A c \in Clients :
    /\ step[c] = "finding" => job[c].old = NoFile
    /\ step[c] = "erasing" => job[c].file = NoFile /\ job[c].kind = "delete"
    /\ step[c] \in {"uploading", "replacing"} => job[c].kind \in {"save", "update"}

\* The file that a writer is about to drop is the one that its document names.
Found ==
  \A p \in Pulses : Clean(p) =>
    \A c \in Writers(p) : step[c] = "dropping" => job[c].old = doc[p].file

\* Afterwards neither is there any more.
Dropped ==
  \A p \in Pulses : Clean(p) =>
    \A c \in Writers(p) : step[c] \in PastDrop =>
      doc[p].file \notin DOMAIN files /\ job[c].old \notin DOMAIN files

OrphanInv ==
  SoleWriter /\ UsedOnly /\ Stages /\ Found /\ Dropped /\ NoOrphans

LEMMA NoFileIsNone == ASSUME StoreTypeOK PROVE NoFile \notin DOMAIN files
  BY DEF StoreTypeOK, NoFile

LEMMA OrphanInit == StoreInit => OrphanInv
  BY DEF StoreInit, OrphanInv, SoleWriter, UsedOnly, Stages, Found,
     Dropped, NoOrphans, Writers, NoDoc, NoJob

\* A call: a second writer of a pulse makes it leaky.
LEMMA CallOrphan ==
  ASSUME StoreInv, OrphanInv, NEW c \in Clients, NEW p \in Pulses,
         NEW kind \in Kinds \ {"none"}, NEW x \in Content,
         NEW from \in {"idle", "rotating"},
         NEW first \in {"finding", "uploading", "replacing", "rotating"},
         Call(c, from, kind, p, x, first),
         used \subseteq used', used' \subseteq Pulses,
         kind \in {"save", "update"} \/ first = "rotating" => p \in used',
         first \in {"uploading", "replacing"} => kind = "save" /\ p \notin used,
         first = "rotating" => kind = "load"
  PROVE  OrphanInv'
  <1> USE DEF StoreInv, OrphanInv
  <1>1. /\ step[c] = from /\ step'[c] = first
        /\ job'[c] = [kind |-> kind, pulse |-> p, content |-> x,
                      file |-> NoFile, old |-> NoFile]
        /\ \A d \in Clients \ {c} : step'[d] = step[d] /\ job'[d] = job[d]
        /\ UNCHANGED <<doc, files, made, abandoned>>
        /\ leaky \subseteq leaky'
    BY DEF Call, StoreTypeOK
  <1>2. \A q \in Pulses : Writers(q)' \subseteq Writers(q) \cup {c}
    BY <1>1 DEF Writers
  <1>3. \A q \in Pulses : Writers(q) \subseteq Writers(q)' /\ c \notin Writers(q)
    BY <1>1 DEF Writers, AtWork
  <1>4. \A q \in Pulses : c \in Writers(q)' => q = p /\ kind # "load"
    BY <1>1 DEF Writers
  <1>5. SoleWriter'
    <2> SUFFICES ASSUME NEW q \in Pulses, q \notin leaky',
                        NEW d \in Writers(q)', NEW e \in Writers(q)'
                 PROVE  d = e
      BY DEF SoleWriter
    <2>1. CASE c \notin Writers(q)'
      BY <1>1, <1>2, <2>1 DEF SoleWriter
    <2>2. CASE c \in Writers(q)'
      <3>1. Writers(q) = {}
        BY <1>4, <2>2 DEF Call
      <3> QED
        BY <1>2, <3>1
    <2> QED
      BY <2>1, <2>2
  <1>6. UsedOnly'
    BY <1>1 DEF UsedOnly
  <1>7. Stages'
    BY <1>1 DEF Stages
  <1>8. Found'
    <2> SUFFICES ASSUME NEW q \in Pulses, Clean(q)', NEW d \in Writers(q)',
                        step'[d] = "dropping"
                 PROVE  job'[d].old = doc[q].file
      BY <1>1 DEF Found
    <2>1. d # c /\ d \in Writers(q) /\ d \in Clients
      BY <1>1, <1>2 DEF Writers
    <2>2. Clean(q)
      BY <1>1 DEF Clean
    <2> QED
      BY <1>1, <2>1, <2>2 DEF Found
  <1>9. Dropped'
    <2> SUFFICES ASSUME NEW q \in Pulses, Clean(q)', NEW d \in Writers(q)',
                        step'[d] \in PastDrop
                 PROVE  doc[q].file \notin DOMAIN files
                          /\ job'[d].old \notin DOMAIN files
      BY <1>1 DEF Dropped
    <2>1. CASE d = c
      <3>1. q = p /\ first \in {"uploading", "replacing"} /\ p \notin used
        BY <1>1, <1>4, <2>1 DEF PastDrop
      <3>2. doc[q].file = NoFile /\ job'[d].old = NoFile
        BY <1>1, <2>1, <3>1 DEF UsedOnly, NoDoc
      <3> QED
        BY <3>2, NoFileIsNone
    <2>2. CASE d # c
      <3>1. d \in Writers(q) /\ d \in Clients /\ Clean(q)
        BY <1>1, <1>2, <2>2 DEF Writers, Clean
      <3> QED
        BY <1>1, <2>2, <3>1 DEF Dropped
    <2> QED
      BY <2>1, <2>2
  <1>10. NoOrphans'
    <2> SUFFICES ASSUME NEW f \in DOMAIN files, Clean(files[f].pulse)',
                        doc[files[f].pulse].file # f
                 PROVE  \E d \in Writers(files[f].pulse)' :
                          f \in {job'[d].file, job'[d].old}
      BY <1>1 DEF NoOrphans, Clean
    <2>1. files[f].pulse \in Pulses
      BY DEF StoreTypeOK
    <2>2. PICK d \in Writers(files[f].pulse) : f \in {job[d].file, job[d].old}
      BY <1>1 DEF NoOrphans, Clean
    <2>3. d # c /\ d \in Clients
      BY <1>3, <2>1, <2>2 DEF Writers
    <2> QED
      BY <1>1, <1>3, <2>1, <2>2, <2>3
  <1> QED
    BY <1>5, <1>6, <1>7, <1>8, <1>9, <1>10

\* What every command of a method leaves as it is: its pulse and its kind, the
\* documents, and what the other clients do.
Goes(c) ==
  /\ step[c] # "idle" /\ step'[c] # "idle"
  /\ job'[c].kind = job[c].kind /\ job'[c].pulse = job[c].pulse
  /\ \A d \in Clients \ {c} : step'[d] = step[d] /\ job'[d] = job[d]
  /\ UNCHANGED <<doc, used, abandoned>> /\ leaky \subseteq leaky'
  /\ step'[c] \in {"reading", "rotating"} => job[c].pulse \in used

LEMMA GoesOrphan ==
  ASSUME OrphanInv, NEW c \in Clients, Goes(c)
  PROVE  /\ \A p \in Pulses : Writers(p)' = Writers(p)
         /\ SoleWriter' /\ UsedOnly'
  <1>1. \A p \in Pulses : Writers(p)' = Writers(p)
    BY DEF Goes, Writers
  <1> QED
    BY <1>1 DEF Goes, OrphanInv, SoleWriter, UsedOnly

\* An update goes on with save_pulse, a delete erases the document.
LEMMA NextCommand ==
  ASSUME NEW c \in Clients, job[c].kind \in {"update", "delete"}
  PROVE  /\ job[c].kind = "update" => AfterOld(c) \in {"uploading", "replacing"}
         /\ job[c].kind = "delete" => AfterOld(c) = "erasing"
         /\ AfterOld(c) \in PastDrop
  BY DEF AfterOld, SaveStep, PastDrop

LEMMA FindOrphan ==
  ASSUME StoreInv, OrphanInv, NEW c \in Clients, Find(c)
  PROVE  OrphanInv'
  <1> USE DEF StoreInv, OrphanInv
  <1>1. AfterOld(c) \in {"uploading", "replacing", "erasing"}
    BY DEF AfterOld, SaveStep
  <1>2. /\ job[c].pulse \in Pulses /\ step[c] = "finding"
        /\ job[c].kind \in {"update", "delete"} /\ job[c].old = NoFile
        /\ job[c].file = NoFile
        /\ UNCHANGED <<doc, files, made, used, abandoned, leaky>>
        /\ \A d \in Clients \ {c} : step'[d] = step[d] /\ job'[d] = job[d]
    BY DEF Find, Goto, AtWork, Stages, StoreTypeOK
  <1>3. /\ job'[c].kind = job[c].kind /\ job'[c].pulse = job[c].pulse
        /\ job'[c].file = NoFile
        /\ \/ /\ job'[c].old = doc[job[c].pulse].file /\ step'[c] = "dropping"
           \/ /\ job'[c].old = NoFile /\ step'[c] = AfterOld(c)
              /\ doc[job[c].pulse].file = NoFile
    BY <1>2 DEF Find, Goto, StoreTypeOK
  <1>4. Goes(c)
    BY <1>1, <1>2, <1>3 DEF Goes
  <1>5. /\ \A p \in Pulses : Writers(p)' = Writers(p)
        /\ SoleWriter' /\ UsedOnly'
    BY <1>4, GoesOrphan
  <1>6. Stages'
    BY <1>2, <1>3, NextCommand DEF Stages
  <1>7. Found'
    BY <1>1, <1>2, <1>3, <1>5 DEF Found, Clean, Writers
  <1>8. Dropped'
    BY <1>1, <1>2, <1>3, <1>5, NoFileIsNone DEF Dropped, Clean, Writers, PastDrop
  <1>9. NoOrphans'
    <2> SUFFICES ASSUME NEW f \in DOMAIN files, Clean(files[f].pulse),
                        doc[files[f].pulse].file # f
                 PROVE  \E d \in Writers(files[f].pulse)' :
                          f \in {job'[d].file, job'[d].old}
      BY <1>2 DEF NoOrphans, Clean
    <2>1. files[f].pulse \in Pulses /\ f # NoFile
      BY NoFileIsNone DEF StoreTypeOK
    <2>2. PICK d \in Writers(files[f].pulse) : f \in {job[d].file, job[d].old}
      BY DEF NoOrphans, Clean
    <2>3. d # c /\ d \in Clients
      BY <1>2, <2>1, <2>2 DEF Writers
    <2> QED
      BY <1>2, <1>5, <2>1, <2>2, <2>3
  <1> QED
    BY <1>5, <1>6, <1>7, <1>8, <1>9

\* The file that goes was named by the document and by the writer.
LEMMA DropOrphan ==
  ASSUME StoreInv, OrphanInv, NEW c \in Clients, Drop(c)
  PROVE  OrphanInv'
  <1> USE DEF StoreInv, OrphanInv
  <1>1. AfterOld(c) \in PastDrop /\ AfterOld(c) # "finding"
    BY DEF AfterOld, SaveStep, PastDrop
  <1>2. /\ job[c].pulse \in Pulses /\ step[c] = "dropping"
        /\ job[c].kind \in {"update", "delete"} /\ job[c].file = NoFile
        /\ UNCHANGED <<doc, made, job, used, abandoned, leaky>>
        /\ step'[c] = AfterOld(c)
        /\ \A d \in Clients \ {c} : step'[d] = step[d]
        /\ DOMAIN files' = DOMAIN files \ {job[c].old}
        /\ \A f \in DOMAIN files' : files'[f] = files[f]
    BY DEF Drop, Goto, AtWork, StoreTypeOK
  <1>3. Goes(c)
    BY <1>1, <1>2 DEF Goes, PastDrop
  <1>4. /\ \A p \in Pulses : Writers(p)' = Writers(p)
        /\ SoleWriter' /\ UsedOnly'
    BY <1>3, GoesOrphan
  <1>5. Stages'
    BY <1>2, NextCommand DEF Stages, PastDrop
  <1>6. Found'
    <2> SUFFICES ASSUME NEW p \in Pulses, Clean(p), NEW d \in Writers(p),
                        step'[d] = "dropping"
                 PROVE  job[d].old = doc[p].file
      BY <1>2, <1>4 DEF Found, Clean
    <2>1. d # c /\ d \in Clients
      BY <1>1, <1>2 DEF Writers, PastDrop
    <2> QED
      BY <1>2, <2>1 DEF Found
  <1>7. Dropped'
    <2> SUFFICES ASSUME NEW p \in Pulses, Clean(p), NEW d \in Writers(p),
                        step'[d] \in PastDrop
                 PROVE  doc[p].file \notin DOMAIN files'
                          /\ job[d].old \notin DOMAIN files'
      BY <1>2, <1>4 DEF Dropped, Clean
    <2>1. CASE d = c
      BY <1>2, <2>1 DEF Found, Writers
    <2>2. CASE d # c
      BY <1>2, <2>2 DEF Dropped, Writers
    <2> QED
      BY <2>1, <2>2
  <1>8. NoOrphans'
    BY <1>2, <1>4 DEF NoOrphans, StoreTypeOK
  <1> QED
    BY <1>4, <1>5, <1>6, <1>7, <1>8

\* A deletion that fails makes the pulse leaky.
LEMMA DropFailsOrphan ==
  ASSUME StoreInv, OrphanInv, NEW c \in Clients, DropFails(c)
  PROVE  OrphanInv'
  <1> USE DEF StoreInv, OrphanInv
  <1>1. AfterOld(c) \in PastDrop /\ AfterOld(c) # "finding"
    BY DEF AfterOld, SaveStep, PastDrop
  <1>2. /\ job[c].pulse \in Pulses /\ step[c] = "dropping" /\ job[c].file = NoFile
        /\ job[c].kind \in {"update", "delete"}
        /\ UNCHANGED <<doc, files, made, job, used, abandoned>>
        /\ leaky' = leaky \cup {job[c].pulse}
        /\ step'[c] = AfterOld(c)
        /\ \A d \in Clients \ {c} : step'[d] = step[d]
    BY DEF DropFails, Goto, AtWork, StoreTypeOK
  <1>3. Goes(c)
    BY <1>1, <1>2 DEF Goes, PastDrop
  <1>4. /\ \A p \in Pulses : Writers(p)' = Writers(p)
        /\ SoleWriter' /\ UsedOnly'
    BY <1>3, GoesOrphan
  <1>5. Stages'
    BY <1>2, NextCommand DEF Stages, PastDrop
  <1>6. Found' /\ Dropped'
    BY <1>1, <1>2, <1>4 DEF Found, Dropped, Clean, PastDrop, Writers
  <1>7. NoOrphans'
    BY <1>2, <1>4 DEF NoOrphans, StoreTypeOK
  <1> QED
    BY <1>4, <1>5, <1>6, <1>7

\* The new file is in the hands of its writer.
LEMMA UploadOrphan ==
  ASSUME StoreInv, OrphanInv, NEW c \in Clients, Upload(c)
  PROVE  OrphanInv'
  <1> USE DEF StoreInv, OrphanInv
  <1>1. /\ job[c].pulse \in Pulses /\ step[c] = "uploading" /\ job[c].file = NoFile
        /\ job[c].kind \in {"save", "update"} /\ step[c] # "reading"
        /\ UNCHANGED <<doc, used, abandoned, leaky>> /\ made' = made + 1
        /\ step'[c] = "replacing"
        /\ job'[c] = [job[c] EXCEPT !.file = made']
        /\ \A d \in Clients \ {c} : step'[d] = step[d] /\ job'[d] = job[d]
        /\ DOMAIN files' = DOMAIN files \cup {made'}
        /\ files'[made'].pulse = job[c].pulse
        /\ \A f \in DOMAIN files : f # made' /\ files'[f] = files[f]
    BY DEF Upload, Goto, AtWork, Stages, StoreTypeOK, PastDrop
  <1>2. /\ job'[c].kind = job[c].kind /\ job'[c].pulse = job[c].pulse
        /\ job'[c].old = job[c].old /\ job'[c].file = made'
    BY <1>1 DEF StoreTypeOK
  <1>3. Goes(c)
    BY <1>1, <1>2 DEF Goes
  <1>4. /\ \A p \in Pulses : Writers(p)' = Writers(p)
        /\ SoleWriter' /\ UsedOnly'
    BY <1>3, GoesOrphan
  <1>5. Stages'
    <2>1. ASSUME NEW d \in Clients \ {c}
          PROVE  step'[d] = step[d] /\ job'[d] = job[d]
      BY <1>1
    <2>2. /\ step'[c] = "replacing"
          /\ job'[c].kind \in {"save", "update"}
      BY <1>1, <1>2
    <2> QED
      BY <2>1, <2>2 DEF Stages
  <1>6. /\ \A p \in Pulses : doc[p].file # made'
        /\ \A d \in Clients : job[d].old # made'
    BY <1>1 DEF StoreTypeOK
  <1>7. ASSUME NEW d \in Clients
        PROVE  job'[d].old = job[d].old /\ job[d].file \in {NoFile, job'[d].file}
    BY <1>1, <1>2
  <1>8. Found' /\ Dropped'
    <2> SUFFICES ASSUME NEW p \in Pulses, Clean(p), NEW d \in Writers(p)
                 PROVE  /\ step'[d] = "dropping" => job'[d].old = doc[p].file
                        /\ step'[d] \in PastDrop =>
                             /\ doc[p].file \notin DOMAIN files'
                             /\ job'[d].old \notin DOMAIN files'
      BY <1>1, <1>4 DEF Found, Dropped, Clean
    <2>1. d \in Clients
      BY DEF Writers
    <2>2. /\ step'[d] = "dropping" => step[d] = "dropping"
          /\ step'[d] \in PastDrop => step[d] \in PastDrop
      BY <1>1, <2>1 DEF PastDrop
    <2> QED
      BY <1>1, <1>6, <1>7, <2>1, <2>2 DEF Found, Dropped
  <1>9. NoOrphans'
    <2> SUFFICES ASSUME NEW f \in DOMAIN files', Clean(files'[f].pulse),
                        doc[files'[f].pulse].file # f
                 PROVE  \E d \in Writers(files'[f].pulse) :
                          f \in {job'[d].file, job'[d].old}
      <3>1. \A f \in DOMAIN files' : files'[f].pulse \in Pulses
        BY <1>1 DEF StoreTypeOK
      <3> QED
        BY <1>1, <1>4, <3>1 DEF NoOrphans, Clean
    <2>1. CASE f = made'
      <3>1. c \in Writers(job[c].pulse)
        BY <1>1 DEF Writers
      <3> QED
        BY <1>1, <1>2, <2>1, <3>1
    <2>2. CASE f \in DOMAIN files
      <3>1. files[f].pulse \in Pulses /\ files'[f] = files[f]
        BY <1>1, <2>2 DEF StoreTypeOK
      <3>2. PICK d \in Writers(files[f].pulse) : f \in {job[d].file, job[d].old}
        BY <2>2, <3>1 DEF NoOrphans, Clean
      <3>3. d \in Clients /\ f # NoFile
        BY <2>2, <3>2, NoFileIsNone DEF Writers
      <3> QED
        BY <1>7, <3>1, <3>2, <3>3
    <2> QED
      BY <1>1, <2>1, <2>2
  <1> QED
    BY <1>4, <1>5, <1>8, <1>9

\* The last command of a writer: whatever its document named is gone.
LEMMA ReturnOrphan ==
  ASSUME StoreInv, OrphanInv, NEW c \in Clients, Return(c), step[c] # "idle",
         UNCHANGED <<files, made, used, leaky>>, abandoned \subseteq abandoned',
         NEW p \in Pulses, p = job[c].pulse,
         \A q \in Pulses \ {p} : doc'[q] = doc[q],
         \/ doc' = doc /\ (job[c].kind = "load" \/ p \in abandoned')
         \/ /\ step[c] \in {"replacing", "erasing"}
            /\ doc'[p].file = job[c].file
            /\ doc'[p] = NoDoc \/ p \in used
  PROVE  OrphanInv'
  <1> USE DEF StoreInv, OrphanInv
  <1>1. /\ step'[c] = "idle" /\ job'[c] = NoJob
        /\ \A d \in Clients \ {c} : step'[d] = step[d] /\ job'[d] = job[d]
    BY DEF Return, Goto, StoreTypeOK
  <1>2. \A q \in Pulses : Writers(q)' = Writers(q) \ {c}
    BY <1>1 DEF Writers
  <1>3. SoleWriter' /\ Stages'
    BY <1>1, <1>2 DEF SoleWriter, Stages
  <1>4. UsedOnly'
    BY <1>1 DEF UsedOnly
  <1>5. ASSUME NEW q \in Pulses, Clean(q)', doc'[q] # doc[q]
        PROVE  q = p /\ c \in Writers(q) /\ Writers(q)' = {} /\ step[c] \in PastDrop
    <2>1. q = p /\ step[c] \in PastDrop
      BY <1>5 DEF PastDrop
    <2>2. c \in Writers(q)
      BY <2>1 DEF Writers, AtWork
    <2> QED
      BY <1>2, <1>5, <2>1, <2>2 DEF SoleWriter, Clean
  <1>6. Found' /\ Dropped'
    <2> SUFFICES ASSUME NEW q \in Pulses, Clean(q)', NEW d \in Writers(q)'
                 PROVE  /\ step'[d] = "dropping" => job'[d].old = doc'[q].file
                        /\ step'[d] \in PastDrop =>
                             /\ doc'[q].file \notin DOMAIN files
                             /\ job'[d].old \notin DOMAIN files
      BY DEF Found, Dropped
    <2>1. doc'[q] = doc[q] /\ d # c /\ d \in Writers(q) /\ d \in Clients
      BY <1>2, <1>5 DEF Writers
    <2> QED
      BY <1>1, <2>1 DEF Found, Dropped, Clean
  <1>7. NoOrphans'
    <2> SUFFICES ASSUME NEW f \in DOMAIN files, Clean(files[f].pulse)'
                 PROVE  \/ doc'[files[f].pulse].file = f
                        \/ \E d \in Writers(files[f].pulse)' :
                             f \in {job'[d].file, job'[d].old}
      BY DEF NoOrphans, Clean
    <2>0. PICK q \in Pulses : q = files[f].pulse
      BY DEF StoreTypeOK
    <2>1. Clean(q)
      BY <2>0 DEF Clean
    <2>2. \/ doc[q].file = f
          \/ \E d \in Writers(q) : f \in {job[d].file, job[d].old}
      BY <2>0, <2>1 DEF NoOrphans, Clean
    <2>3. CASE c \notin Writers(q)
      <3>1. ASSUME NEW d \in Writers(q)
            PROVE  d \in Writers(q)' /\ job'[d] = job[d]
        <4>1. d # c /\ d \in Clients
          BY <2>3 DEF Writers
        <4> QED
          BY <1>1, <1>2, <2>1, <4>1
      <3>2. doc'[q] = doc[q]
        BY <1>5, <2>1, <2>3, <2>0 DEF Clean
      <3> QED
        BY <2>0, <2>2, <3>1, <3>2
    <2>4. CASE c \in Writers(q)
      <3>1. q = p /\ job[c].kind # "load" /\ p \notin abandoned'
        BY <2>0, <2>4 DEF Writers, Clean
      <3>2. step[c] \in PastDrop /\ doc'[q].file = job[c].file
        BY <3>1 DEF PastDrop
      <3>3. doc[q].file # f /\ job[c].old # f
        BY <2>1, <2>4, <3>2 DEF Dropped
      <3>4. job[c].file = f
        BY <2>1, <2>2, <2>4, <3>3 DEF SoleWriter, Clean
      <3> QED
        BY <2>0, <3>1, <3>2, <3>4
    <2> QED
      BY <2>3, <2>4
  <1> QED
    BY <1>3, <1>4, <1>6, <1>7

LEMMA CommandOrphan ==
  ASSUME StoreInv, OrphanInv, NEW c \in Clients,
         Replace(c) \/ Erase(c) \/ Abandon(c)
  PROVE  OrphanInv'
  <1> USE DEF StoreInv, OrphanInv
  <1> DEFINE p == job[c].pulse
  <1>1. p \in Pulses /\ step[c] # "idle" /\ Return(c)
    BY DEF Replace, Erase, Abandon, AtWork
  <1>2. CASE Replace(c)
    <2>1. /\ doc'[p].file = job[c].file
          /\ \A q \in Pulses \ {p} : doc'[q] = doc[q]
          /\ UNCHANGED <<files, made, used, leaky, abandoned>>
          /\ step[c] = "replacing"
      BY <1>1, <1>2 DEF Replace, StoreTypeOK
    <2>2. p \in used
      BY <2>1 DEF UsedOnly, AtWork, Stages
    <2> QED
      BY <1>1, <2>1, <2>2, ReturnOrphan
  <1>3. CASE Erase(c)
    <2>1. /\ doc'[p] = NoDoc /\ \A q \in Pulses \ {p} : doc'[q] = doc[q]
          /\ UNCHANGED <<files, made, used, leaky, abandoned>>
          /\ step[c] = "erasing" /\ job[c].file = NoFile
      BY <1>1, <1>3 DEF Erase, StoreTypeOK, Stages
    <2> QED
      BY <1>1, <2>1, ReturnOrphan DEF NoDoc
  <1>4. CASE Abandon(c)
    BY <1>1, <1>4, ReturnOrphan DEF Abandon
  <1> QED
    BY <1>2, <1>3, <1>4

\* A load that goes on touches no file.
LEMMA LoadGoesOrphan ==
  ASSUME StoreInv, OrphanInv, NEW c \in Clients, job[c].kind = "load",
         step[c] \in {"finding", "reading"}, step'[c] \in {"reading", "rotating"},
         job'[c].kind = job[c].kind, job'[c].pulse = job[c].pulse,
         job[c].pulse \in used,
         \A d \in Clients \ {c} : step'[d] = step[d] /\ job'[d] = job[d],
         UNCHANGED <<doc, files, made, used, abandoned, leaky>>
  PROVE  OrphanInv'
  <1> USE DEF StoreInv, OrphanInv
  <1>1. Goes(c)
    BY DEF Goes
  <1>2. /\ \A p \in Pulses : Writers(p)' = Writers(p)
        /\ SoleWriter' /\ UsedOnly'
    BY <1>1, GoesOrphan
  <1>3. \A p \in Pulses : \A d \in Writers(p) : d \in Clients \ {c}
    BY DEF Writers
  <1>4. Stages'
    BY DEF Stages
  <1>5. Found' /\ Dropped'
    BY <1>2, <1>3 DEF Found, Dropped, Clean
  <1>6. NoOrphans'
    BY <1>2, <1>3 DEF NoOrphans, StoreTypeOK
  <1> QED
    BY <1>2, <1>4, <1>5, <1>6

LEMMA LoadOrphan ==
  ASSUME StoreInv, OrphanInv, NEW c \in Clients, LoadFind(c) \/ LoadRead(c)
  PROVE  OrphanInv'
  <1> USE DEF StoreInv, OrphanInv
  <1>1. /\ job[c].pulse \in Pulses /\ step[c] \in {"finding", "reading"}
        /\ job[c].kind = "load"
        /\ UNCHANGED <<doc, files, made, used, abandoned, leaky>>
    BY DEF LoadFind, LoadRead, AtWork
  <1>2. CASE Return(c)
    BY <1>1, <1>2, ReturnOrphan
  <1>3. CASE ~Return(c)
    <2>1. job[c].pulse \in used
      BY <1>1, <1>3 DEF LoadFind, LoadRead, UsedOnly
    <2>2. /\ step'[c] \in {"reading", "rotating"} /\ job'[c].kind = job[c].kind
          /\ job'[c].pulse = job[c].pulse
          /\ \A d \in Clients \ {c} : step'[d] = step[d] /\ job'[d] = job[d]
      BY <1>1, <1>3 DEF LoadFind, LoadRead, Loaded, Goto, StoreTypeOK
    <2> QED
      BY <1>1, <2>1, <2>2, LoadGoesOrphan
  <1> QED
    BY <1>2, <1>3

LEMMA ExpireOrphan ==
  ASSUME StoreInv, OrphanInv, NEW p \in Pulses, Expire(p)
  PROVE  OrphanInv'
  <1> USE DEF StoreInv, OrphanInv
  <1>1. /\ UNCHANGED <<files, made, step, job, used, abandoned>>
        /\ leaky' = leaky \cup {p} /\ doc'[p] = NoDoc
        /\ \A q \in Pulses \ {p} : doc'[q] = doc[q]
    BY DEF Expire, StoreTypeOK
  <1>2. \A q \in Pulses : Writers(q)' = Writers(q)
    BY <1>1 DEF Writers
  <1>3. SoleWriter' /\ UsedOnly' /\ Stages'
    BY <1>1, <1>2 DEF SoleWriter, UsedOnly, Stages
  <1>4. Found' /\ Dropped'
    BY <1>1, <1>2 DEF Found, Dropped, Clean
  <1>5. NoOrphans'
    BY <1>1, <1>2 DEF NoOrphans, StoreTypeOK
  <1> QED
    BY <1>3, <1>4, <1>5

LEMMA OrphanNext ==
  ASSUME StoreInv, OrphanInv, [StoreNext]_storeVars
  PROVE  OrphanInv'
  <1>1. ASSUME NEW c \in Clients, NEW p \in Pulses, NEW x \in Contents,
               Save(c, p, x)
        PROVE  OrphanInv'
    <2>1. /\ p \notin used /\ used' = used \cup {p} /\ used' \subseteq Pulses
          /\ Call(c, "idle", "save", p, x, SaveStep(x))
      BY <1>1 DEF Save, StoreInv, StoreTypeOK
    <2>2. SaveStep(x) \in {"uploading", "replacing"}
      BY DEF SaveStep
    <2> QED
      BY <2>1, <2>2, CallOrphan DEF Kinds, Content
  <1>2. ASSUME NEW c \in Clients, NEW p \in Pulses, NEW x \in Contents,
               Update(c, p, x)
        PROVE  OrphanInv'
    <2>1. /\ p \in used /\ used' = used /\ used' \subseteq Pulses
          /\ Call(c, "rotating", "update", p, x, "finding")
      BY <1>2 DEF Update, Call, StoreInv, StoreTypeOK, OrphanInv, UsedOnly
    <2> QED
      BY <2>1, CallOrphan DEF Kinds, Content
  <1>3. ASSUME NEW c \in Clients, NEW p \in Pulses, Delete(c, p) \/ Load(c, p)
        PROVE  OrphanInv'
    <2>1. /\ used' = used /\ used' \subseteq Pulses /\ NoContent \in Content
          /\ \/ Call(c, "idle", "delete", p, NoContent, "finding")
             \/ Call(c, "idle", "load", p, NoContent, "finding")
      BY <1>3 DEF Delete, Load, StoreInv, StoreTypeOK, Content
    <2> QED
      BY <2>1, CallOrphan DEF Kinds
  <1>4. ASSUME NEW c \in Clients,
               \/ Find(c) \/ Drop(c) \/ DropFails(c) \/ Upload(c) \/ Replace(c)
               \/ Erase(c) \/ LoadFind(c) \/ LoadRead(c) \/ Abandon(c)
        PROVE  OrphanInv'
    BY <1>4, FindOrphan, DropOrphan, DropFailsOrphan, UploadOrphan,
       CommandOrphan, LoadOrphan
  <1>5. ASSUME NEW p \in Pulses, Expire(p) PROVE OrphanInv'
    BY <1>5, ExpireOrphan
  <1>6. CASE UNCHANGED storeVars
    BY <1>6 DEF storeVars, OrphanInv, SoleWriter, UsedOnly, Stages, Found,
       Dropped, NoOrphans, Clean, Writers
  <1> QED
    BY <1>1, <1>2, <1>3, <1>4, <1>5, <1>6 DEF StoreNext

-----------------------------------------------------------------------------
THEOREM InvAlways == StoreSpec => []StoreInv
  <1> QED
    BY InitInv, NextInv, PTL DEF StoreSpec

\* However the commands of save, load, update, delete and the TTL job of
\* core/db.py mix, the state stays in its type.
THEOREM StoreTypeCorrect == StoreSpec => []StoreTypeOK
  <1>1. StoreInv => StoreTypeOK
    BY DEF StoreInv
  <1> QED
    BY <1>1, InvAlways, PTL

\* A document of pulse_meta, and a load that has read one, is never paired with
\* the file of another pulse or of another version of the pulse.
THEOREM BlobAlwaysMatchesMeta == StoreSpec => []BlobMatchesMeta
  <1>1. StoreInv => BlobMatchesMeta
    BY DEF StoreInv
  <1> QED
    BY <1>1, InvAlways, PTL

\* A document names a file that is gone only while an update or a delete of its
\* pulse is between its deletion of a file and its last command, or after a
\* writer of that pulse was abandoned.
THEOREM BrokenAlwaysInWork == StoreSpec => []BrokenOnlyInWork
  <1>1. StoreInv => BrokenOnlyInWork
    BY DEF StoreInv
  <1> QED
    BY <1>1, InvAlways, PTL

\* A GridFS file is named by the document of its pulse or is in the hands of a
\* writer (db.py's save, update and delete), unless the pulse expired, had
\* overlapping writers, an abandoned one, or a deletion of a file that failed.
THEOREM OrphansAlwaysNamed == StoreSpec => []NoOrphans
  <1>1. StoreInv /\ OrphanInv /\ [StoreNext]_storeVars => OrphanInv'
    BY OrphanNext
  <1>2. OrphanInv => NoOrphans
    BY DEF OrphanInv
  <1> QED
    BY OrphanInit, <1>1, <1>2, InvAlways, PTL DEF StoreSpec

-----------------------------------------------------------------------------
(* The methods of a bucket, as the lists of requests they still have to    *)
(* make.                                                                   *)

WriteBoth == <<"putBlob", "putMeta">>
WriteMeta == <<"putMeta">>
ReadBoth  == <<"getBlob", "getMeta">>
ReadMeta  == <<"getMeta">>
ReadWrite == <<"getBlob", "getMeta", "putBlob", "putMeta">>
MetaWrite == <<"getMeta", "putBlob", "putMeta">>
CheckDrop == <<"headBlob", "dropBlob", "dropMeta">>
DropBoth  == <<"dropBlob", "dropMeta">>
DropLast  == <<"dropMeta">>

Orders == {"putBlob", "putMeta", "getBlob", "getMeta"}

\* The first point of a method.
Beginning(srv, kind) ==
  CASE kind = "save"   -> WriteBoth
    [] kind = "load"   -> ReadBoth
    [] kind = "rotate" -> ReadWrite
    [] OTHER           -> IF srv = "s3" THEN CheckDrop ELSE DropBoth

\* A method begins with its whole list.
LEMMA Methods ==
  ASSUME NEW kind \in {"save", "load", "rotate", "delete"}
  PROVE  Method(kind) = Beginning(service, kind)
<1>1. ReadBoth \o WriteBoth = ReadWrite
  <2>1. /\ ReadBoth \in Seq(Orders) /\ Len(ReadBoth) = 2
        /\ ReadBoth[1] = "getBlob" /\ ReadBoth[2] = "getMeta"
    BY DEF ReadBoth, Orders
  <2>2. /\ WriteBoth \in Seq(Orders) /\ Len(WriteBoth) = 2
        /\ WriteBoth[1] = "putBlob" /\ WriteBoth[2] = "putMeta"
    BY DEF WriteBoth, Orders
  <2>3. /\ ReadWrite \in Seq(Orders) /\ Len(ReadWrite) = 4
        /\ ReadWrite[1] = "getBlob" /\ ReadWrite[2] = "getMeta"
        /\ ReadWrite[3] = "putBlob" /\ ReadWrite[4] = "putMeta"
    BY DEF ReadWrite, Orders
  <2>4. /\ ReadBoth \o WriteBoth \in Seq(Orders)
        /\ Len(ReadBoth \o WriteBoth) = 4
        /\ \A i \in 1..4 : (ReadBoth \o WriteBoth)[i] =
             IF i <= 2 THEN ReadBoth[i] ELSE WriteBoth[i - 2]
    <3>1. /\ ReadBoth \o WriteBoth \in Seq(Orders)
          /\ Len(ReadBoth \o WriteBoth) = Len(ReadBoth) + Len(WriteBoth)
          /\ \A i \in 1..Len(ReadBoth) + Len(WriteBoth) :
               (ReadBoth \o WriteBoth)[i] =
                 IF i <= Len(ReadBoth) THEN ReadBoth[i]
                                       ELSE WriteBoth[i - Len(ReadBoth)]
      BY <2>1, <2>2, ConcatProperties, Zenon
    <3> QED
      BY <2>1, <2>2, <3>1
  <2>5. \A i \in 1..4 : (ReadBoth \o WriteBoth)[i] = ReadWrite[i]
    BY <2>1, <2>2, <2>3, <2>4
  <2> QED
    BY <2>3, <2>4, <2>5, SeqEqual
<1>2. /\ S3Save = WriteBoth /\ S3Load = ReadBoth /\ S3Update = WriteBoth
      /\ S3Delete = CheckDrop
      /\ GcsSave = WriteBoth /\ GcsLoad = ReadBoth /\ GcsUpdate = WriteBoth
      /\ GcsDelete = DropBoth
  BY DEF S3Save, S3Load, S3Update, S3Delete, GcsSave, GcsLoad, GcsUpdate,
         GcsDelete, WriteBoth, ReadBoth, CheckDrop, DropBoth
<1> QED
  <2>1. /\ Method("save") = WriteBoth /\ Method("load") = ReadBoth
        /\ Method("rotate") = ReadWrite
        /\ Method("delete") = IF service = "s3" THEN CheckDrop ELSE DropBoth
    BY <1>1, <1>2 DEF Method
  <2> QED
    BY <2>1 DEF Beginning

\* The next request of each list and what it leaves.
LEMMA Heads ==
  /\ Head(WriteBoth) = "putBlob" /\ Tail(WriteBoth) = WriteMeta
  /\ Head(WriteMeta) = "putMeta" /\ Tail(WriteMeta) = <<>>
  /\ Head(ReadBoth) = "getBlob" /\ Tail(ReadBoth) = ReadMeta
  /\ Head(ReadMeta) = "getMeta" /\ Tail(ReadMeta) = <<>>
  /\ Head(ReadWrite) = "getBlob" /\ Tail(ReadWrite) = MetaWrite
  /\ Head(MetaWrite) = "getMeta" /\ Tail(MetaWrite) = WriteBoth
  /\ Head(CheckDrop) = "headBlob" /\ Tail(CheckDrop) = DropBoth
  /\ Head(DropBoth) = "dropBlob" /\ Tail(DropBoth) = DropLast
  /\ Head(DropLast) = "dropMeta" /\ Tail(DropLast) = <<>>
BY DEF WriteBoth, WriteMeta, ReadBoth, ReadMeta, ReadWrite, MetaWrite, CheckDrop,
  DropBoth, DropLast

\* No two of them are the same.
LEMMA Apart ==
  /\ WriteBoth \notin {<<>>, WriteMeta, ReadBoth, ReadMeta, ReadWrite,
                       MetaWrite, CheckDrop, DropBoth, DropLast}
  /\ WriteMeta \notin {<<>>, ReadBoth, ReadMeta, ReadWrite, MetaWrite,
                       CheckDrop, DropBoth, DropLast}
  /\ ReadBoth \notin {<<>>, ReadMeta, ReadWrite, MetaWrite, CheckDrop,
                      DropBoth, DropLast}
  /\ ReadMeta \notin {<<>>, ReadWrite, MetaWrite, CheckDrop, DropBoth,
                      DropLast}
  /\ ReadWrite \notin {<<>>, MetaWrite, CheckDrop, DropBoth, DropLast}
  /\ MetaWrite \notin {<<>>, CheckDrop, DropBoth, DropLast}
  /\ CheckDrop \notin {<<>>, DropBoth, DropLast}
  /\ DropBoth \notin {<<>>, DropLast}
  /\ DropLast \notin {<<>>}
<1>1. /\ ReadBoth # ReadWrite /\ ReadMeta # MetaWrite
      /\ \A n \in {WriteBoth, WriteMeta, ReadBoth, ReadMeta, ReadWrite,
               MetaWrite, CheckDrop, DropBoth, DropLast} : n # <<>>
  BY DEF WriteBoth, WriteMeta, ReadBoth, ReadMeta, ReadWrite, MetaWrite,
         CheckDrop, DropBoth, DropLast
<1> QED
  BY <1>1, Heads

-----------------------------------------------------------------------------
(* The invariant of a bucket.                                              *)

\* What is left of a method that has begun.
LeftOf(kind) ==
  CASE kind = "save"   -> {WriteBoth, WriteMeta}
    [] kind = "load"   -> {ReadBoth, ReadMeta}
    [] kind = "rotate" -> {ReadWrite, MetaWrite, WriteBoth, WriteMeta}
    [] kind = "delete" -> {CheckDrop, DropBoth, DropLast}
    [] OTHER           -> {}

Lists == {WriteBoth, WriteMeta, ReadBoth, ReadMeta, ReadWrite, MetaWrite,
          CheckDrop, DropBoth, DropLast}

Calls == [kind : {"none", "save", "load", "rotate", "delete"},
          pulse : Pulses \cup {NoPulse}, new : Content, blob : Content,
          meta : Content, met : BOOLEAN]

CloudTypeOK ==
  /\ service \in {"s3", "gcs"}
  /\ blobs \in [Pulses -> Content] /\ metas \in [Pulses -> Content]
  /\ named \subseteq Pulses /\ torn \subseteq Pulses
  /\ todo \in [Clients -> Lists \cup {<<>>}] /\ call \in [Clients -> Calls]

\* A call at a point of its method, and what it has in its hands there.
UnderWay(left, k, known) ==
  /\ left # <<>> => left \in LeftOf(k.kind) /\ k.pulse \in known
  /\ left # <<>> /\ k.kind \in {"save", "rotate"} => k.new \in Contents
  /\ left \in {ReadBoth, ReadMeta, ReadWrite, MetaWrite} => k.meta = NoContent
  /\ left = <<>> => k.kind \in {"none", "load"}
  /\ k.kind # "load" /\ k.meta # NoContent => k.blob = k.meta

CallsOK == \A c \in Clients : UnderWay(todo[c], call[c], named)

\* No objects before the id was given out.
Unnamed == \A p \in Pulses \ named : blobs[p] = NoContent /\ metas[p] = NoContent

SoleCloudWriter ==
  \A p \in Pulses \ torn : \A c, d \in CloudWriters(p) : c = d

\* Where c is in its method, the two objects of p belong together, or the blob
\* is one request ahead of the metadata.
AtHand(c, p) ==
  IF todo[c] = WriteMeta THEN blobs[p] = call[c].new
  ELSE IF todo[c] = DropLast THEN blobs[p] = NoContent
  ELSE blobs[p] = metas[p]

Whole ==
  \A p \in Pulses \ torn :
    /\ CloudWriters(p) = {} => blobs[p] = metas[p]
    /\ \A c \in CloudWriters(p) : AtHand(c, p)

\* A load that met nobody is alone, and what it has read is still there; one
\* that has returned has a pair.
Unmet ==
  \A c \in Clients :
    LET p == call[c].pulse
    IN  call[c].kind = "load" /\ ~call[c].met /\ p \notin torn =>
          /\ todo[c] # <<>> => CloudWriters(p) = {}
          /\ todo[c] = ReadMeta => call[c].blob = blobs[p]
          /\ call[c].meta # NoContent => call[c].blob = call[c].meta

\* Outside dropped the blob is there before the metadata are.
BlobFirst ==
  \A p \in Pulses \ dropped :
    /\ metas[p] # NoContent => blobs[p] # NoContent
    /\ \A c \in Clients :
         todo[c] = WriteMeta /\ call[c].pulse = p => blobs[p] # NoContent

CloudInv ==
  /\ CloudTypeOK /\ CallsOK /\ Unnamed /\ SoleCloudWriter /\ Whole /\ Unmet
  /\ BlobFirst

-----------------------------------------------------------------------------
(* The requests.  What every one of them does, whichever it is: client c   *)
(* takes its method to the next point or ends it, at pulse p.              *)

Moves(c, p) ==
  /\ todo[c] # <<>> /\ p = call[c].pulse
  /\ \A d \in Clients \ {c} : todo'[d] = todo[d] /\ call'[d] = call[d]
  /\ call'[c].kind # "none" =>
       /\ call'[c].kind = call[c].kind /\ call'[c].pulse = p
       /\ call'[c].met = call[c].met
  /\ \A q \in Pulses \ {p} : blobs'[q] = blobs[q] /\ metas'[q] = metas[q]
  /\ UNCHANGED <<service, named>> /\ torn \subseteq torn'
  /\ dropped \subseteq dropped'
  /\ CloudTypeOK' /\ UnderWay(todo'[c], call'[c], named)

\* The objects of p, for a writer that is alone.
Writes(c, p) ==
  /\ call[c].kind # "load" /\ p \notin torn' /\ AtHand(c, p) => AtHand(c, p)'
  /\ call[c].kind = "save" /\ p \notin torn' /\ todo'[c] = <<>> =>
       metas'[p] = call[c].new

\* What a load reads.
Reads(c, p) ==
  call[c].kind = "load" =>
    /\ UNCHANGED <<blobs, metas>>
    /\ todo'[c] = ReadMeta => call'[c].blob = blobs[p]
    /\ call'[c].meta # NoContent =>
         /\ todo[c] = ReadMeta /\ todo'[c] = <<>>
         /\ call'[c].blob = call[c].blob /\ call'[c].meta = metas[p]

\* Only a delete takes the blob away, and only who has stored it goes on to the
\* metadata.
Adds(c, p) ==
  p \notin dropped' =>
    /\ blobs[p] # NoContent \/ todo'[c] = WriteMeta => blobs'[p] # NoContent
    /\ metas'[p] # NoContent => metas[p] # NoContent \/ todo[c] = WriteMeta

Request(c, p) == Moves(c, p) /\ Writes(c, p) /\ Reads(c, p) /\ Adds(c, p)

\* The point of its method that a client has come to.
LEMMA Place ==
  ASSUME CloudTypeOK, CallsOK, NEW c \in Clients, todo[c] # <<>>
  PROVE  /\ call[c].pulse \in Pulses
         /\ \/ /\ call[c].kind \in {"save", "rotate"} /\ call[c].new \in Contents
               /\ todo[c] \in {WriteBoth, WriteMeta}
            \/ call[c].kind = "load" /\ todo[c] \in {ReadBoth, ReadMeta}
            \/ call[c].kind = "rotate" /\ todo[c] \in {ReadWrite, MetaWrite}
            \/ call[c].kind = "delete" /\ todo[c] \in {CheckDrop, DropBoth, DropLast}
  BY DEF CallsOK, UnderWay, LeftOf, CloudTypeOK

LEMMA Going ==
  ASSUME CloudTypeOK, NEW c \in Clients, NEW rest \in Lists \cup {<<>>},
         NEW now \in Calls, Go(c, rest, now)
  PROVE  /\ todo'[c] = rest
         /\ todo' \in [Clients -> Lists \cup {<<>>}]
         /\ call' \in [Clients -> Calls]
         /\ \A d \in Clients \ {c} : todo'[d] = todo[d] /\ call'[d] = call[d]
         /\ call'[c] = IF rest = <<>> /\ ~(now.kind = "load" /\ now.meta # NoContent)
                         THEN NoCall ELSE now
  <1>1. NoCall \in Calls
    BY DEF NoCall, Calls, Content
  <1> QED
    BY <1>1 DEF Go, CloudTypeOK

\* The requests of a writer that carry no content back.
LEMMA Proceeding ==
  ASSUME CloudTypeOK, CallsOK, NEW c \in Clients, todo[c] # <<>>,
         NEW rest \in {<<>>, WriteMeta, DropBoth, DropLast}, Go(c, rest, call[c]),
         rest # <<>> => rest \in LeftOf(call[c].kind),
         blobs' \in [Pulses -> Content], metas' \in [Pulses -> Content],
         \A q \in Pulses \ {call[c].pulse} : blobs'[q] = blobs[q] /\ metas'[q] = metas[q],
         UNCHANGED <<service, named>>, torn \subseteq torn', torn' \subseteq Pulses,
         dropped \subseteq dropped'
  PROVE  /\ Moves(c, call[c].pulse) /\ todo'[c] = rest
         /\ rest = <<>> => call'[c] = NoCall
         /\ rest # <<>> => call'[c] = call[c]
  <1>1. call[c] \in Calls
    BY DEF CloudTypeOK
  <1>2. call[c].meta = NoContent \/ call[c].kind # "load"
    BY Place DEF CallsOK, UnderWay
  <1>3. /\ todo'[c] = rest /\ call'[c] = IF rest = <<>> THEN NoCall ELSE call[c]
        /\ todo' \in [Clients -> Lists \cup {<<>>}] /\ call' \in [Clients -> Calls]
        /\ \A d \in Clients \ {c} : todo'[d] = todo[d] /\ call'[d] = call[d]
    BY <1>1, <1>2, Going DEF Lists
  <1>4. CloudTypeOK'
    BY <1>3 DEF CloudTypeOK
  <1>5. UnderWay(todo'[c], call'[c], named)
    BY <1>3, Apart DEF CallsOK, UnderWay, NoCall
  <1> QED
    BY <1>3, <1>4, <1>5, Apart DEF Moves, NoCall

LEMMA PutBlobRequest ==
  ASSUME CloudTypeOK, CallsOK, NEW c \in Clients, NEW p \in Pulses,
         p = call[c].pulse, PutBlob(c)
  PROVE  Request(c, p)
  <1>1. /\ todo[c] = WriteBoth /\ call[c].kind \in {"save", "rotate"}
        /\ call[c].new \in Contents
    BY Place, Heads DEF PutBlob, Requests
  <1>2. /\ blobs' = [blobs EXCEPT ![p] = call[c].new] /\ Go(c, WriteMeta, call[c])
        /\ UNCHANGED <<service, metas, named, torn, dropped>>
    BY <1>1, Heads DEF PutBlob, Proceed
  <1>3. /\ Moves(c, p) /\ todo'[c] = WriteMeta /\ call'[c] = call[c]
        /\ blobs'[p] = call[c].new
    BY <1>1, <1>2, Proceeding, Apart DEF CloudTypeOK, Content, Lists, LeftOf
  <1> QED
    BY <1>1, <1>2, <1>3, Apart, ContentsAssumption
       DEF Request, Writes, Reads, Adds, AtHand

LEMMA PutMetaRequest ==
  ASSUME CloudTypeOK, CallsOK, NEW c \in Clients, NEW p \in Pulses,
         p = call[c].pulse, PutMeta(c)
  PROVE  Request(c, p)
  <1>1. /\ todo[c] = WriteMeta /\ call[c].kind \in {"save", "rotate"}
        /\ call[c].new \in Contents
    BY Place, Heads DEF PutMeta, Requests
  <1>2. /\ metas' = [metas EXCEPT ![p] = call[c].new] /\ Go(c, <<>>, call[c])
        /\ UNCHANGED <<service, blobs, named, torn, dropped>>
    BY <1>1, Heads DEF PutMeta, Proceed
  <1>3. Moves(c, p) /\ todo'[c] = <<>> /\ metas'[p] = call[c].new
    BY <1>1, <1>2, Proceeding, Apart DEF CloudTypeOK, Content
  <1> QED
    BY <1>1, <1>2, <1>3, Apart
       DEF Request, Writes, Reads, Adds, AtHand

LEMMA HeadBlobRequest ==
  ASSUME CloudTypeOK, CallsOK, NEW c \in Clients, NEW p \in Pulses,
         p = call[c].pulse, HeadBlob(c)
  PROVE  Request(c, p)
  <1>1. todo[c] = CheckDrop /\ call[c].kind = "delete"
    BY Place, Heads DEF HeadBlob, Requests
  <1>2. PICK rest \in {<<>>, DropBoth} :
          /\ Go(c, rest, call[c]) /\ UNCHANGED <<service, blobs, metas, named, torn, dropped>>
    BY <1>1, Heads DEF HeadBlob, Proceed, ReturnEarly
  <1>3. Moves(c, p) /\ todo'[c] = rest
    BY <1>1, <1>2, Proceeding, Apart DEF CloudTypeOK, Lists, LeftOf
  <1> QED
    BY <1>1, <1>2, <1>3, Apart
       DEF Request, Writes, Reads, Adds, AtHand

LEMMA DropBlobRequest ==
  ASSUME CloudTypeOK, CallsOK, NEW c \in Clients, NEW p \in Pulses,
         p = call[c].pulse, DropBlob(c)
  PROVE  Request(c, p)
  <1>1. todo[c] = DropBoth /\ call[c].kind = "delete"
    BY Place, Heads DEF DropBlob, Requests
  <1>2. PICK rest \in {<<>>, DropLast} :
          /\ Go(c, rest, call[c]) /\ UNCHANGED <<service, metas, named, torn>>
          /\ blobs' = [blobs EXCEPT ![p] = NoContent] /\ dropped' = dropped \cup {p}
          /\ rest = <<>> => blobs[p] = NoContent
    BY <1>1, Heads, Apart DEF DropBlob, Proceed, ReturnEarly
  <1>3. Moves(c, p) /\ todo'[c] = rest /\ blobs'[p] = NoContent
    BY <1>1, <1>2, Proceeding, Apart
       DEF CloudTypeOK, Lists, LeftOf, Content
  <1> QED
    BY <1>1, <1>2, <1>3, Apart
       DEF Request, Writes, Reads, Adds, AtHand

LEMMA DropMetaRequest ==
  ASSUME CloudTypeOK, CallsOK, NEW c \in Clients, NEW p \in Pulses,
         p = call[c].pulse, DropMeta(c)
  PROVE  Request(c, p)
  <1>1. todo[c] = DropLast /\ call[c].kind = "delete"
    BY Place, Heads DEF DropMeta, Requests
  <1>2. /\ metas' = [metas EXCEPT ![p] = NoContent] /\ Go(c, <<>>, call[c])
        /\ UNCHANGED <<service, blobs, named, torn, dropped>>
    BY <1>1, Heads DEF DropMeta, Proceed
  <1>3. Moves(c, p) /\ todo'[c] = <<>> /\ metas'[p] = NoContent
    BY <1>1, <1>2, Proceeding, Apart DEF CloudTypeOK, Content
  <1> QED
    BY <1>1, <1>2, <1>3, Apart
       DEF Request, Writes, Reads, Adds, AtHand

LEMMA AbandonRequest ==
  ASSUME CloudTypeOK, CallsOK, NEW c \in Clients, NEW p \in Pulses,
         p = call[c].pulse, CloudAbandon(c)
  PROVE  Request(c, p)
  <1>1. /\ todo[c] # <<>>
        /\ call[c].kind \in {"save", "load", "rotate", "delete"}
    BY Place DEF CloudAbandon
  <1>2. /\ Go(c, <<>>, call[c]) /\ UNCHANGED <<service, blobs, metas, named, dropped>>
        /\ torn' = IF call[c].kind = "load" THEN torn ELSE torn \cup {p}
    BY DEF CloudAbandon, ReturnEarly
  <1>3. Moves(c, p) /\ todo'[c] = <<>> /\ call'[c] = NoCall
    BY <1>1, <1>2, Proceeding, Apart DEF CloudTypeOK
  <1> QED
    BY <1>1, <1>2, <1>3, Apart DEF Request, Writes, Reads, Adds, NoCall

LEMMA GetBlobRequest ==
  ASSUME CloudTypeOK, CallsOK, NEW c \in Clients, NEW p \in Pulses,
         p = call[c].pulse, GetBlob(c)
  PROVE  Request(c, p)
  <1> DEFINE now == [call[c] EXCEPT !.blob = blobs[p]]
  <1>1. /\ call[c] \in Calls /\ todo[c] # <<>>
        /\ \/ call[c].kind = "load" /\ todo[c] = ReadBoth
           \/ call[c].kind = "rotate" /\ todo[c] = ReadWrite
    BY Place, Heads DEF GetBlob, Requests, CloudTypeOK
  <1>2. PICK rest \in {<<>>, ReadMeta, MetaWrite} :
          /\ Go(c, rest, now) /\ UNCHANGED <<service, blobs, metas, named, torn, dropped>>
          /\ rest # <<>> => rest = IF call[c].kind = "load" THEN ReadMeta ELSE MetaWrite
    BY <1>1, Heads DEF GetBlob
  <1>3. /\ now \in Calls /\ now.kind = call[c].kind /\ now.pulse = p
        /\ now.new = call[c].new /\ now.met = call[c].met /\ now.blob = blobs[p]
        /\ now.meta = NoContent
    BY <1>1 DEF Calls, CloudTypeOK, CallsOK, UnderWay
  <1> HIDE DEF now
  <1>4. /\ todo'[c] = rest /\ call'[c] = IF rest = <<>> THEN NoCall ELSE now
        /\ \A d \in Clients \ {c} : todo'[d] = todo[d] /\ call'[d] = call[d]
        /\ todo' \in [Clients -> Lists \cup {<<>>}] /\ call' \in [Clients -> Calls]
    BY <1>2, <1>3, Going DEF Lists
  <1>5. UnderWay(rest, call'[c], named)
    <2>1. CASE rest = <<>>
      BY <1>4, <2>1, Apart DEF UnderWay, NoCall
    <2>2. CASE rest # <<>>
      <3>1. rest \in LeftOf(now.kind)
        BY <1>1, <1>2, <1>3, <2>2 DEF LeftOf
      <3>2. p \in named /\ (now.kind = "rotate" => now.new \in Contents)
        BY <1>1, <1>3 DEF CallsOK, UnderWay
      <3> QED
        BY <1>1, <1>3, <1>4, <2>2, <3>1, <3>2 DEF UnderWay
    <2> QED
      BY <2>1, <2>2
  <1>6. Moves(c, p)
    <2>1. CloudTypeOK'
      BY <1>2, <1>4 DEF CloudTypeOK
    <2> QED
      BY <1>1, <1>2, <1>3, <1>4, <1>5, <2>1, Apart DEF Moves, NoCall
  <1>7. Writes(c, p)
    BY <1>1, <1>2, <1>4, Apart DEF Writes, AtHand
  <1>8. Reads(c, p)
    BY <1>2, <1>3, <1>4, Apart DEF Reads, NoCall
  <1>9. Adds(c, p)
    BY <1>2, <1>4, Apart DEF Adds
  <1> QED
    BY <1>6, <1>7, <1>8, <1>9 DEF Request

LEMMA GetMetaRequest ==
  ASSUME CloudTypeOK, CallsOK, NEW c \in Clients, NEW p \in Pulses,
         p = call[c].pulse, GetMeta(c)
  PROVE  Request(c, p)
  <1> DEFINE now == [call[c] EXCEPT !.meta = metas[p]]
             gone == ~(now.kind = "load" /\ now.meta # NoContent)
  <1>1. /\ call[c] \in Calls /\ todo[c] # <<>>
        /\ \/ call[c].kind = "load" /\ todo[c] = ReadMeta
           \/ call[c].kind = "rotate" /\ todo[c] = MetaWrite
    BY Place, Heads DEF GetMeta, Requests, CloudTypeOK
  <1>2. PICK rest \in {<<>>, WriteBoth} :
          /\ Go(c, rest, now) /\ UNCHANGED <<service, blobs, metas, named, torn, dropped>>
          /\ rest # <<>> => call[c].kind = "rotate" /\ metas[p] = call[c].blob
    BY <1>1, Heads DEF GetMeta
  <1>3. /\ now \in Calls /\ now.kind = call[c].kind /\ now.pulse = p
        /\ now.new = call[c].new /\ now.met = call[c].met
        /\ now.blob = call[c].blob /\ now.meta = metas[p]
    BY <1>1 DEF Calls, CloudTypeOK
  <1> HIDE DEF now
  <1>4. /\ todo'[c] = rest /\ call'[c] = IF rest = <<>> /\ gone THEN NoCall ELSE now
        /\ call'[c] \in {NoCall, now}
        /\ \A d \in Clients \ {c} : todo'[d] = todo[d] /\ call'[d] = call[d]
        /\ todo' \in [Clients -> Lists \cup {<<>>}] /\ call' \in [Clients -> Calls]
    BY <1>2, <1>3, Going DEF Lists
  <1>5. UnderWay(rest, call'[c], named)
    <2>1. CASE rest = <<>>
      BY <1>3, <1>4, <2>1, Apart DEF UnderWay, NoCall
    <2>2. CASE rest # <<>>
      <3>1. rest \in LeftOf(now.kind)
        BY <1>1, <1>2, <1>3, <2>2 DEF LeftOf
      <3>2. p \in named /\ now.new \in Contents
        BY <1>1, <1>2, <1>3, <2>2 DEF CallsOK, UnderWay
      <3> QED
        BY <1>2, <1>3, <1>4, <2>2, <3>1, <3>2, Apart DEF UnderWay
    <2> QED
      BY <2>1, <2>2
  <1>6. Moves(c, p)
    <2>1. CloudTypeOK'
      BY <1>2, <1>4 DEF CloudTypeOK
    <2>2. call'[c].kind # "none" =>
            /\ call'[c].kind = call[c].kind /\ call'[c].pulse = p
            /\ call'[c].met = call[c].met
      <3>1. CASE call'[c] = NoCall
        BY <3>1 DEF NoCall
      <3>2. CASE call'[c] = now
        BY <1>3, <3>2
      <3> QED
        BY <1>4, <3>1, <3>2
    <2> HIDE DEF gone
    <2>3. UnderWay(todo'[c], call'[c], named)
      BY <1>4, <1>5
    <2> QED
      BY <1>1, <1>2, <1>4, <2>1, <2>2, <2>3 DEF Moves
  <1>7. Writes(c, p)
    BY <1>1, <1>2, <1>4, Apart DEF Writes, AtHand
  <1>8. Reads(c, p)
    BY <1>1, <1>2, <1>3, <1>4, Apart DEF Reads, NoCall
  <1>9. Adds(c, p)
    BY <1>2, <1>4, Apart DEF Adds
  <1> QED
    BY <1>6, <1>7, <1>8, <1>9 DEF Request

LEMMA AnyRequest ==
  ASSUME CloudTypeOK, CallsOK, NEW c \in Clients,
         \/ PutBlob(c) \/ PutMeta(c) \/ HeadBlob(c) \/ DropBlob(c) \/ DropMeta(c)
         \/ GetBlob(c) \/ GetMeta(c) \/ CloudAbandon(c)
  PROVE  \E p \in Pulses : Request(c, p)
  <1>1. PICK p \in Pulses : p = call[c].pulse
    BY Place DEF PutBlob, PutMeta, HeadBlob, DropBlob, DropMeta, GetBlob, GetMeta,
                 CloudAbandon, Requests
  <1> QED
    BY <1>1, PutBlobRequest, PutMetaRequest, HeadBlobRequest, DropBlobRequest,
       DropMetaRequest, GetBlobRequest, GetMetaRequest, AbandonRequest

-----------------------------------------------------------------------------
(* A request keeps the invariant.                                          *)

LEMMA RequestFrame ==
  ASSUME CloudInv, NEW c \in Clients, NEW p \in Pulses, Request(c, p)
  PROVE  /\ p = call[c].pulse /\ p \in named /\ c \in Working(p)
         /\ CloudTypeOK' /\ CallsOK'
         /\ todo'[c] # <<>> => call'[c].kind = call[c].kind /\ call'[c].pulse = p
         /\ \A q \in Pulses : /\ Working(q)' \subseteq Working(q)
                              /\ CloudWriters(q)' \subseteq CloudWriters(q)
                              /\ CloudWriters(q) \ {c} \subseteq CloudWriters(q)'
         /\ \A q \in Pulses \ {p} : c \notin Working(q) /\ c \notin CloudWriters(q)
  <1> USE DEF CloudInv, Request
  <1>1. /\ todo[c] # <<>> /\ p = call[c].pulse /\ p \in named
    BY DEF Moves, CallsOK, UnderWay
  <1>2. CloudTypeOK' /\ CallsOK'
    BY DEF Moves, CallsOK
  <1>3. todo'[c] # <<>> => call'[c].kind = call[c].kind /\ call'[c].pulse = p
    <2>1. todo'[c] # <<>> => call'[c].kind # "none"
      BY DEF Moves, UnderWay, LeftOf
    <2> QED
      BY <2>1 DEF Moves
  <1>4. ASSUME NEW q \in Pulses
        PROVE  /\ Working(q)' \subseteq Working(q)
               /\ CloudWriters(q)' \subseteq CloudWriters(q)
               /\ CloudWriters(q) \ {c} \subseteq CloudWriters(q)'
    BY <1>1, <1>3 DEF Moves, Working, CloudWriters
  <1>5. \A q \in Pulses \ {p} : c \notin Working(q) /\ c \notin CloudWriters(q)
    BY <1>1 DEF Working, CloudWriters
  <1>6. c \in Working(p)
    BY <1>1 DEF Working
  <1> QED
    BY <1>1, <1>2, <1>3, <1>4, <1>5, <1>6

LEMMA RequestWhole ==
  ASSUME CloudInv, NEW c \in Clients, NEW p \in Pulses, Request(c, p)
  PROVE  SoleCloudWriter' /\ Whole'
  <1> USE DEF CloudInv, Request
  <1>1. SoleCloudWriter'
    BY RequestFrame DEF SoleCloudWriter, Moves
  <1>2. ASSUME NEW q \in Pulses, q \notin torn', NEW d \in Clients \ {c},
               blobs'[q] = blobs[q], metas'[q] = metas[q]
        PROVE  AtHand(d, q)' = AtHand(d, q)
    BY <1>2 DEF AtHand, Moves
  <1>3. ASSUME NEW q \in Pulses, q \notin torn'
        PROVE  /\ CloudWriters(q)' = {} => blobs'[q] = metas'[q]
               /\ \A d \in CloudWriters(q)' : AtHand(d, q)'
    <2>1. q \notin torn
      BY <1>3 DEF Moves
    <2>2. CASE c \notin CloudWriters(q)
      <3>1. blobs'[q] = blobs[q] /\ metas'[q] = metas[q]
        <4>1. CASE q # p
          BY <4>1 DEF Moves
        <4>2. CASE q = p
          <5>1. call[c].kind = "load"
            BY <2>2, <4>2, RequestFrame DEF CloudWriters
          <5> QED
            BY <5>1 DEF Reads
        <4> QED
          BY <4>1, <4>2
      <3>2. CloudWriters(q)' = CloudWriters(q)
        <4>1. CloudWriters(q) \ {c} = CloudWriters(q)
          BY <2>2
        <4> QED
          BY <4>1, RequestFrame
      <3>3. \A d \in CloudWriters(q) : d \in Clients \ {c}
        BY <2>2 DEF CloudWriters, Working
      <3> QED
        BY <1>2, <1>3, <2>1, <3>1, <3>2, <3>3 DEF Whole
    <2>3. CASE c \in CloudWriters(q)
      <3>1. q = p /\ call[c].kind # "load" /\ CloudWriters(q) = {c}
        BY <2>1, <2>3, RequestFrame DEF CloudWriters, SoleCloudWriter
      <3>2. AtHand(c, q)'
        BY <1>3, <2>1, <2>3, <3>1 DEF Whole, Writes
      <3>3. CloudWriters(q)' = {} => todo'[c] = <<>>
        BY <3>1, RequestFrame DEF CloudWriters, Working
      <3>4. todo'[c] = <<>> => blobs'[q] = metas'[q]
        BY <3>2, Apart DEF AtHand
      <3>5. CloudWriters(q)' \subseteq {c}
        BY <3>1, RequestFrame
      <3> QED
        BY <3>2, <3>3, <3>4, <3>5
    <2> QED
      BY <2>2, <2>3
  <1> QED
    BY <1>1, <1>3 DEF Whole

LEMMA RequestUnmet ==
  ASSUME CloudInv, NEW c \in Clients, NEW p \in Pulses, Request(c, p)
  PROVE  Unmet'
  <1> USE DEF CloudInv, Request
  <1> SUFFICES ASSUME NEW d \in Clients, NEW q, q = call'[d].pulse,
                      call'[d].kind = "load", ~call'[d].met, q \notin torn'
               PROVE  /\ todo'[d] # <<>> => CloudWriters(q)' = {}
                      /\ todo'[d] = ReadMeta => call'[d].blob = blobs'[q]
                      /\ call'[d].meta # NoContent => call'[d].blob = call'[d].meta
    BY DEF Unmet
  <1>1. q \notin torn
    BY DEF Moves
  <1>2. CASE d = c
    <2>1. /\ q = p /\ p = call[c].pulse /\ todo[c] # <<>>
          /\ call[c].kind = "load" /\ ~call[c].met
      BY <1>2 DEF Moves
    <2>2. CloudWriters(p) = {} /\ CloudWriters(p)' = {}
      <3>1. CloudWriters(p) = {}
        BY <1>1, <2>1 DEF Unmet
      <3> QED
        BY <3>1, RequestFrame
    <2>3. blobs[p] = metas[p]
      BY <1>1, <2>1, <2>2 DEF Whole
    <2>4. todo[c] = ReadMeta => call[c].blob = blobs[p]
      BY <1>1, <2>1 DEF Unmet, Moves
    <2> QED
      BY <1>2, <2>1, <2>2, <2>3, <2>4 DEF Reads
  <1>3. CASE d # c
    <2>1. /\ call'[d] = call[d] /\ todo'[d] = todo[d]
      BY <1>3 DEF Moves
    <2>2. CASE todo[d] = <<>>
      BY <1>1, <2>1, <2>2, Apart DEF Unmet
    <2>3. CASE todo[d] # <<>>
      <3>1. q \in Pulses /\ CloudWriters(q) = {}
        BY <1>1, <2>1, <2>3, Place DEF Unmet
      <3>2. blobs'[q] = blobs[q]
        <4>1. CASE q # p
          BY <3>1, <4>1 DEF Moves
        <4>2. CASE q = p
          <5>1. call[c].kind = "load"
            BY <3>1, <4>2, RequestFrame DEF CloudWriters
          <5> QED
            BY <5>1 DEF Reads
        <4> QED
          BY <4>1, <4>2
      <3>3. CloudWriters(q)' = {}
        BY <3>1, RequestFrame
      <3> QED
        BY <1>1, <2>1, <3>2, <3>3 DEF Unmet
    <2> QED
      BY <2>2, <2>3
  <1> QED
    BY <1>2, <1>3

LEMMA RequestInv ==
  ASSUME CloudInv, NEW c \in Clients, NEW p \in Pulses, Request(c, p)
  PROVE  CloudInv'
  <1> USE DEF CloudInv, Request
  <1>1. CloudTypeOK' /\ CallsOK'
    BY RequestFrame
  <1>2. Unnamed'
    BY RequestFrame DEF Moves, Unnamed
  <1>3. BlobFirst'
    <2> SUFFICES ASSUME NEW q \in Pulses, q \notin dropped'
                 PROVE  /\ metas'[q] # NoContent => blobs'[q] # NoContent
                        /\ \A d \in Clients :
                             todo'[d] = WriteMeta /\ call'[d].pulse = q =>
                               blobs'[q] # NoContent
      BY DEF BlobFirst
    <2>1. /\ q \notin dropped
          /\ metas[q] # NoContent => blobs[q] # NoContent
          /\ \A d \in Clients :
               todo[d] = WriteMeta /\ call[d].pulse = q => blobs[q] # NoContent
      BY DEF Moves, BlobFirst
    <2>2. CASE q # p
      <3>1. /\ blobs'[q] = blobs[q] /\ metas'[q] = metas[q]
            /\ \A d \in Clients \ {c} : todo'[d] = todo[d] /\ call'[d] = call[d]
        BY <2>2 DEF Moves
      <3>2. ~(todo'[c] = WriteMeta /\ call'[c].pulse = q)
        BY <2>2, RequestFrame, Apart
      <3> QED
        BY <2>1, <3>1, <3>2
    <2>3. CASE q = p
      <3>1. /\ blobs[q] # NoContent \/ todo'[c] = WriteMeta => blobs'[q] # NoContent
            /\ metas'[q] # NoContent => metas[q] # NoContent \/ todo[c] = WriteMeta
            /\ \A d \in Clients \ {c} : todo'[d] = todo[d] /\ call'[d] = call[d]
            /\ call[c].pulse = q
        BY <2>3 DEF Moves, Adds
      <3> QED
        BY <2>1, <3>1
    <2> QED
      BY <2>2, <2>3
  <1> QED
    BY <1>1, <1>2, <1>3, RequestWhole, RequestUnmet

-----------------------------------------------------------------------------
(* A call keeps the invariant.                                             *)

\* What a call changes.
Enters(c, kind, p, x) ==
  /\ todo[c] = <<>> /\ todo'[c] = Beginning(service, kind)
  /\ \A d \in Clients \ {c} : todo'[d] = todo[d]
  /\ call'[c].kind = kind /\ call'[c].pulse = p /\ call'[c].new = x
  /\ call'[c].blob = NoContent /\ call'[c].meta = NoContent
  /\ call'[c].met <=> CloudWriters(p) # {}
  /\ \A d \in Clients \ {c} :
       /\ call'[d].kind = call[d].kind /\ call'[d].pulse = call[d].pulse
       /\ call'[d].new = call[d].new /\ call'[d].blob = call[d].blob
       /\ call'[d].meta = call[d].meta
       /\ call'[d].met <=> call[d].met \/ (kind # "load" /\ d \in Working(p))
  /\ torn \subseteq torn' /\ UNCHANGED <<service, blobs, metas, dropped>>
  /\ kind # "load" /\ CloudWriters(p) # {} => p \in torn'

LEMMA BeginningTyped ==
  ASSUME NEW kind \in {"save", "load", "rotate", "delete"}
  PROVE  /\ Beginning(service, kind) \in Lists \cap LeftOf(kind)
         /\ Beginning(service, kind) # <<>>
         /\ Beginning(service, kind) \notin {ReadMeta, WriteMeta, DropLast}
         /\ Beginning(service, kind) = WriteBoth => kind = "save"
  <1>1. CASE kind = "save"
    BY <1>1, Apart DEF Beginning, Lists, LeftOf
  <1>2. CASE kind = "load"
    BY <1>2, Apart DEF Beginning, Lists, LeftOf
  <1>3. CASE kind = "rotate"
    BY <1>3, Apart DEF Beginning, Lists, LeftOf
  <1>4. CASE kind = "delete"
    BY <1>4, Apart DEF Beginning, Lists, LeftOf
  <1> QED
    BY <1>1, <1>2, <1>3, <1>4

LEMMA EnterFrame ==
  ASSUME CloudInv, NEW c \in Clients, NEW p \in Pulses, NEW x \in Content,
         NEW kind \in {"save", "load", "rotate", "delete"},
         Enter(c, kind, p, x), named \subseteq named', named' \subseteq Pulses
  PROVE  Enters(c, kind, p, x) /\ CloudTypeOK'
  <1> USE DEF CloudInv
  <1> DEFINE k == [NoCall EXCEPT !.kind = kind, !.pulse = p, !.new = x,
                                 !.met = CloudWriters(p) # {}]
  <1>1. PICK m \in BOOLEAN : m <=> CloudWriters(p) # {}
    OBVIOUS
  <1>2. /\ k \in Calls
        /\ k.kind = kind /\ k.pulse = p /\ k.new = x /\ k.blob = NoContent
        /\ k.meta = NoContent /\ (k.met <=> CloudWriters(p) # {})
    BY DEF NoCall, Calls, Content
  <1>3. /\ todo[c] = <<>> /\ todo'[c] = Beginning(service, kind)
        /\ \A d \in Clients \ {c} : todo'[d] = todo[d]
        /\ todo' \in [Clients -> Lists \cup {<<>>}]
    BY Methods, BeginningTyped DEF Enter, CloudTypeOK
  <1>4. /\ call' = [d \in Clients |->
                      IF d = c THEN k
                      ELSE IF kind # "load" /\ d \in Working(p)
                        THEN [call[d] EXCEPT !.met = TRUE] ELSE call[d]]
        /\ torn' = IF kind # "load" /\ CloudWriters(p) # {} THEN torn \cup {p} ELSE torn
        /\ UNCHANGED <<service, blobs, metas, dropped>>
    BY DEF Enter
  <1> HIDE DEF k
  <1>5. ASSUME NEW d \in Clients \ {c}
        PROVE  /\ call'[d] \in Calls
               /\ call'[d].kind = call[d].kind /\ call'[d].pulse = call[d].pulse
               /\ call'[d].new = call[d].new /\ call'[d].blob = call[d].blob
               /\ call'[d].meta = call[d].meta
               /\ call'[d].met <=> call[d].met \/ (kind # "load" /\ d \in Working(p))
    <2>1. call[d] \in Calls
      BY DEF CloudTypeOK
    <2>2. CASE kind # "load" /\ d \in Working(p)
      <3>1. call'[d] = [call[d] EXCEPT !.met = TRUE]
        BY <1>4, <2>2
      <3>2. /\ call'[d] \in Calls /\ call'[d].met = TRUE
            /\ call'[d].kind = call[d].kind /\ call'[d].pulse = call[d].pulse
            /\ call'[d].new = call[d].new /\ call'[d].blob = call[d].blob
            /\ call'[d].meta = call[d].meta
        BY <2>1, <3>1 DEF Calls
      <3> QED
        BY <2>2, <3>2
    <2>3. CASE ~(kind # "load" /\ d \in Working(p))
      <3>1. call'[d] = call[d]
        BY <1>4, <2>3
      <3>2. call[d].met \in BOOLEAN
        BY <2>1 DEF Calls
      <3>3. call'[d].met <=> call[d].met \/ (kind # "load" /\ d \in Working(p))
        BY <2>3, <3>1, <3>2
      <3> QED
        BY <2>1, <3>1, <3>3, Zenon
    <2> QED
      BY <2>2, <2>3
  <1>6. call'[c] = k /\ call' \in [Clients -> Calls]
    <2>1. \A d \in Clients : call'[d] \in Calls
      BY <1>2, <1>4, <1>5
    <2> QED
      BY <1>4, <2>1
  <1>7. CloudTypeOK'
    BY <1>3, <1>4, <1>6 DEF CloudTypeOK
  <1> QED
    BY <1>2, <1>3, <1>4, <1>5, <1>6, <1>7 DEF Enters

LEMMA EnterInv ==
  ASSUME CloudInv, NEW c \in Clients, NEW p \in Pulses, NEW x \in Content,
         NEW kind \in {"save", "load", "rotate", "delete"},
         Enter(c, kind, p, x), kind \in {"save", "rotate"} => x \in Contents,
         named \subseteq named', named' \subseteq Pulses, p \in named',
         kind = "save" => p \notin named
  PROVE  CloudInv'
  <1> USE DEF CloudInv
  <1>1. Enters(c, kind, p, x) /\ CloudTypeOK'
    BY EnterFrame
  <1>2. /\ todo'[c] # <<>> /\ todo'[c] \in LeftOf(kind)
        /\ todo'[c] \notin {ReadMeta, WriteMeta, DropLast}
        /\ todo'[c] = WriteBoth => kind = "save"
    BY <1>1, BeginningTyped DEF Enters
  <1>3. ASSUME NEW q \in Pulses
        PROVE  /\ CloudWriters(q)' = IF q = p /\ kind # "load"
                                       THEN CloudWriters(q) \cup {c} ELSE CloudWriters(q)
               /\ Working(q)' = IF q = p THEN Working(q) \cup {c} ELSE Working(q)
               /\ c \notin Working(q)
    BY <1>1, <1>2 DEF Enters, CloudWriters, Working
  <1>4. CallsOK'
    <2>1. UnderWay(todo'[c], call'[c], named')
      BY <1>1, <1>2 DEF Enters, UnderWay
    <2>2. ASSUME NEW d \in Clients \ {c} PROVE UnderWay(todo'[d], call'[d], named')
      BY <1>1 DEF Enters, CallsOK, UnderWay
    <2> QED
      BY <2>1, <2>2 DEF CallsOK
  <1>5. Unnamed'
    BY <1>1 DEF Enters, Unnamed
  <1>6. ASSUME kind # "load", p \notin torn' PROVE CloudWriters(p) = {}
    BY <1>1, <1>6 DEF Enters
  <1>7. SoleCloudWriter'
    <2> SUFFICES ASSUME NEW q \in Pulses, q \notin torn',
                        NEW d \in CloudWriters(q)', NEW e \in CloudWriters(q)'
                 PROVE  d = e
      BY DEF SoleCloudWriter
    <2>1. CASE q = p /\ kind # "load"
      BY <1>3, <1>6, <2>1
    <2>2. CASE ~(q = p /\ kind # "load")
      BY <1>1, <1>3, <2>2 DEF SoleCloudWriter, Enters
    <2> QED
      BY <2>1, <2>2
  <1>8. Whole'
    <2> SUFFICES ASSUME NEW q \in Pulses, q \notin torn'
                 PROVE  /\ CloudWriters(q)' = {} => blobs'[q] = metas'[q]
                        /\ \A d \in CloudWriters(q)' : AtHand(d, q)'
      BY DEF Whole
    <2>1. q \notin torn /\ blobs'[q] = blobs[q] /\ metas'[q] = metas[q]
      BY <1>1 DEF Enters
    <2>2. CASE q = p /\ kind # "load"
      <3>1. CloudWriters(q)' = {c} /\ blobs[q] = metas[q]
        BY <1>3, <1>6, <2>1, <2>2 DEF Whole
      <3> QED
        BY <1>2, <2>1, <3>1 DEF AtHand
    <2>3. CASE ~(q = p /\ kind # "load")
      <3>1. CloudWriters(q)' = CloudWriters(q)
        BY <1>3, <2>3
      <3>2. ASSUME NEW d \in CloudWriters(q) PROVE AtHand(d, q)' = AtHand(d, q)
        <4>1. d \in Clients /\ d # c
          BY <1>3 DEF CloudWriters, Working
        <4> QED
          BY <1>1, <2>1, <4>1 DEF Enters, AtHand
      <3> QED
        BY <2>1, <3>1, <3>2 DEF Whole
    <2> QED
      BY <2>2, <2>3
  <1>9. Unmet'
    <2> SUFFICES ASSUME NEW d \in Clients, NEW q, q = call'[d].pulse,
                        call'[d].kind = "load", ~call'[d].met, q \notin torn'
                 PROVE  /\ todo'[d] # <<>> => CloudWriters(q)' = {}
                        /\ todo'[d] = ReadMeta => call'[d].blob = blobs'[q]
                        /\ call'[d].meta # NoContent => call'[d].blob = call'[d].meta
      BY DEF Unmet
    <2>1. CASE d = c
      <3>1. /\ q = p /\ kind = "load" /\ CloudWriters(p) = {}
            /\ call'[c].meta = NoContent
        BY <1>1, <2>1 DEF Enters
      <3> QED
        BY <1>2, <1>3, <2>1, <3>1
    <2>2. CASE d # c
      <3>0. call'[d].met <=> call[d].met \/ (kind # "load" /\ d \in Working(p))
        BY <1>1, <2>2 DEF Enters
      <3>1. /\ q = call[d].pulse /\ call[d].kind = "load" /\ ~call[d].met
            /\ q \notin torn /\ todo'[d] = todo[d] /\ call'[d].blob = call[d].blob
            /\ call'[d].meta = call[d].meta /\ blobs' = blobs
            /\ ~(kind # "load" /\ d \in Working(p))
        <4>1. /\ q = call[d].pulse /\ call[d].kind = "load"
              /\ q \notin torn /\ todo'[d] = todo[d] /\ call'[d].blob = call[d].blob
              /\ call'[d].meta = call[d].meta /\ blobs' = blobs
          BY <1>1, <2>2 DEF Enters
        <4>2. ~call[d].met /\ ~(kind # "load" /\ d \in Working(p))
          BY <3>0, Zenon
        <4> QED
          BY <4>1, <4>2, Zenon
      <3>2. /\ todo[d] # <<>> => CloudWriters(q) = {} /\ q \in Pulses
            /\ todo[d] = ReadMeta => call[d].blob = blobs[q]
            /\ call[d].meta # NoContent => call[d].blob = call[d].meta
        BY <3>1, Place DEF Unmet
      <3>3. todo[d] # <<>> => ~(q = p /\ kind # "load")
        BY <3>1 DEF Working
      <3> QED
        BY <1>3, <3>1, <3>2, <3>3
    <2> QED
      BY <2>1, <2>2
  <1>10. BlobFirst'
    <2>1. todo'[c] # WriteMeta
      BY <1>2
    <2>2. /\ UNCHANGED <<blobs, metas, dropped>>
          /\ \A d \in Clients \ {c} : /\ todo'[d] = todo[d]
                                     /\ call'[d].pulse = call[d].pulse
      BY <1>1 DEF Enters
    <2> QED
      BY <2>1, <2>2 DEF BlobFirst
  <1> QED
    BY <1>1, <1>4, <1>5, <1>7, <1>8, <1>9, <1>10

-----------------------------------------------------------------------------
(* A bucket.                                                               *)

LEMMA CloudInitInv == CloudInit => CloudInv
  <1> SUFFICES ASSUME CloudInit PROVE CloudInv
    OBVIOUS
  <1>1. NoCall \in Calls /\ NoCall.kind = "none" /\ NoCall.meta = NoContent
    BY DEF NoCall, Calls, Content
  <1>2. CloudTypeOK /\ CallsOK /\ \A p \in Pulses : Working(p) = {}
    BY <1>1, Apart DEF CloudInit, CloudTypeOK, CallsOK, UnderWay, Working, Content
  <1>3. \A p \in Pulses : CloudWriters(p) = {}
    BY <1>2 DEF CloudWriters
  <1>4. SoleCloudWriter /\ Whole /\ Unnamed
    BY <1>3 DEF CloudInit, SoleCloudWriter, Whole, Unnamed
  <1>5. Unmet /\ BlobFirst
    BY <1>1, Apart DEF CloudInit, Unmet, BlobFirst
  <1> QED
    BY <1>2, <1>4, <1>5 DEF CloudInv

\* A step of a bucket is a call or a request.
CloudCall(c, kind, p, x) ==
  /\ Enter(c, kind, p, x)
  /\ kind \in {"save", "rotate"} => x \in Contents
  /\ named \subseteq named' /\ named' \subseteq Pulses /\ p \in named'
  /\ kind = "save" => p \notin named

LEMMA CloudSteps ==
  ASSUME CloudInv, CloudNext
  PROVE  \/ \E c \in Clients, p \in Pulses, x \in Content,
               kind \in {"save", "load", "rotate", "delete"} : CloudCall(c, kind, p, x)
         \/ \E c \in Clients, p \in Pulses : Request(c, p)
  <1> USE DEF CloudInv
  <1>1. ASSUME NEW c \in Clients, NEW p \in Pulses, NEW x \in Contents,
               CloudSave(c, p, x) \/ CloudRotate(c, p, x)
        PROVE  x \in Content /\ \E kind \in {"save", "rotate"} : CloudCall(c, kind, p, x)
    BY <1>1 DEF CloudSave, CloudRotate, CloudCall, CloudTypeOK, Content
  <1>2. ASSUME NEW c \in Clients, NEW p \in Pulses,
               CloudDelete(c, p) \/ CloudLoad(c, p)
        PROVE  \E kind \in {"delete", "load"} : CloudCall(c, kind, p, NoContent)
    BY <1>2 DEF CloudDelete, CloudLoad, CloudCall, CloudTypeOK
  <1>3. NoContent \in Content
    BY DEF Content
  <1> QED
    BY <1>1, <1>2, <1>3, AnyRequest DEF CloudNext

LEMMA CloudNextInv == CloudInv /\ [CloudNext]_cloudVars => CloudInv'
  <1>1. ASSUME CloudInv, CloudNext PROVE CloudInv'
    BY <1>1, CloudSteps, EnterInv, RequestInv DEF CloudCall
  <1>2. ASSUME CloudInv, UNCHANGED cloudVars PROVE CloudInv'
    <2>1. /\ CloudTypeOK' /\ CallsOK'
          /\ \A p \in Pulses : CloudWriters(p)' = CloudWriters(p)
      BY <1>2 DEF cloudVars, CloudInv, CloudTypeOK, CallsOK, Working, CloudWriters
    <2>2. Unnamed' /\ SoleCloudWriter' /\ BlobFirst'
      BY <1>2, <2>1 DEF cloudVars, CloudInv, Unnamed, SoleCloudWriter, BlobFirst
    <2>3. Whole'
      BY <1>2, <2>1 DEF cloudVars, CloudInv, Whole, AtHand
    <2>4. Unmet'
      <3>1. \A p : CloudWriters(p)' = CloudWriters(p)
        BY <1>2 DEF cloudVars, CloudWriters, Working
      <3> QED
        BY <1>2, <3>1 DEF cloudVars, CloudInv, Unmet
    <2> QED
      BY <2>1, <2>2, <2>3, <2>4 DEF CloudInv
  <1> QED
    BY <1>1, <1>2

LEMMA CloudAsSaid == CloudInv => TornOnlyByOverlap /\ LoadsPair /\ ListedHasBlob
  <1> SUFFICES ASSUME CloudInv
               PROVE  TornOnlyByOverlap /\ LoadsPair /\ ListedHasBlob
    OBVIOUS
  <1>1. TornOnlyByOverlap
    BY DEF CloudInv, Whole, TornOnlyByOverlap
  <1>2. LoadsPair
    BY DEF CloudInv, CallsOK, UnderWay, Unmet, LoadsPair
  <1>3. ListedHasBlob
    BY DEF CloudInv, BlobFirst, ListedHasBlob, Listed
  <1> QED
    BY <1>1, <1>2, <1>3

-----------------------------------------------------------------------------
(* The router: MongoDB, a bucket or the memory, and restarts.              *)

\* Who is in no method holds nothing.
IdleIsNone == \A c \in Clients : step[c] = "idle" => job[c] = NoJob

\* A pulse that was accepted is whole where it is, and nobody is changing it.
InMongo(p) ==
  Stored(p) /\ p \in used /\ p \notin abandoned \cup leaky /\ Writers(p) = {}

InCloud(p) ==
  /\ blobs[p] # NoContent /\ metas[p] = blobs[p]
  /\ p \in named /\ CloudWriters(p) = {}

AcceptedOK ==
  /\ accepted \in [Pulses -> {"none", "mongo", "cloud", "memory"}]
  /\ held \in [Pulses -> Content]
  /\ \A p \in Pulses :
       /\ held[p] # NoContent => p \in used
       /\ accepted[p] = "mongo" => InMongo(p)
       /\ accepted[p] = "cloud" => InCloud(p)
       /\ accepted[p] = "memory" => held[p] # NoContent

MongoInv == StoreInv /\ OrphanInv /\ IdleIsNone

StorageInv == MongoInv /\ CloudInv /\ AcceptedOK

LEMMA StoreNextIdle ==
  ASSUME MongoInv, StoreNext
  PROVE  IdleIsNone'
  <1> USE DEF MongoInv, StoreInv, StoreTypeOK
  <1>1. ASSUME NEW c \in Clients, Return(c) PROVE IdleIsNone'
    BY <1>1 DEF Return, Goto, IdleIsNone
  <1>2. ASSUME NEW c \in Clients, NEW where \in Steps \ {"idle"}, Goto(c, where),
               \A d \in Clients \ {c} : job'[d] = job[d]
        PROVE  IdleIsNone'
    BY <1>2 DEF Goto, IdleIsNone
  <1>3. ASSUME NEW c \in Clients, NEW p \in Pulses, NEW x, NEW kind,
               NEW first \in Steps \ {"idle"}, NEW from, Call(c, from, kind, p, x, first)
        PROVE  IdleIsNone'
    BY <1>3 DEF Call, IdleIsNone
  <1>4. \A x : SaveStep(x) \in Steps \ {"idle"}
    BY DEF SaveStep, Steps
  <1>5. \A c \in Clients : AfterOld(c) \in Steps \ {"idle"}
    BY <1>4 DEF AfterOld, Steps
  <1>6. {"finding", "dropping", "replacing", "reading", "rotating"}
          \subseteq Steps \ {"idle"}
    BY DEF Steps
  <1>7. ASSUME NEW c \in Clients, NEW p \in Pulses, NEW x \in Contents,
               Save(c, p, x) \/ Update(c, p, x) \/ Delete(c, p) \/ Load(c, p)
        PROVE  IdleIsNone'
    BY <1>3, <1>4, <1>6, <1>7 DEF Save, Update, Delete, Load
  <1>8. ASSUME NEW c \in Clients, NEW p \in Pulses, Delete(c, p) \/ Load(c, p)
        PROVE  IdleIsNone'
    BY <1>3, <1>6, <1>8 DEF Delete, Load
  <1>9. ASSUME NEW c \in Clients, Find(c) \/ LoadFind(c) \/ LoadRead(c)
        PROVE  IdleIsNone'
    BY <1>1, <1>2, <1>5, <1>6, <1>9 DEF Find, LoadFind, LoadRead, Loaded
  <1>10. ASSUME NEW c \in Clients, Drop(c) \/ DropFails(c) \/ Upload(c)
         PROVE  IdleIsNone'
    BY <1>2, <1>5, <1>6, <1>10 DEF Drop, DropFails, Upload
  <1>11. ASSUME NEW c \in Clients,
                Replace(c) \/ Erase(c) \/ Abandon(c)
         PROVE  IdleIsNone'
    BY <1>1, <1>11 DEF Replace, Erase, Abandon
  <1>12. ASSUME NEW p \in Pulses, Expire(p) PROVE IdleIsNone'
    BY <1>12 DEF Expire, IdleIsNone
  <1> QED
    BY <1>7, <1>8, <1>9, <1>10, <1>11, <1>12 DEF StoreNext

\* A step of MongoDB is a call of a client, a command of a client or an expiry.
Begins(c, q) ==
  /\ step[c] = "idle" \/ (step[c] = "rotating" /\ job[c].kind = "load")
  /\ step'[c] # "idle"
  /\ job'[c].pulse = q /\ job'[c].kind \in {"save", "load", "update", "delete"}
  /\ \A d \in Clients \ {c} : step'[d] = step[d] /\ job'[d] = job[d]
  /\ used \subseteq used' /\ UNCHANGED <<doc, abandoned>>
  /\ job'[c].kind = "save" => q \notin used
  /\ leaky' \subseteq leaky \cup {q}
  /\ job'[c].kind = "load" => leaky' = leaky

Commands(c, q) ==
  /\ step[c] # "idle" /\ q = job[c].pulse
  /\ \A d \in Clients \ {c} : step'[d] = step[d] /\ job'[d] = job[d]
  /\ step'[c] # "idle" => job'[c].kind = job[c].kind /\ job'[c].pulse = q
  /\ \A r \in Pulses \ {q} : doc'[r] = doc[r]
  /\ abandoned' \subseteq abandoned \cup {q} /\ leaky' \subseteq leaky \cup {q}
  /\ used' = used
  /\ job[c].kind = "load" => UNCHANGED <<doc, abandoned, leaky>>
  /\ (job[c].kind = "save" /\ step'[c] = "idle" /\ q \notin abandoned') =>
       doc'[q].content \in Contents

LEMMA CallBegins ==
  ASSUME StoreTypeOK, AtWork, NEW c \in Clients, NEW p \in Pulses, NEW x,
         NEW from \in {"idle", "rotating"}, NEW first, first # "idle",
         NEW kind \in {"save", "load", "update", "delete"},
         Call(c, from, kind, p, x, first), used \subseteq used',
         kind = "save" => p \notin used
  PROVE  Begins(c, p)
  <1>1. /\ step[c] = from /\ step'[c] = first
        /\ job'[c] = [kind |-> kind, pulse |-> p, content |-> x,
                      file |-> NoFile, old |-> NoFile]
        /\ \A d \in Clients \ {c} : step'[d] = step[d] /\ job'[d] = job[d]
        /\ UNCHANGED <<doc, abandoned>>
        /\ leaky' = IF kind # "load" /\ Writers(p) # {} THEN leaky \cup {p} ELSE leaky
    BY DEF Call, StoreTypeOK
  <1>2. job'[c].kind = kind /\ job'[c].pulse = p
    BY <1>1
  <1>3. step[c] = "idle" \/ (step[c] = "rotating" /\ job[c].kind = "load")
    BY <1>1 DEF AtWork
  <1> QED
    BY <1>1, <1>2, <1>3 DEF Begins

LEMMA ClientCommands ==
  ASSUME MongoInv, NEW c \in Clients, NEW q \in Pulses, q = job[c].pulse,
         \/ Find(c) \/ Drop(c) \/ DropFails(c) \/ Upload(c) \/ Replace(c)
         \/ Erase(c) \/ LoadFind(c) \/ LoadRead(c) \/ Abandon(c)
  PROVE  Commands(c, q)
  <1> USE DEF MongoInv, StoreInv, OrphanInv
  <1>1. ASSUME Return(c)
        PROVE  /\ step'[c] = "idle"
               /\ \A d \in Clients \ {c} : step'[d] = step[d] /\ job'[d] = job[d]
    BY <1>1 DEF Return, Goto, StoreTypeOK
  <1>2. /\ step[c] = "dropping" => job[c].kind # "load" /\ job[c].kind # "save"
        /\ step[c] \in {"uploading", "replacing"} =>
             job[c].kind # "load" /\ job[c].content \in Contents
        /\ step[c] = "erasing" => job[c].kind = "delete"
        /\ step[c] = "reading" => job[c].kind = "load"
    BY DEF AtWork, Stages
  <1>3. CASE Find(c)
    <2>1. /\ job[c].kind \in {"update", "delete"} /\ step[c] = "finding"
          /\ UNCHANGED <<doc, used, abandoned, leaky>>
          /\ \A d \in Clients \ {c} : step'[d] = step[d] /\ job'[d] = job[d]
          /\ job'[c].kind = job[c].kind /\ job'[c].pulse = job[c].pulse
      BY <1>3 DEF Find, Goto, StoreTypeOK
    <2> QED
      BY <2>1 DEF Commands
  <1>4. CASE Drop(c) \/ DropFails(c)
    <2>1. /\ step[c] = "dropping" /\ UNCHANGED <<doc, used, abandoned, job>>
          /\ leaky' \subseteq leaky \cup {q}
          /\ \A d \in Clients \ {c} : step'[d] = step[d]
      BY <1>4 DEF Drop, DropFails, Goto, StoreTypeOK
    <2> QED
      BY <1>2, <2>1 DEF Commands
  <1>5. CASE Upload(c)
    <2>1. /\ step[c] = "uploading" /\ UNCHANGED <<doc, used, abandoned, leaky>>
          /\ step'[c] = "replacing"
          /\ \A d \in Clients \ {c} : step'[d] = step[d] /\ job'[d] = job[d]
          /\ job'[c].kind = job[c].kind /\ job'[c].pulse = job[c].pulse
      BY <1>5 DEF Upload, Goto, StoreTypeOK
    <2> QED
      BY <1>2, <2>1 DEF Commands
  <1>6. CASE Replace(c)
    <2>1. /\ step[c] = "replacing" /\ Return(c) /\ UNCHANGED <<used, abandoned, leaky>>
          /\ doc'[q].content = job[c].content
          /\ \A r \in Pulses \ {q} : doc'[r] = doc[r]
      BY <1>6 DEF Replace, StoreTypeOK
    <2> QED
      BY <1>1, <1>2, <2>1 DEF Commands
  <1>7. CASE Erase(c)
    <2>1. /\ step[c] = "erasing" /\ Return(c) /\ UNCHANGED <<used, abandoned, leaky>>
          /\ \A r \in Pulses \ {q} : doc'[r] = doc[r]
      BY <1>7 DEF Erase, StoreTypeOK
    <2> QED
      BY <1>1, <1>2, <2>1 DEF Commands
  <1>8. CASE LoadFind(c) \/ LoadRead(c)
    <2>1. /\ job[c].kind = "load" /\ step[c] # "idle"
          /\ UNCHANGED <<doc, used, abandoned, leaky>>
      BY <1>2, <1>8 DEF LoadFind, LoadRead
    <2>2. /\ \A d \in Clients \ {c} : step'[d] = step[d] /\ job'[d] = job[d]
          /\ step'[c] # "idle" => job'[c].kind = job[c].kind /\ job'[c].pulse = q
      BY <1>8 DEF LoadFind, LoadRead, Loaded, Return, Goto, StoreTypeOK
    <2> QED
      BY <2>1, <2>2 DEF Commands
  <1>9. CASE Abandon(c)
    BY <1>1, <1>9 DEF Abandon, Commands
  <1> QED
    BY <1>3, <1>4, <1>5, <1>6, <1>7, <1>8, <1>9

LEMMA MongoSteps ==
  ASSUME MongoInv, StoreNext
  PROVE  \/ \E c \in Clients, q \in Pulses : Begins(c, q) \/ Commands(c, q)
         \/ \E q \in Pulses : Expire(q)
  <1> USE DEF MongoInv, StoreInv
  <1>1. \A x : SaveStep(x) # "idle"
    BY DEF SaveStep
  <1>2. ASSUME NEW c \in Clients, NEW p \in Pulses, NEW x \in Contents,
               Save(c, p, x) \/ Update(c, p, x)
        PROVE  Begins(c, p)
    BY <1>1, <1>2, CallBegins DEF Save, Update
  <1>3. ASSUME NEW c \in Clients, NEW p \in Pulses, Delete(c, p) \/ Load(c, p)
        PROVE  Begins(c, p)
    BY <1>3, CallBegins DEF Delete, Load
  <1>4. ASSUME NEW c \in Clients,
               \/ Find(c) \/ Drop(c) \/ DropFails(c) \/ Upload(c) \/ Replace(c)
               \/ Erase(c) \/ LoadFind(c) \/ LoadRead(c) \/ Abandon(c)
        PROVE  \E q \in Pulses : Commands(c, q)
    <2>1. step[c] # "idle"
      BY <1>4 DEF Find, Drop, DropFails, Upload, Replace, Erase, LoadFind, LoadRead,
                  Abandon
    <2>2. PICK q \in Pulses : q = job[c].pulse
      BY <2>1 DEF AtWork
    <2> QED
      BY <1>4, <2>2, ClientCommands
  <1> QED
    BY <1>2, <1>3, <1>4 DEF StoreNext

-----------------------------------------------------------------------------
(* What was accepted stays as long as nobody changes it, and is there when *)
(* its save returns.                                                       *)

LEMMA CommandKeeps ==
  ASSUME NEW c \in Clients, NEW q \in Pulses, Commands(c, q), NEW p \in Pulses,
         InMongo(p), p \notin leaky'
  PROVE  InMongo(p)'
  <1>1. /\ Stored(p) /\ p \in used /\ p \notin abandoned /\ Writers(p) = {}
    BY DEF InMongo
  <1>2. q = p => job[c].kind = "load"
    BY <1>1 DEF Commands, Writers
  <1>3. doc'[p] = doc[p] /\ p \in used' /\ p \notin abandoned'
    BY <1>1, <1>2 DEF Commands
  <1>4. Writers(p)' = {}
    BY <1>1, <1>2 DEF Commands, Writers
  <1> QED
    BY <1>1, <1>3, <1>4 DEF InMongo, Stored

LEMMA MongoKeeps ==
  ASSUME MongoInv, StoreNext, NEW p \in Pulses, InMongo(p), p \notin Touched
  PROVE  InMongo(p)'
  <1> USE DEF MongoInv, StoreInv
  <1>1. /\ Stored(p) /\ p \in used /\ p \notin abandoned /\ p \notin leaky
        /\ Writers(p) = {}
    BY DEF InMongo
  <1>2. /\ p \notin leaky'
        /\ \A c \in Clients :
             job[c] # job'[c] /\ job'[c].pulse = p =>
               job'[c].kind \notin {"update", "delete"}
    BY <1>1 DEF Touched
  <1>3. ASSUME NEW c \in Clients, NEW q \in Pulses, Begins(c, q)
        PROVE  InMongo(p)'
    <2>1. /\ doc' = doc /\ p \in used' /\ p \notin abandoned'
      BY <1>1, <1>3 DEF Begins
    <2>2. job'[c].pulse = p => job'[c].kind = "load"
      <3>1. job'[c].kind # "load" => job'[c] # job[c]
        <4>1. job[c].kind \in {"none", "load"}
          BY <1>3 DEF Begins, IdleIsNone, NoJob
        <4> QED
          BY <1>3, <4>1 DEF Begins
      <3> QED
        BY <1>1, <1>2, <1>3, <3>1 DEF Begins
    <2>3. Writers(p)' = {}
      BY <1>1, <1>3, <2>2 DEF Begins, Writers
    <2> QED
      BY <1>1, <1>2, <2>1, <2>3 DEF InMongo, Stored
  <1>4. ASSUME NEW c \in Clients, NEW q \in Pulses, Commands(c, q)
        PROVE  InMongo(p)'
    BY <1>2, <1>4, CommandKeeps
  <1>5. ASSUME NEW q \in Pulses, Expire(q)
        PROVE  InMongo(p)'
    <2>1. q # p
      BY <1>2, <1>5 DEF Expire
    <2>2. /\ doc'[p] = doc[p] /\ UNCHANGED <<step, job, used, abandoned>>
      BY <1>5, <2>1 DEF Expire, StoreTypeOK
    <2>3. Writers(p)' = {}
      BY <1>1, <2>2 DEF Writers
    <2> QED
      BY <1>1, <1>2, <2>2, <2>3 DEF InMongo, Stored
  <1> QED
    BY <1>3, <1>4, <1>5, MongoSteps

\* The save of p by c returns to its caller.
SaveEnds(c, p) ==
  /\ job[c].kind = "save" /\ job[c].pulse = p
  /\ step'[c] = "idle" /\ p \notin abandoned' \cup leaky'

LEMMA MongoAccepts ==
  ASSUME MongoInv, StoreNext, NEW p \in Pulses, NEW c \in Clients, SaveEnds(c, p)
  PROVE  InMongo(p)'
  <1> USE DEF MongoInv, StoreInv, OrphanInv
  <1>1. step[c] # "idle" /\ c \in Writers(p)
    BY DEF SaveEnds, IdleIsNone, NoJob, Writers
  <1>2. p \in used
    BY <1>1 DEF SaveEnds, UsedOnly
  <1>3. ASSUME NEW d \in Clients, NEW q \in Pulses, Begins(d, q) PROVE FALSE
    BY <1>1, <1>3 DEF Begins, SaveEnds
  <1>4. ASSUME NEW q \in Pulses, Expire(q) PROVE FALSE
    BY <1>1, <1>4 DEF Expire, SaveEnds
  <1>5. ASSUME NEW d \in Clients, NEW q \in Pulses, Commands(d, q)
        PROVE  InMongo(p)'
    <2>1. d = c /\ q = p
      BY <1>1, <1>5 DEF Commands, SaveEnds
    <2>2. doc'[p].content \in Contents
      BY <1>5, <2>1 DEF Commands, SaveEnds
    <2>3. Stored(p)'
      BY <2>2, StoreAssumption DEF Stored, NoDoc
    <2>4. p \notin leaky
      <3>1. StoreNext => leaky \subseteq leaky'
        BY DEF StoreNext, Save, Update, Delete, Load, Call, Find, Drop, DropFails,
               Upload, Replace, Erase, LoadFind, LoadRead, Abandon, Expire
      <3> QED
        BY <3>1 DEF SaveEnds
    <2>5. \A e \in Writers(p) : e = c
      BY <1>1, <2>4 DEF SoleWriter
    <2>6. Writers(p)' = {}
      BY <1>5, <2>1, <2>5 DEF Commands, Writers, SaveEnds
    <2> QED
      BY <1>2, <1>5, <2>3, <2>6 DEF InMongo, Commands, SaveEnds
  <1> QED
    BY <1>3, <1>4, <1>5, MongoSteps

LEMMA CloudKeeps ==
  ASSUME CloudInv, CloudNext, NEW p \in Pulses, InCloud(p), p \notin Touched
  PROVE  InCloud(p)'
  <1>1. /\ blobs[p] # NoContent /\ metas[p] = blobs[p]
        /\ p \in named /\ CloudWriters(p) = {}
    BY DEF InCloud
  <1>2. \A c \in Clients :
          call[c] # call'[c] /\ call'[c].pulse = p =>
            call'[c].kind \notin {"rotate", "delete"}
    BY DEF Touched
  <1>3. ASSUME NEW c \in Clients, NEW q \in Pulses, NEW x \in Content,
               NEW kind \in {"save", "load", "rotate", "delete"},
               CloudCall(c, kind, q, x)
        PROVE  InCloud(p)'
    <2>1. Enters(c, kind, q, x)
      BY <1>3, EnterFrame DEF CloudCall
    <2>2. call[c].kind \in {"none", "load"}
      BY <2>1 DEF CloudInv, CallsOK, UnderWay, Enters
    <2>3. q = p => kind = "load"
      <3>1. q = p => kind # "save"
        BY <1>1, <1>3 DEF CloudCall
      <3>2. kind # "load" => call'[c] # call[c]
        BY <2>1, <2>2 DEF Enters
      <3> QED
        BY <1>2, <2>1, <3>1, <3>2 DEF Enters
    <2>4. CloudWriters(p)' = {}
      BY <1>1, <2>1, <2>3 DEF Enters, CloudWriters, Working
    <2> QED
      BY <1>1, <1>3, <2>1, <2>4 DEF InCloud, Enters, CloudCall
  <1>4. ASSUME NEW c \in Clients, NEW q \in Pulses, Request(c, q)
        PROVE  InCloud(p)'
    <2>1. blobs'[p] = blobs[p] /\ metas'[p] = metas[p] /\ named' = named
      <3>1. CASE q # p
        BY <1>4, <3>1 DEF Request, Moves
      <3>2. CASE q = p
        <4>1. call[c].kind = "load"
          BY <1>1, <1>4, <3>2, RequestFrame DEF CloudWriters
        <4> QED
          BY <1>4, <4>1 DEF Request, Reads, Moves
      <3> QED
        BY <3>1, <3>2
    <2>2. CloudWriters(p)' = {}
      BY <1>1, <1>4, RequestFrame
    <2> QED
      BY <1>1, <2>1, <2>2 DEF InCloud
  <1> QED
    BY <1>3, <1>4, CloudSteps

\* The same of a bucket.
CloudSaveEnds(c, p) ==
  /\ call[c].kind = "save" /\ call[c].pulse = p
  /\ todo'[c] = <<>> /\ p \notin torn'

LEMMA CloudAccepts ==
  ASSUME CloudInv, CloudNext, NEW p \in Pulses, NEW c \in Clients,
         CloudSaveEnds(c, p)
  PROVE  InCloud(p)'
  <1>1. todo[c] # <<>>
    BY DEF CloudInv, CallsOK, UnderWay, CloudSaveEnds
  <1>2. call[c].new \in Contents /\ c \in CloudWriters(p)
    BY <1>1 DEF CloudInv, CallsOK, UnderWay, CloudSaveEnds, CloudWriters, Working
  <1>3. ASSUME NEW d \in Clients, NEW q \in Pulses, NEW x \in Content,
               NEW kind \in {"save", "load", "rotate", "delete"},
               CloudCall(d, kind, q, x)
        PROVE  FALSE
    <2>1. Enters(d, kind, q, x)
      BY <1>3, EnterFrame DEF CloudCall
    <2> QED
      BY <1>1, <2>1 DEF Enters, CloudSaveEnds
  <1>4. ASSUME NEW d \in Clients, NEW q \in Pulses, Request(d, q)
        PROVE  InCloud(p)'
    <2>1. d = c /\ q = p
      BY <1>1, <1>4, RequestFrame DEF Request, Moves, CloudSaveEnds
    <2>2. p \notin torn /\ metas'[p] = call[c].new /\ p \in named /\ named' = named
      BY <1>4, <2>1, RequestFrame DEF Request, Moves, Writes, CloudSaveEnds
    <2>3. CloudWriters(p)' = {}
      <3>1. CloudWriters(p) = {c}
        BY <1>2, <2>2 DEF CloudInv, SoleCloudWriter
      <3>2. c \notin CloudWriters(p)'
        BY DEF CloudSaveEnds, CloudWriters, Working
      <3> QED
        BY <1>4, <3>1, <3>2, RequestFrame
    <2>4. blobs'[p] = metas'[p]
      BY <1>4, <2>3, RequestWhole DEF Whole, CloudSaveEnds
    <2> QED
      BY <1>2, <2>2, <2>3, <2>4, ContentsAssumption DEF InCloud
  <1> QED
    BY <1>3, <1>4, CloudSteps

-----------------------------------------------------------------------------
(* The invariant of the router.                                            *)

LEMMA StorageInitInv == StorageInit => StorageInv
  <1> SUFFICES ASSUME StorageInit PROVE StorageInv
    OBVIOUS
  <1>1. MongoInv
    BY InitInv, OrphanInit DEF StorageInit, MongoInv, IdleIsNone, StoreInit
  <1>2. CloudInv
    BY CloudInitInv DEF StorageInit
  <1>3. AcceptedOK
    BY DEF StorageInit, AcceptedOK, Content
  <1> QED
    BY <1>1, <1>2, <1>3 DEF StorageInv

LEMMA MongoNextInv ==
  ASSUME MongoInv, [StoreNext]_storeVars
  PROVE  MongoInv'
  <1>1. StoreInv' /\ OrphanInv'
    BY NextInv, OrphanNext DEF MongoInv
  <1>2. IdleIsNone'
    BY StoreNextIdle DEF MongoInv, IdleIsNone, storeVars
  <1> QED
    BY <1>1, <1>2 DEF MongoInv

\* A backend that is not at work keeps what it holds.
LEMMA StillInMongo ==
  ASSUME UNCHANGED storeVars, NEW p \in Pulses
  PROVE  InMongo(p)' <=> InMongo(p)
  BY DEF storeVars, InMongo, Stored, Writers

LEMMA StillInCloud ==
  ASSUME UNCHANGED cloudVars, NEW p \in Pulses
  PROVE  InCloud(p)' <=> InCloud(p)
  BY DEF cloudVars, InCloud, CloudWriters, Working

\* The backend that accepted a pulse has it, whichever backend is at work.
LEMMA BackendStepInv ==
  ASSUME StorageInv, BackendStep
  PROVE  StorageInv'
  <1> USE DEF StorageInv
  <1>1. /\ accepted' = [p \in Pulses |-> IF p \in Touched THEN "none"
                                         ELSE IF p \in Returned THEN backend
                                         ELSE accepted[p]]
        /\ held' = held /\ backend \in {"mongo", "cloud"}
        /\ \/ backend = "mongo" /\ StoreNext /\ UNCHANGED cloudVars
           \/ backend = "cloud" /\ CloudNext /\ UNCHANGED storeVars
    BY DEF BackendStep
  <1>2. MongoInv' /\ CloudInv'
    BY <1>1, MongoNextInv, CloudNextInv
  <1>3. used \subseteq used'
    <2>1. CASE StoreNext
      BY <2>1, MongoSteps DEF Begins, Commands, Expire
    <2> QED
      BY <1>1, <2>1 DEF storeVars
  <1>4. CASE backend = "mongo"
    <2>1. StoreNext /\ UNCHANGED cloudVars
      BY <1>1, <1>4
    <2>2. ASSUME NEW p \in Returned, p \in Pulses
          PROVE  \E c \in Clients : SaveEnds(c, p)
      <3>1. \A c \in Clients : ~(call[c].kind = "save" /\ todo'[c] = <<>>)
        BY <2>1 DEF cloudVars, CloudInv, CallsOK, UnderWay
      <3> QED
        BY <2>2, <3>1 DEF Returned, SaveEnds
    <2>3. ASSUME NEW p \in Pulses, accepted'[p] = "mongo" PROVE InMongo(p)'
      <3>1. p \notin Touched /\ (p \in Returned \/ accepted[p] = "mongo")
        BY <1>1, <2>3
      <3>2. CASE p \in Returned
        BY <2>1, <2>2, <3>2, MongoAccepts
      <3>3. CASE accepted[p] = "mongo"
        BY <2>1, <3>1, <3>3, MongoKeeps DEF AcceptedOK
      <3> QED
        BY <3>1, <3>2, <3>3
    <2>4. ASSUME NEW p \in Pulses, accepted'[p] = "cloud" PROVE InCloud(p)'
      <3>1. accepted[p] = "cloud"
        BY <1>1, <1>4, <2>4
      <3> QED
        BY <2>1, <3>1, StillInCloud DEF AcceptedOK
    <2>5. AcceptedOK'
      BY <1>1, <1>4, <1>3, <2>3, <2>4 DEF AcceptedOK
    <2> QED
      BY <1>2, <2>5
  <1>5. CASE backend = "cloud"
    <2>1. CloudNext /\ UNCHANGED storeVars
      BY <1>1, <1>5
    <2>2. ASSUME NEW p \in Returned, p \in Pulses
          PROVE  \E c \in Clients : CloudSaveEnds(c, p)
      <3>1. \A c \in Clients : ~(job[c].kind = "save" /\ step'[c] = "idle")
        BY <2>1 DEF storeVars, MongoInv, IdleIsNone, NoJob
      <3> QED
        BY <2>2, <3>1 DEF Returned, CloudSaveEnds
    <2>3. ASSUME NEW p \in Pulses, accepted'[p] = "cloud" PROVE InCloud(p)'
      <3>1. p \notin Touched /\ (p \in Returned \/ accepted[p] = "cloud")
        BY <1>1, <2>3
      <3>2. CASE p \in Returned
        BY <2>1, <2>2, <3>2, CloudAccepts
      <3>3. CASE accepted[p] = "cloud"
        BY <2>1, <3>1, <3>3, CloudKeeps DEF AcceptedOK
      <3> QED
        BY <3>1, <3>2, <3>3
    <2>4. ASSUME NEW p \in Pulses, accepted'[p] = "mongo" PROVE InMongo(p)'
      <3>1. accepted[p] = "mongo"
        BY <1>1, <1>5, <2>4
      <3> QED
        BY <2>1, <3>1, StillInMongo DEF AcceptedOK
    <2>5. AcceptedOK'
      BY <1>1, <1>5, <1>3, <2>3, <2>4 DEF AcceptedOK
    <2> QED
      BY <1>2, <2>5
  <1> QED
    BY <1>1, <1>4, <1>5

\* The memory gives out ids and holds the clients that rotate; it touches no
\* document and no bucket.
LEMMA MemorySteps ==
  ASSUME StorageInv, MemoryStep
  PROVE  /\ MongoInv' /\ used \subseteq used'
         /\ \A p \in Pulses : InMongo(p) => InMongo(p)'
  <1> USE DEF StorageInv
  <1> DEFINE Kept == /\ MongoInv' /\ used \subseteq used'
                     /\ \A p \in Pulses : InMongo(p) => InMongo(p)'
  <1>1. ASSUME NEW p \in Pulses, NEW x \in Contents, MemSave(p, x) PROVE Kept
    <2>1. /\ UNCHANGED <<doc, files, made, step, job, abandoned, leaky>>
          /\ used' = used \cup {p}
      BY <1>1 DEF MemSave
    <2>2. StoreInv'
      BY <2>1 DEF MongoInv, StoreInv, StoreTypeOK, AtWork, OneOwner, OldIsOwn,
                  PrivateFile, Fresh, BlobMatchesMeta, Holds, BrokenOnlyInWork,
                  Broken, Writers
    <2>3. OrphanInv'
      BY <2>1 DEF MongoInv, OrphanInv, SoleWriter, UsedOnly, Stages, Found, Dropped,
                  NoOrphans, Clean, Writers
    <2>4. IdleIsNone'
      BY <2>1 DEF MongoInv, IdleIsNone
    <2>5. \A q \in Pulses : InMongo(q) => InMongo(q)'
      BY <2>1 DEF InMongo, Stored, Writers
    <2> QED
      BY <2>1, <2>2, <2>3, <2>4, <2>5 DEF MongoInv
  <1>2. ASSUME NEW c \in Clients, NEW p \in Pulses, MemRotate(c, p) PROVE Kept
    <2>1. /\ Call(c, "idle", "load", p, NoContent, "rotating") /\ used' = used
          /\ p \in used /\ used \subseteq Pulses /\ NoContent \in Content
      BY <1>2 DEF MemRotate, AcceptedOK, MongoInv, StoreInv, StoreTypeOK, Content
    <2>2. StoreInv' /\ OrphanInv'
      BY <2>1, CallInv, CallOrphan DEF MongoInv, Kinds
    <2>3. /\ step'[c] = "rotating" /\ job'[c].kind = "load"
          /\ \A d \in Clients \ {c} : step'[d] = step[d] /\ job'[d] = job[d]
          /\ UNCHANGED <<doc, abandoned, leaky>>
      BY <2>1 DEF Call, MongoInv, StoreInv, StoreTypeOK
    <2>4. IdleIsNone'
      BY <2>3 DEF MongoInv, IdleIsNone
    <2>5. \A q \in Pulses : InMongo(q) => InMongo(q)'
      BY <2>1, <2>3 DEF InMongo, Stored, Writers
    <2> QED
      BY <2>1, <2>2, <2>4, <2>5 DEF MongoInv
  <1>3. ASSUME NEW c \in Clients, step[c] # "idle", Return(c),
               UNCHANGED <<doc, files, made, used, leaky>>,
               abandoned' = IF job[c].kind = "load" THEN abandoned
                                                    ELSE abandoned \cup {job[c].pulse}
        PROVE  Kept
    <2>1. Abandon(c)
      BY <1>3 DEF Abandon
    <2>2. PICK q \in Pulses : q = job[c].pulse
      BY <1>3 DEF MongoInv, StoreInv, AtWork
    <2>3. Commands(c, q)
      BY <2>1, <2>2, ClientCommands
    <2>4. \A p \in Pulses : InMongo(p) => InMongo(p)'
      <3>1. ASSUME NEW p \in Pulses, InMongo(p) PROVE p \notin leaky'
        BY <1>3, <3>1 DEF InMongo
      <3> QED
        BY <2>3, <3>1, CommandKeeps
    <2>5. MongoInv'
      <3>1. StoreNext
        BY <2>1 DEF StoreNext
      <3> QED
        BY <3>1, MongoNextInv
    <2> QED
      BY <1>3, <2>4, <2>5
  <1>4. ASSUME NEW c \in Clients, NEW p \in Pulses, NEW x \in Contents,
               MemUpdate(c, p, x)
        PROVE  Kept
    <2>1. /\ step[c] = "rotating" /\ Return(c) /\ job[c].kind = "load"
          /\ UNCHANGED <<doc, files, made, used, abandoned, leaky>>
      BY <1>4 DEF MemUpdate, MongoInv, StoreInv, AtWork
    <2> HIDE DEF Kept
    <2> QED
      BY <1>3, <2>1
  <1>5. ASSUME NEW c \in Clients, Abandon(c) PROVE Kept
    <2> HIDE DEF Kept
    <2> QED
      BY <1>3, <1>5 DEF Abandon
  <1>6. ASSUME UNCHANGED storeVars PROVE Kept
    <2>1. MongoInv'
      BY <1>6, MongoNextInv
    <2> QED
      BY <1>6, <2>1, StillInMongo DEF storeVars
  <1> HIDE DEF Kept
  <1>7. Kept
    BY <1>1, <1>2, <1>4, <1>5, <1>6 DEF MemoryStep, MemDelete
  <1> QED
    BY <1>7 DEF Kept

\* What is accepted by the memory is held.
LEMMA MemoryHolds ==
  ASSUME StorageInv, MemoryStep
  PROVE  /\ held' \in [Pulses -> Content]
         /\ accepted' \in [Pulses -> {"none", "mongo", "cloud", "memory"}]
         /\ \A p \in Pulses :
              /\ held'[p] # NoContent => p \in used'
              /\ accepted'[p] \in {"mongo", "cloud"} => accepted'[p] = accepted[p]
              /\ accepted'[p] = "memory" => held'[p] # NoContent
  <1> USE DEF StorageInv
  <1>1. \/ UNCHANGED <<held, accepted>>
        \/ \E p \in Pulses, x \in Content, to \in {"none", "memory"} :
             /\ held' = [held EXCEPT ![p] = x] /\ accepted' = [accepted EXCEPT ![p] = to]
             /\ to = "memory" => x \in Contents
             /\ x # NoContent => p \in used'
    <2>1. ASSUME NEW p \in Pulses, NEW x \in Contents, MemSave(p, x)
          PROVE  /\ held' = [held EXCEPT ![p] = x] /\ p \in used' /\ x \in Content
                 /\ accepted' = [accepted EXCEPT ![p] = "memory"]
      BY <2>1 DEF MemSave, Content
    <2>2. ASSUME NEW c \in Clients, NEW p \in Pulses, NEW x \in Contents,
                 MemUpdate(c, p, x)
          PROVE  /\ held' = [held EXCEPT ![p] = x] /\ p \in used' /\ x \in Content
                 /\ accepted' = [accepted EXCEPT ![p] = "none"]
      BY <2>2 DEF MemUpdate, MongoInv, OrphanInv, UsedOnly, Content
    <2>3. ASSUME NEW p \in Pulses, MemDelete(p)
          PROVE  /\ held' = [held EXCEPT ![p] = NoContent] /\ NoContent \in Content
                 /\ accepted' = [accepted EXCEPT ![p] = "none"]
      BY <2>3 DEF MemDelete, Content
    <2>4. \/ UNCHANGED <<held, accepted>>
          \/ \E p \in Pulses, x \in Contents : MemSave(p, x)
          \/ \E c \in Clients, p \in Pulses, x \in Contents : MemUpdate(c, p, x)
          \/ \E p \in Pulses : MemDelete(p)
      BY DEF MemoryStep, MemRotate
    <2> QED
      BY <2>1, <2>2, <2>3, <2>4
  <1>2. used \subseteq used'
    BY MemorySteps
  <1> QED
    BY <1>1, <1>2, ContentsAssumption DEF AcceptedOK

LEMMA MemoryStepInv ==
  ASSUME StorageInv, MemoryStep
  PROVE  StorageInv'
  <1> USE DEF StorageInv
  <1>1. MongoInv' /\ \A p \in Pulses : InMongo(p) => InMongo(p)'
    BY MemorySteps
  <1>2. UNCHANGED cloudVars /\ CloudInv'
    BY CloudNextInv DEF MemoryStep
  <1>3. \A p \in Pulses : InCloud(p) => InCloud(p)'
    BY <1>2, StillInCloud
  <1>4. AcceptedOK'
    BY <1>1, <1>3, MemoryHolds DEF AcceptedOK
  <1> QED
    BY <1>1, <1>2, <1>4

\* The end of a process ends every method where it is: for MongoDB and for a
\* bucket it is as if every client had been abandoned.
LEMMA StopInv ==
  ASSUME StorageInv, Stop
  PROVE  StorageInv'
  <1> USE DEF StorageInv
  <1>1. /\ step' = [c \in Clients |-> "idle"] /\ job' = [c \in Clients |-> NoJob]
        /\ abandoned \subseteq abandoned'
        /\ \A p \in Pulses : Writers(p) # {} => p \in abandoned'
        /\ \A p \in Pulses : Writers(p) = {} /\ p \notin abandoned => p \notin abandoned'
        /\ UNCHANGED <<doc, files, made, used, leaky>>
    BY DEF Stop, Writers
  <1>2. /\ todo' = [c \in Clients |-> <<>>] /\ call' = [c \in Clients |-> NoCall]
        /\ torn \subseteq torn'
        /\ \A p \in Pulses : CloudWriters(p) # {} => p \in torn'
        /\ UNCHANGED <<service, blobs, metas, named, dropped>>
    BY DEF Stop, CloudWriters, Working
  <1>3. abandoned' \subseteq Pulses /\ torn' \subseteq Pulses
    <2>1. \A c \in Clients : step[c] # "idle" => job[c].pulse \in Pulses
      BY DEF MongoInv, StoreInv, AtWork
    <2>2. \A c \in Clients : todo[c] # <<>> => call[c].pulse \in Pulses
      BY Place DEF CloudInv
    <2> QED
      BY <2>1, <2>2 DEF Stop, MongoInv, StoreInv, StoreTypeOK, CloudInv, CloudTypeOK
  <1>4. \A p \in Pulses : Writers(p)' = {} /\ CloudWriters(p)' = {} /\ Working(p)' = {}
    BY <1>1, <1>2 DEF Writers, CloudWriters, Working
  <1>5. MongoInv'
    <2>1. StoreTypeOK'
      <3>1. made \in Nat
        BY StoreAssumption DEF MongoInv, StoreInv, StoreTypeOK
      <3> QED
        BY <1>1, <1>3, <3>1, EmptyTyped DEF MongoInv, StoreInv, StoreTypeOK, Steps, Job
    <2>2. AtWork' /\ OneOwner' /\ OldIsOwn' /\ PrivateFile'
      BY <1>1 DEF MongoInv, StoreInv, AtWork, OneOwner, OldIsOwn, PrivateFile, Fresh,
                  NoJob, PastDrop
    <2>3. BlobMatchesMeta'
      BY <1>1 DEF MongoInv, StoreInv, BlobMatchesMeta, Holds
    <2>4. BrokenOnlyInWork'
      BY <1>1 DEF MongoInv, StoreInv, BrokenOnlyInWork, Broken
    <2>5. NoOrphans'
      <3> SUFFICES ASSUME NEW f \in DOMAIN files, NEW p \in Pulses, p = files[f].pulse
                   PROVE  doc[p].file = f \/ p \in abandoned' \cup leaky
        BY <1>1 DEF NoOrphans, MongoInv, StoreInv, StoreTypeOK
      <3> QED
        BY <1>1 DEF MongoInv, OrphanInv, NoOrphans
    <2>6. SoleWriter' /\ UsedOnly' /\ Stages' /\ Found' /\ Dropped'
      BY <1>1, <1>4 DEF MongoInv, OrphanInv, SoleWriter, UsedOnly, Stages, Found,
                        Dropped
    <2>7. IdleIsNone'
      BY <1>1 DEF IdleIsNone
    <2> QED
      BY <2>1, <2>2, <2>3, <2>4, <2>5, <2>6, <2>7 DEF MongoInv, StoreInv, OrphanInv
  <1>6. CloudInv'
    <2>1. NoCall \in Calls /\ NoCall.kind = "none" /\ NoCall.meta = NoContent
      BY DEF NoCall, Calls, Content
    <2>2. CloudTypeOK' /\ CallsOK'
      BY <1>2, <1>3, <2>1, Apart DEF CloudInv, CloudTypeOK, CallsOK, UnderWay
    <2>3. Unnamed' /\ SoleCloudWriter' /\ Whole'
      BY <1>2, <1>4 DEF CloudInv, Unnamed, SoleCloudWriter, Whole
    <2>4. Unmet' /\ BlobFirst'
      BY <1>2, <2>1, Apart DEF CloudInv, Unmet, BlobFirst
    <2> QED
      BY <2>2, <2>3, <2>4 DEF CloudInv
  <1>7. AcceptedOK'
    <2>1. /\ accepted' = [p \in Pulses |-> IF accepted[p] = "memory" THEN "none"
                                           ELSE accepted[p]]
          /\ held' = [p \in Pulses |-> NoContent]
      BY DEF Stop
    <2>2. \A p \in Pulses : /\ InMongo(p) => InMongo(p)'
                            /\ InCloud(p) => InCloud(p)'
      BY <1>1, <1>2, <1>4 DEF InMongo, InCloud, Stored
    <2> QED
      BY <2>1, <2>2 DEF AcceptedOK, Content
  <1> QED
    BY <1>5, <1>6, <1>7

LEMMA StorageNextInv == StorageInv /\ [StorageNext]_storageVars => StorageInv'
  <1> SUFFICES ASSUME StorageInv, [StorageNext]_storageVars PROVE StorageInv'
    OBVIOUS
  <1>1. ASSUME UNCHANGED <<storeVars, cloudVars, held, accepted>> PROVE StorageInv'
    <2>1. MongoInv' /\ CloudInv'
      BY <1>1, MongoNextInv, CloudNextInv DEF StorageInv
    <2>2. AcceptedOK'
      BY <1>1, StillInMongo, StillInCloud DEF StorageInv, AcceptedOK, storeVars
    <2> QED
      BY <2>1, <2>2 DEF StorageInv
  <1>2. CASE Connect
    BY <1>1, <1>2 DEF Connect
  <1>3. CASE UNCHANGED storageVars
    BY <1>1, <1>3 DEF storageVars
  <1> QED
    BY <1>2, <1>3, BackendStepInv, MemoryStepInv, StopInv DEF StorageNext

\* What the invariant says of an accepted pulse.
LEMMA AcceptedAsSaid == StorageInv => AcceptedIsLoadable
  <1> SUFFICES ASSUME StorageInv, NEW p \in Pulses, accepted[p] # "none"
               PROVE  LoadableFrom(accepted[p], p)
    BY DEF AcceptedIsLoadable
  <1>1. CASE accepted[p] = "mongo"
    <2>1. InMongo(p)
      BY <1>1 DEF StorageInv, AcceptedOK
    <2>2. ~Broken(p)
      BY <2>1 DEF InMongo, StorageInv, MongoInv, StoreInv, BrokenOnlyInWork
    <2> QED
      BY <1>1, <2>1, <2>2 DEF LoadableFrom, InMongo
  <1>2. CASE accepted[p] = "cloud"
    BY <1>2 DEF StorageInv, AcceptedOK, InCloud, LoadableFrom
  <1>3. CASE accepted[p] = "memory"
    BY <1>3 DEF StorageInv, AcceptedOK, LoadableFrom
  <1>4. accepted[p] \in {"mongo", "cloud", "memory"}
    BY DEF StorageInv, AcceptedOK
  <1> QED
    BY <1>1, <1>2, <1>3, <1>4

-----------------------------------------------------------------------------
THEOREM StorageInvAlways == StorageSpec => []StorageInv
  <1> QED
    BY StorageInitInv, StorageNextInv, PTL DEF StorageSpec

\* PulseDB of core/db.py: once a save has returned, the pulse is whole in the
\* backend that accepted it, whatever other requests, failures, cancellations
\* and ends of the process follow, until it is updated, deleted or expires.
THEOREM AcceptedAlwaysLoadable == StorageSpec => []AcceptedIsLoadable
  <1> QED
    BY StorageInvAlways, AcceptedAsSaid, PTL

\* What holds of core/db.py on MongoDB in one process holds across ends and
\* starts of the process and changes of the backend: blobs match their
\* metadata, pulses break and files are left behind only as said.
THEOREM MongoAcrossRestarts ==
  StorageSpec => [](BlobMatchesMeta /\ BrokenOnlyInWork /\ NoOrphans)
  <1>1. StorageInv => BlobMatchesMeta /\ BrokenOnlyInWork /\ NoOrphans
    BY DEF StorageInv, MongoInv, StoreInv, OrphanInv
  <1> QED
    BY <1>1, StorageInvAlways, PTL

\* core/storage_s3.py and core/storage_gcs.py, with ends of the process: the
\* two objects of a pulse belong together when nobody writes it, unless two
\* writers have overlapped or one was cut off.
THEOREM TornAlwaysByOverlap == StorageSpec => []TornOnlyByOverlap
  <1>1. StorageInv => TornOnlyByOverlap
    BY CloudAsSaid DEF StorageInv
  <1> QED
    BY <1>1, StorageInvAlways, PTL

\* load_pulse of either class returns a blob and its own metadata, unless a
\* writer was at work in the meantime or the pulse had been torn before.
THEOREM LoadsAlwaysPair == StorageSpec => []LoadsPair
  <1>1. StorageInv => LoadsPair
    BY CloudAsSaid DEF StorageInv
  <1> QED
    BY <1>1, StorageInvAlways, PTL

\* core/storage_s3.py and core/storage_gcs.py store the blob before its
\* metadata: overlapping saves and rotations, failures and ends of the process
\* leave no listed pulse without its blob, unless a delete has dropped it.
THEOREM ListedAlwaysHasBlob == StorageSpec => []ListedHasBlob
  <1>1. StorageInv => ListedHasBlob
    BY CloudAsSaid DEF StorageInv
  <1> QED
    BY <1>1, StorageInvAlways, PTL
=============================================================================

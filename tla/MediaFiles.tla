----------------------------- MODULE MediaFiles -----------------------------
(***************************************************************************)
(* The media store (media/src/store.rs): an upload is scanned by VirusTotal *)
(* when a key is configured (virustotal.rs), written, described by a file   *)
(* of its own next to it, and only then is its id given out; reads find the *)
(* file by its id; cleanup removes files that are too old. Uploads, reads   *)
(* and cleanup run on threads of their own over the same directory, and the *)
(* process may end anywhere; what is on the disk stays. (Nothing in the     *)
(* repository calls cleanup but its tests.)                                 *)
(*                                                                         *)
(* A file is known by the upload it is of, and by how much of it is there. *)
(***************************************************************************)
EXTENDS Naturals, FiniteSets

CONSTANTS
  MfUploads,     \* uploads, and the ids they are given
  MfReaders,
  MfMimes,       \* content types sent
  MfScanMax,     \* MAX_VT_FILE_SIZE
  MfMax,         \* max_file_size
  MfThreshold,   \* MALICIOUS_THRESHOLD
  MfMaxCrashes   \* bound: ends of the process

ASSUME MfConstants == MfScanMax \in Nat /\ MfMax \in Nat /\ MfThreshold \in Nat \ {0} /\ MfMaxCrashes \in Nat

VARIABLES
  mfScanner,     \* VIRUSTOTAL_API_KEY is set
  mfWhat,        \* per upload: [size, mime, flags], flags the engines that object to it
  mfPc,          \* per upload: "new", "scan", "poll", "store", "writing", "meta", "describing", and
                 \* "given", "refused" or "lost"
  mfFile,        \* per upload: "none", "part" or "whole" on the disk
  mfMeta,        \* per upload: its .meta.json, likewise
  mfOld,         \* uploads whose files are older than ttl_hours
  mfRead,        \* per reader: [pc, of, file, mime]
  mfClean,       \* cleanup: [todo, meta], the entries left and the one whose metadata is next
  mfCrashes

mfDisk == <<mfFile, mfMeta>>
mfVars == <<mfScanner, mfWhat, mfPc, mfDisk, mfOld, mfRead, mfClean, mfCrashes>>

NoFile == [size |-> 0, mime |-> "none", flags |-> 0]
Reading == [pc |-> "idle", of |-> "none", file |-> "none", mime |-> "none"]
CleanIdle == [todo |-> {}, meta |-> {}]

open_media_store ==
  /\ mfScanner \in BOOLEAN /\ mfWhat = [u \in MfUploads |-> NoFile]
  /\ mfPc = [u \in MfUploads |-> "new"]
  /\ mfFile = [u \in MfUploads |-> "none"] /\ mfMeta = [u \in MfUploads |-> "none"]
  /\ mfOld = {} /\ mfRead = [r \in MfReaders |-> Reading] /\ mfClean = CleanIdle /\ mfCrashes = 0

----------------------------------------------------------------------------
(* Types                                                                    *)

safe_extension_for_mime(mime) ==
  CASE mime = "image/png" -> "png" [] mime = "text/plain" -> "txt" [] OTHER -> "bin"

mime_for_safe_extension(ext) ==
  CASE ext = "png" -> "image/png"
    [] ext = "txt" -> "text/plain; charset=utf-8"
    [] OTHER -> "application/octet-stream"

----------------------------------------------------------------------------
(* Uploads                                                                  *)

MfGoes(u, pc) == mfPc' = [mfPc EXCEPT ![u] = pc]
notUpload == <<mfScanner, mfOld, mfRead, mfClean, mfCrashes>>

media_store(u) ==
  /\ mfPc[u] = "new"
  /\ \E size \in {1, MfScanMax + 1, MfMax + 1}, mime \in MfMimes, flags \in {MfThreshold - 1, MfThreshold} :
       mfWhat' = [mfWhat EXCEPT ![u] = [size |-> size, mime |-> mime, flags |-> flags]]
  /\ MfGoes(u, IF mfScanner THEN "scan" ELSE "store")
  /\ UNCHANGED <<mfDisk, notUpload>>

upload_file(u) == \E pc \in {"poll", "refused"} : MfGoes(u, pc)

\* scan: a file too large for the service counts as safe.
scan(u) ==
  /\ mfPc[u] = "scan"
  /\ IF mfWhat[u].size > MfScanMax THEN MfGoes(u, "store") ELSE upload_file(u)
  /\ UNCHANGED <<mfWhat, mfDisk, notUpload>>

\* What the service tells of an analysis: done or not, and the engines that objected so far.
Analyses(u) == {a \in [done : BOOLEAN, flags : 0..mfWhat[u].flags] : a.done => a.flags = mfWhat[u].flags}

Verdict(u, flagged) == MfGoes(u, IF flagged < MfThreshold THEN "store" ELSE "refused")

\* Seeded bug: the counts of an analysis that is not completed are taken for the verdict.
poll_analysis_early(u) ==
  /\ mfPc[u] = "poll" /\ \E a \in Analyses(u) : Verdict(u, a.flags)
  /\ UNCHANGED <<mfWhat, mfDisk, notUpload>>

\* A poll fails, or comes too late, or shows the analysis: under way, or completed.
poll_analysis(u) ==
  /\ mfPc[u] = "poll"
  /\ \/ MfGoes(u, "refused")
     \/ \E a \in Analyses(u) : IF a.done THEN Verdict(u, a.flags) ELSE UNCHANGED mfPc
  /\ UNCHANGED <<mfWhat, mfDisk, notUpload>>

\* store_unscanned: the size, the file, its metadata, the id.
store_unscanned(u) ==
  /\ \/ /\ mfPc[u] = "store" /\ mfWhat[u].size > MfMax /\ MfGoes(u, "refused") /\ UNCHANGED mfDisk
     \/ /\ mfPc[u] = "store" /\ mfWhat[u].size <= MfMax /\ MfGoes(u, "writing")
        /\ mfFile' = [mfFile EXCEPT ![u] = "part"] /\ UNCHANGED mfMeta
     \/ /\ mfPc[u] = "writing" /\ MfGoes(u, "meta")
        /\ mfFile' = [mfFile EXCEPT ![u] = IF @ = "none" THEN "none" ELSE "whole"] /\ UNCHANGED mfMeta
     \/ mfPc[u] \in {"writing", "meta", "describing"} /\ MfGoes(u, "refused") /\ UNCHANGED mfDisk
  /\ UNCHANGED <<mfWhat, notUpload>>

write_metadata(u) ==
  /\ \/ mfPc[u] = "meta" /\ MfGoes(u, "describing") /\ mfMeta' = [mfMeta EXCEPT ![u] = "part"]
     \/ /\ mfPc[u] = "describing" /\ MfGoes(u, "given")
        /\ mfMeta' = [mfMeta EXCEPT ![u] = IF @ = "none" THEN "none" ELSE "whole"]
  /\ UNCHANGED <<mfWhat, mfFile, notUpload>>

----------------------------------------------------------------------------
(* Reads                                                                    *)

MfSees(r, read) ==
  mfRead' = [mfRead EXCEPT ![r] = read] /\ UNCHANGED <<mfScanner, mfWhat, mfPc, mfDisk, mfOld, mfClean, mfCrashes>>

\* The file of an id that was given out.
resolve_path(r, u) ==
  /\ mfRead[r].pc \in {"idle", "served"} /\ mfPc[u] = "given"
  /\ MfSees(r, IF mfFile[u] = "none" THEN Reading ELSE [Reading EXCEPT !.pc = "bytes", !.of = u])

\* Its bytes; the file may be gone by now.
media_read(r) ==
  LET u == mfRead[r].of
  IN mfRead[r].pc = "bytes"
     /\ MfSees(r, IF mfFile[u] = "none" THEN Reading ELSE [mfRead[r] EXCEPT !.pc = "meta", !.file = mfFile[u]])

\* Its metadata: looked for, then read and parsed; without any, the type is the extension's.
read_metadata(r) ==
  LET read == mfRead[r]
      kept == mfMeta[read.of]
      Served(mime) == [read EXCEPT !.pc = "served", !.mime = mime]
  IN \/ /\ read.pc = "meta"
        /\ MfSees(r, IF kept # "none" THEN [read EXCEPT !.pc = "parse"]
                     ELSE Served(mime_for_safe_extension(safe_extension_for_mime(mfWhat[read.of].mime))))
     \/ read.pc = "parse" /\ MfSees(r, IF kept = "whole" THEN Served(mfWhat[read.of].mime) ELSE Reading)

----------------------------------------------------------------------------
(* Age                                                                      *)

Ages(u) ==
  /\ mfFile[u] # "none" /\ u \notin mfOld /\ mfOld' = mfOld \cup {u}
  /\ UNCHANGED <<mfScanner, mfWhat, mfPc, mfDisk, mfRead, mfClean, mfCrashes>>

notClean == <<mfScanner, mfWhat, mfPc, mfOld, mfRead, mfCrashes>>

\* cleanup: the entries of the directory, one by one; an old file goes, then its metadata.
cleanup_lists ==
  /\ mfClean = CleanIdle /\ \E u \in MfUploads : mfFile[u] # "none"
  /\ mfClean' = [todo |-> {u \in MfUploads : mfFile[u] # "none"}, meta |-> {}]
  /\ UNCHANGED <<mfDisk, notClean>>

cleanup(u) ==
  /\ \/ /\ u \in mfClean.todo /\ mfClean.meta = {}
        /\ LET goes == u \in mfOld /\ mfFile[u] # "none"
           IN /\ mfFile' = IF goes THEN [mfFile EXCEPT ![u] = "none"] ELSE mfFile
              /\ mfClean' = [todo |-> mfClean.todo \ {u}, meta |-> IF goes THEN {u} ELSE {}]
              /\ UNCHANGED mfMeta
     \/ /\ u \in mfClean.meta /\ mfClean' = [mfClean EXCEPT !.meta = {}]
        /\ mfMeta' = [mfMeta EXCEPT ![u] = "none"] /\ UNCHANGED mfFile
  /\ UNCHANGED notClean

----------------------------------------------------------------------------

MfCrash ==
  /\ mfCrashes < MfMaxCrashes /\ mfCrashes' = mfCrashes + 1
  /\ mfPc' = [u \in MfUploads |-> IF mfPc[u] \in {"new", "given", "refused"} THEN mfPc[u] ELSE "lost"]
  /\ mfRead' = [r \in MfReaders |-> Reading] /\ mfClean' = CleanIdle
  /\ UNCHANGED <<mfScanner, mfWhat, mfDisk, mfOld>>

MfNext ==
  \/ \E u \in MfUploads :
       media_store(u) \/ scan(u) \/ poll_analysis(u) \/ store_unscanned(u) \/ write_metadata(u) \/ Ages(u) \/ cleanup(u)
  \/ \E r \in MfReaders : media_read(r) \/ read_metadata(r) \/ \E u \in MfUploads : resolve_path(r, u)
  \/ cleanup_lists \/ MfCrash

MfSpec == open_media_store /\ [][MfNext]_mfVars

----------------------------------------------------------------------------
(* Properties                                                               *)

MfCleared(u) == mfScanner /\ mfWhat[u].size <= MfScanMax => mfWhat[u].flags < MfThreshold

\* What a read serves is what was uploaded under the id: the whole file, with the type it came
\* with (the extension's type once it is old enough to be cleaned up), and not one that the scan
\* found malicious, however uploads, reads, cleanup and ends of the process interleave.
ServedAsStored ==
  \A r \in MfReaders :
    LET read == mfRead[r] u == read.of what == mfWhat[u]
    IN read.pc = "served" =>
         /\ read.file = "whole" /\ MfCleared(u)
         /\ \/ read.mime = what.mime
            \/ u \in mfOld /\ read.mime = mime_for_safe_extension(safe_extension_for_mime(what.mime))
=============================================================================

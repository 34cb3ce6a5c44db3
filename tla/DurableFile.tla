----------------------------- MODULE DurableFile -----------------------------
(***************************************************************************)
(* The life of one file written by _durable_exclusive_write (b2/bm1.py):   *)
(* what a reader sees in it, and what a power loss may leave of it.        *)
(*                                                                         *)
(* On Linux the bytes are durable after fsync of the file, and the name    *)
(* after fsync of the directory; the Windows backend opens with            *)
(* CREATE_NEW and WRITE_THROUGH, and FlushFileBuffers commits both.        *)
(*                                                                         *)
(*   absent   no directory entry                                           *)
(*   created  O_EXCL succeeded, the content is not there yet               *)
(*   written  the full content was handed to the operating system          *)
(*   synced   the bytes are on disk, the directory entry may not be        *)
(*   durable  bytes and entry are on disk                                  *)
(*   torn     the entry survived a power loss without its content          *)
(***************************************************************************)

CONSTANT Platform      \* the storage backend: sys.platform of the runner

ASSUME PlatformAssumption == Platform \in {"linux", "win32"}

FileState == {"absent", "created", "written", "synced", "durable", "torn"}

\* Defect: without O_EXCL an existing file is truncated.
CreatableAgain(s) == s \in FileState

\* O_CREAT | O_EXCL and CREATE_NEW succeed only on a name nobody has used.
Creatable(s) == s = "absent"

\* _durable_read followed by json.loads returns the document that was written.
Readable(s) == s \in {"written", "synced", "durable"}

\* What a power loss can still take from.
Volatile(s) == s \in {"created", "written", "synced"}

\* os.fsync(fd) flushes bytes only; FlushFileBuffers also commits the entry.
AfterFlush == IF Platform = "win32" THEN "durable" ELSE "synced"

\* Defect: _fsync_dir does nothing.
DirectorySyncSkipped(s) == s

\* fsync of the directory commits the entry of a file whose bytes are there.
AfterDirectorySync(s) == IF s = "synced" THEN "durable" ELSE s

\* A volatile file is lost (not kept), or kept without (torn) or with content.
AfterPowerLoss(s, kept, torn) ==
    IF ~Volatile(s) THEN s
    ELSE IF ~kept THEN "absent"
    ELSE IF s = "created" \/ (torn /\ s = "written") THEN "torn"
    ELSE "durable"

=============================================================================

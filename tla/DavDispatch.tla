---------------------------- MODULE DavDispatch ----------------------------
(***************************************************************************)
(* dav_handler (nc-dav handler.rs): the gates a request passes, in order,  *)
(* before the DAV framework gets it, and who answers it in the end.        *)
(*                                                                         *)
(* A segment of a URL is [name, enc]: enc tells whether it is written with *)
(* percent-encoding.  A row is found only under the segments it was stored *)
(* with, all decoded.  A request is a record:                              *)
(*   method, own (below the user's own files tree), segs, dest (segments   *)
(*   of the Destination header, NoDest without one), node (what is at the  *)
(*   path, of a size above 0: "none", "file" or "dir"), fits (the quota    *)
(*   allows it), opts (a subset of {"archive", "trash", "skip"}), fault    *)
(*   ("mtime", "ctime", "auth", "storage", "chunked", "body", "xml",       *)
(*   "report" or "").                                                      *)
(***************************************************************************)
EXTENDS Sequences, SequencesExt

NoDest  == <<[name |-> "", enc |-> FALSE]>>
Plain(n) == [name |-> n, enc |-> FALSE]

(* Names that some rule of the validator refuses. *)
Forbidden   == {".part", "..", "tab"}
validate(n) == n \notin Forbidden

percent_decode_path(segs) == [i \in DOMAIN segs |-> [segs[i] EXCEPT !.enc = FALSE]]

(* What the prefix leaves of the path: in the user's own tree the segments *)
(* below it, else the whole path below /remote.php/dav.                    *)
dav_path(rq) == IF rq.own THEN rq.segs ELSE <<Plain("files"), Plain("other")>> \o rq.segs

(* PUT and MKCOL create the last segment of the path, MOVE and COPY that   *)
(* of the destination; an empty name is not looked at.                     *)
write_target_name(rq) ==
    LET segs == CASE rq.method \in {"PUT", "MKCOL"} -> percent_decode_path(dav_path(rq))
                  [] rq.method \in {"MOVE", "COPY"} -> percent_decode_path(rq.dest)
                  [] OTHER -> <<>>
    IN  IF segs = <<>> THEN "" ELSE Last(segs).name

(* lookup_by_path in a tree that holds rq.node at the decoded path. *)
RowAt(rq, segs) == IF segs = percent_decode_path(dav_path(rq)) THEN rq.node ELSE "none"

(* Faulty variant: the path of a DELETE is looked up as it was sent. *)
DeletePathRaw(rq) == dav_path(rq)

DeletePath(rq) == percent_decode_path(dav_path(rq))
CopyPath(rq)   == percent_decode_path(dav_path(rq))
GetPath(rq)    == dav_path(rq)

TrashesDir(rq) == RowAt(rq, DeletePath(rq)) = "dir" /\ "trash" \in rq.opts /\ "skip" \notin rq.opts

(* What the user is charged for before anything is written. *)
Charged(rq) == \/ rq.method \in {"PUT", "MKCOL"}
               \/ rq.method = "COPY" /\ RowAt(rq, CopyPath(rq)) # "none"

(* The framework's answer, with the headers a found row adds to a GET. *)
Delegated(rq) ==
    IF rq.method = "GET" /\ RowAt(rq, GetPath(rq)) = "file" THEN "dav-server, with checksum"
    ELSE "dav-server"

(* The headers, the user and the name, before anything is looked up. *)
Unreadable(rq) ==
    IF rq.fault \in {"mtime", "ctime"} THEN "400"
    ELSE IF rq.fault = "auth" THEN "401"
    ELSE IF write_target_name(rq) # "" /\ ~validate(write_target_name(rq)) THEN "400 name"
    ELSE ""

(* Then the storage, the quota and the old chunking protocol. *)
Refused(rq) ==
    IF Unreadable(rq) # "" THEN Unreadable(rq)
    ELSE IF rq.fault = "storage" THEN "503"
    ELSE IF Charged(rq) /\ ~rq.fits THEN "507"
    ELSE IF rq.fault = "chunked" THEN "501"
    ELSE ""

Get(rq) ==
    IF RowAt(rq, GetPath(rq)) # "dir" THEN Delegated(rq)
    ELSE IF "archive" \in rq.opts THEN "archive" ELSE "stub"

Report(rq) ==
    CASE rq.fault \in {"body", "xml"} -> "400"
      [] rq.fault = "report" -> "501"
      [] OTHER -> "report"

dav_handler(rq) ==
    IF Refused(rq) # "" THEN Refused(rq)
    ELSE CASE rq.method = "GET" -> Get(rq)
           [] rq.method = "REPORT" -> Report(rq)
           [] rq.method = "DELETE" /\ TrashesDir(rq) -> "trash"
           [] OTHER -> Delegated(rq)
=============================================================================

------------------------------ MODULE Routing ------------------------------
(***************************************************************************)
(* nc-server router.rs: which requests are answered before authentication, *)
(* which are gated by the SameSite cookies, and who serves the rest -- a   *)
(* native handler or PHP-FPM.  A path is its mount (the registered prefix  *)
(* it falls under) and the child it addresses there.  "filesx" stands for  *)
(* a name that merely begins with another.                                 *)
(***************************************************************************)
EXTENDS FiniteSets

DavMounts  == {"/remote.php/dav", "/dav"}
PhpMounts  == {"/ocs-provider/index.php", "/remote.php/direct", "/public.php", "/.well-known",
               "/login", "/index.php", "/", "registry"}
NativeMounts == {"/status.php", "/heartbeat", "ocs_native", "/core/preview", "/core/preview.png",
                 "thumbnail", "photos_preview", "/remote.php/webdav"}
Mounts     == DavMounts \cup PhpMounts \cup NativeMounts \cup {"ocs_other", "asset", "unknown"}

PROXIED_DAV_SUBTREES == {"versions", "comments", "trashbin", "principals", "calendars",
    "public-calendars", "system-calendars", "addressbooks", "avatars", "access-control"}
DavChildren == PROXIED_DAV_SUBTREES \cup
    {"", "uploads", "uploadsx", "bulk", "files", "filesx", "photos", "davx"}

(* The first name of these paths is their child: what apps register at the *)
(* root ("registry", build_route_registry) and what nobody has registered. *)
TopLevel   == {"registry", "unknown"}
BeginsLikeDav(path) == path.mount \in DavMounts \/ (path.mount \in TopLevel /\ path.child = "davx")

(* The server's asset roots, and the apps_paths of the configuration. *)
static_asset(path, method, exists) ==
    path.mount = "asset" /\ method \in {"GET", "HEAD"} /\ exists

is_dav_path(path) ==
    BeginsLikeDav(path) \/ path.mount \in {"/remote.php/webdav", "/remote.php/direct", "/public.php"}

(* Faulty variant: the thumbnail route was added to the table only. *)
samesite_gated_but_thumbnail(path) ==
    \/ BeginsLikeDav(path)
    \/ path.mount \in {"/remote.php/webdav", "/remote.php/direct", "ocs_native", "ocs_other",
                      "/core/preview", "/core/preview.png"}

(* samesite_gated_prefixes: /remote.php and /dav, the OCS scripts and the  *)
(* native preview routes but the one of Photos.                            *)
samesite_gated(path) ==
    \/ BeginsLikeDav(path)
    \/ path.mount \in {"/remote.php/webdav", "/remote.php/direct", "ocs_native", "ocs_other",
                      "/core/preview", "/core/preview.png", "thumbnail"}

(* The path without the DAV roots it begins with, however often.  Any      *)
(* other path is its own remainder; the mounts that have a name of their   *)
(* own begin like no child of DAV.                                         *)
remainder(path) ==
    IF path.mount \in DavMounts \cup TopLevel THEN path.child ELSE path.mount

(* Whether a session is resolved with PHP's login chain (session_auth) and *)
(* what the arbiter of the DAV mounts serves itself.  The path is not      *)
(* asked whether it lies under a DAV mount.                                *)
dav_served_by_rust(path, method) ==
    /\ remainder(path) \notin PROXIED_DAV_SUBTREES
    /\ method \notin {"SEARCH", "REPORT"}
    /\ \/ remainder(path) \in {"uploads", "uploadsx", "files"}
       \/ remainder(path) = "bulk" /\ method = "POST"

(* The arbiter of the two DAV mounts: without PHP-FPM everything is native. *)
dav_arbiter_handler(path, method, fpm) ==
    IF ~dav_served_by_rust(path, method) THEN (IF fpm THEN "php" ELSE "dav_handler")
    ELSE IF remainder(path) \in {"uploads", "uploadsx"} THEN "upload_handler"
    ELSE IF remainder(path) = "bulk" /\ method = "POST" THEN "bulk_handler"
    ELSE "dav_handler"

php_fpm_fallback(fpm) == IF fpm THEN "php" ELSE "502"

(* The route table: who serves a path.  A preview comes from the cache or  *)
(* the request goes on to PHP.                                             *)
build(path, method, fpm) ==
    CASE path.mount \in DavMounts          -> dav_arbiter_handler(path, method, fpm)
      [] path.mount = "/remote.php/webdav" -> "dav_handler"
      [] path.mount \in {"/core/preview", "/core/preview.png", "thumbnail", "photos_preview"} -> "preview"
      [] path.mount \in {"/status.php", "/heartbeat", "ocs_native"} -> "native"
      [] path.mount \in PhpMounts \cup {"ocs_other"} -> php_fpm_fallback(fpm)
      [] OTHER -> "404"
=============================================================================

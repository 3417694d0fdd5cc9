-------------------------------- MODULE Files --------------------------------
(***************************************************************************)
(* The files of the server: the PDF of a document, which every download    *)
(* deletes, renders and sends anew (downloadPdf, generatePdf), and the     *)
(* images that are uploaded for the photo of the administrator and for the *)
(* logo (singleStorageUpload before updateProfile and updateBySettingKey). *)
(*                                                                         *)
(* A renderer (phantom, a process of its own) opens its file, which        *)
(* empties it, and later has written it.  A file that is unlinked while it *)
(* is open stays what it is for those who hold it.                         *)
(***************************************************************************)
EXTENDS Integers, FiniteSets

CONSTANTS
    Documents,      \* documents in the database
    Rendered,       \* those of a model that pugFiles lists
    NotFound,       \* an address of no model, or of no document
    Downloads,      \* slots for downloads
    MaxVersion,     \* bound on the versions of a document
    Images,         \* names that an uploaded image can get
    NoImage         \* no image

ASSUME FilesAssumption ==
    /\ Rendered \subseteq Documents
    /\ NotFound \notin Documents /\ NoImage \notin Images
    /\ MaxVersion \in Nat \ {0}

VARIABLES
    version,        \* the version of each document in the database
    file,           \* what is at the path of each document's PDF
    download,       \* what each slot is doing
    images,         \* the images under public/uploads
    photo,          \* what the administrator's photo names
    logo,           \* what the setting company_logo names
    upload          \* the image that a call has stored and not yet named

filesVars == <<version, file, download, images, photo, logo, upload>>

-----------------------------------------------------------------------------
Versions == 1 .. MaxVersion

\* A PDF of version 0 is none; one is whole when its renderer has written it
\* and no other wrote to it.
Pdf == [version : 0 .. MaxVersion, whole : BOOLEAN, mixed : BOOLEAN]

NoPdf == [version |-> 0, whole |-> FALSE, mixed |-> FALSE]

\* read is the version that was read; linked says that the open file is the
\* one at the path; good that what is being sent is whole and of that version;
\* overlapped is history: another download of the document went on meanwhile.
DownloadStages == {"idle", "asked", "settings", "render", "writing", "rendered", "sending",
           "sent", "refused", "unanswered", "orphan", "orphanWriting"}

Download == [pc : DownloadStages, of : Documents \union {NotFound}, read : 0 .. MaxVersion,
             linked : BOOLEAN, good : BOOLEAN, overlapped : BOOLEAN]

FreeSlot == [pc |-> "idle", of |-> NotFound, read |-> 0,
             linked |-> FALSE, good |-> FALSE, overlapped |-> FALSE]

Uses(d, x) == download[d].of = x
              /\ download[d].pc \notin {"idle", "asked", "sent", "refused", "unanswered"}

Writes(d, x) == download[d].of = x /\ download[d].linked
                /\ download[d].pc \in {"writing", "orphanWriting"}

\* Whoever is being sent the file at the path gets what is being written to it.
Torn(x) == [d \in Downloads |->
    IF download[d].of = x /\ download[d].pc = "sending" /\ download[d].linked
    THEN [download[d] EXCEPT !.good = FALSE] ELSE download[d]]

Unlinked(x) == [d \in Downloads |->
    IF download[d].of = x THEN [download[d] EXCEPT !.linked = FALSE] ELSE download[d]]

-----------------------------------------------------------------------------
(* Downloads *)

\* The document is changed by other calls.
Change(x) ==
    /\ version[x] < MaxVersion
    /\ version' = [version EXCEPT ![x] = @ + 1]
    /\ UNCHANGED <<file, download, images, photo, logo, upload>>

Ask(d, x) ==
    /\ download[d].pc = "idle"
    /\ download' = [download EXCEPT ![d] = [FreeSlot EXCEPT !.pc = "asked", !.of = x]]
    /\ UNCHANGED <<version, file, images, photo, logo, upload>>

\* findOne, and what is done before the settings are awaited: the old file is
\* unlinked.  For a model without a template that is all that ever happens,
\* and the call is never answered.
Read(d) ==
    LET x == download[d].of
        others == {e \in Downloads \ {d} : Uses(e, x)}
    IN  /\ download[d].pc = "asked" /\ x \in Documents
        /\ download' = [e \in Downloads |->
               IF e = d
               THEN [download[d] EXCEPT
                        !.pc = IF x \in Rendered THEN "settings" ELSE "unanswered",
                        !.read = version[x],
                        !.overlapped = (others # {})]
               ELSE [Unlinked(x)[e] EXCEPT !.overlapped = @ \/ e \in others]]
        /\ file' = [file EXCEPT ![x] = NoPdf]
        /\ UNCHANGED <<version, images, photo, logo, upload>>

\* No model: 404; no document: 400; a settings list or template that fails:
\* 500.
Refuse(d) ==
    /\ \/ download[d].pc = "asked"
       \/ download[d].pc = "settings"
    /\ download' = [download EXCEPT ![d].pc = "refused"]
    /\ UNCHANGED <<version, file, images, photo, logo, upload>>

\* A slip: the answer does not wait for the renderer.
BeginUnawaited(d) ==
    /\ download[d].pc = "settings"
    /\ download' = [download EXCEPT ![d].pc = "rendered"]
    /\ file' = [file EXCEPT ![download[d].of].version = download[d].read]
    /\ UNCHANGED <<version, images, photo, logo, upload>>

\* toFile with the page that was rendered from what was read.
Begin(d) ==
    /\ download[d].pc = "settings"
    /\ download' = [download EXCEPT ![d].pc = "render"]
    /\ UNCHANGED <<version, file, images, photo, logo, upload>>

\* The renderer opens the path.
OpenFile(d) ==
    LET x == download[d].of
    IN  /\ download[d].pc \in {"render", "orphan"}
        /\ file' = [file EXCEPT ![x] =
               [version |-> download[d].read, whole |-> FALSE,
                mixed |-> \E e \in Downloads : Writes(e, x)]]
        /\ download' = [Torn(x) EXCEPT ![d].linked = TRUE,
               ![d].pc = IF download[d].pc = "render" THEN "writing" ELSE "orphanWriting"]
        /\ UNCHANGED <<version, images, photo, logo, upload>>

\* It has written it, over what another may be writing there.
WriteFile(d) ==
    LET x == download[d].of
    IN  /\ download[d].pc \in {"writing", "orphanWriting"}
        /\ file' = IF download[d].linked
                   THEN [file EXCEPT ![x] = [version |-> download[d].read,
                                             whole |-> ~@.mixed, mixed |-> @.mixed]]
                   ELSE file
        /\ download' = [Torn(x) EXCEPT ![d] =
               IF download[d].pc = "writing"
               THEN [@ EXCEPT !.pc = "rendered", !.linked = FALSE] ELSE FreeSlot]
        /\ UNCHANGED <<version, images, photo, logo, upload>>

\* The callback: res.download opens the path, or answers 500 if nothing is
\* there.
Send(d) ==
    LET x == download[d].of
    IN  /\ download[d].pc = "rendered"
        /\ download' = [download EXCEPT ![d] =
               IF file[x].version = 0 THEN [@ EXCEPT !.pc = "refused"]
               ELSE [@ EXCEPT !.pc = "sending", !.linked = TRUE,
                              !.good = file[x].whole
                                        /\ file[x].version = download[d].read]]
        /\ UNCHANGED <<version, file, images, photo, logo, upload>>

Sent(d) ==
    /\ download[d].pc = "sending"
    /\ download' = [download EXCEPT ![d].pc = "sent"]
    /\ UNCHANGED <<version, file, images, photo, logo, upload>>

\* The user has the answer, or gives up a call that gets none.
Forget(d) ==
    /\ download[d].pc \in {"sent", "refused", "unanswered"}
    /\ download' = [download EXCEPT ![d] = FreeSlot]
    /\ UNCHANGED <<version, file, images, photo, logo, upload>>

-----------------------------------------------------------------------------
\* The process ends and is started again: its calls are gone, the renderers
\* go on.
Crashed ==
    /\ download' = [d \in Downloads |->
           CASE download[d].pc = "render"  -> [download[d] EXCEPT !.pc = "orphan"]
             [] download[d].pc = "writing" -> [download[d] EXCEPT !.pc = "orphanWriting"]
             [] download[d].pc \in {"orphan", "orphanWriting"} -> download[d]
             [] OTHER -> FreeSlot]
    /\ upload' = NoImage

\* The renderer reports an error, and the callback throws it where nothing
\* catches it.
RenderFails(d) ==
    /\ download[d].pc = "render"
    /\ Crashed
    /\ UNCHANGED <<version, file, images, photo, logo>>

-----------------------------------------------------------------------------
(* Uploads *)

\* The profile form is saved, with an image.
PhotoChosen == upload = NoImage

\* The upload middleware of the profile stores what the filter lets through,
\* under a name that is new.
StorePhoto(i) ==
    /\ PhotoChosen /\ i \notin images
    /\ images' = images \union {i}
    /\ upload' = i
    /\ UNCHANGED <<version, file, download, photo, logo>>

\* updateProfile, with the name that the middleware put in the body.
NamePhoto ==
    /\ upload # NoImage
    /\ photo' = upload
    /\ upload' = NoImage
    /\ UNCHANGED <<version, file, download, images, logo>>

\* A body without a file passes the middleware at once: the photo becomes what
\* its text says, stored or not.
TypePhoto(i) ==
    /\ photo' = i
    /\ UNCHANGED <<version, file, download, images, logo, upload>>

\* 403 for the demo account, 404 or 500; the image stays.
PhotoRefused ==
    /\ upload # NoImage
    /\ upload' = NoImage
    /\ UNCHANGED <<version, file, download, images, photo, logo>>

\* The route of the logo: what the middleware returns is no promise, so the
\* call is answered with 500 at once, and what comes after it is skipped; the
\* image is stored all the same.
StoreLogo(i) ==
    /\ i \notin images
    /\ images' = images \union {i}
    /\ UNCHANGED <<version, file, download, photo, logo, upload>>

\* A body without a file passes the middleware at once.  The setting is
\* written, and the second answer to the call ends the process.
WriteLogo(i) ==
    /\ logo' = i
    /\ Crashed
    /\ UNCHANGED <<version, file, images, photo>>

-----------------------------------------------------------------------------
FilesInit ==
    /\ version = [x \in Documents |-> 1]
    /\ file = [x \in Documents |-> NoPdf]
    /\ download = [d \in Downloads |-> FreeSlot]
    /\ images = {} /\ photo = NoImage /\ logo = NoImage /\ upload = NoImage

FilesNext ==
    \/ \E x \in Documents : Change(x)
    \/ \E d \in Downloads :
           \/ \E x \in Documents \union {NotFound} : Ask(d, x)
           \/ Read(d) \/ Refuse(d) \/ Begin(d) \/ OpenFile(d) \/ WriteFile(d)
           \/ Send(d) \/ Sent(d) \/ Forget(d)
           \/ RenderFails(d)
    \/ \E i \in Images :
           \/ StorePhoto(i) \/ TypePhoto(i) \/ StoreLogo(i) \/ WriteLogo(i)
    \/ NamePhoto \/ PhotoRefused

FilesSpec == FilesInit /\ [][FilesNext]_filesVars
-----------------------------------------------------------------------------
FilesTypeOK ==
    /\ version \in [Documents -> Versions]
    /\ file \in [Documents -> Pdf]
    /\ download \in [Downloads -> Download]
    /\ images \subseteq Images
    /\ photo \in Images \union {NoImage} /\ logo \in Images \union {NoImage}
    /\ upload \in Images \union {NoImage}

\* A download that was overlapped by no other of its document, and by no
\* renderer that a process left when it ended, hands over the whole PDF of the
\* version it read: not the file of an earlier download, whatever became of
\* that one, not one that is half written.
SentWhole ==
    \A d \in Downloads :
        download[d].pc \in {"sending", "sent"} /\ ~download[d].overlapped
        => download[d].good
=============================================================================

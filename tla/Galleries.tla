----------------------------- MODULE Galleries -----------------------------
(***************************************************************************)
(* Pictures: the image rows of a post, a listing or a part, and the two    *)
(* objects behind each, the picture and its thumbnail, which MediaService  *)
(* keeps in an object store (R2) beside the database.  Nothing ties the    *)
(* two stores together but the order of the calls.  The three services     *)
(* have the same code.  An update that removes, uploads and names pictures *)
(* does so one after the other, as the requests here.  A row may also be   *)
(* made of any string for a url, and anybody who is signed in may upload   *)
(* and delete objects without rows (media/media.controller.ts).            *)
(***************************************************************************)
EXTENDS Integers

CONSTANTS
  Owners,        \* posts, listings, parts
  Pictures,      \* image rows, numbered as they are made; objects have the row's number
  Editors,       \* requests that may be open at a time
  MediaFaults    \* bound on failures

VARIABLES
  owner,         \* owners that are live
  rows,          \* image rows
  of, names,     \* the owner of a row and the object its url names, or 0 for none
  pictures,      \* objects in the store
  thumbnails,
  editing,       \* where each request stands, and the rows it has left
  mediaFaults,
  dropped,       \* history: <<object, row>>, the object was deleted for the row, or row 0
  uploads,       \* history: objects uploaded for no row
  loose          \* history: objects left by a failure, or by a picture added to what was being deleted

mediaVars == <<owner, rows, of, names, pictures, thumbnails, editing, mediaFaults, dropped, uploads,
              loose>>

Idle == [at |-> "idle", of |-> "none", row |-> 0, todo |-> {}, all |-> FALSE]
GoTo(c, to) == editing' = [editing EXCEPT ![c] = to]
Step(c, at) == editing[c].at = at /\ UNCHANGED mediaFaults
Fault == mediaFaults < MediaFaults /\ mediaFaults' = mediaFaults + 1
Used == {i \in Pictures : of[i] # "none"} \union pictures \union loose \union uploads
        \union {d[1] : d \in dropped} \union {editing[c].row : c \in Editors}
Fresh == {i \in Pictures \ Used : \A j \in Pictures \ Used : i <= j}

Init ==
  /\ owner = Owners
  /\ rows = {} /\ pictures = {} /\ thumbnails = {}
  /\ of = [i \in Pictures |-> "none"] /\ names = [i \in Pictures |-> i]
  /\ editing = [c \in Editors |-> Idle]
  /\ mediaFaults = 0 /\ dropped = {} /\ uploads = {} /\ loose = {}

-----------------------------------------------------------------------------
\* uploadImage: the picture, ...
Upload(c) ==
  /\ editing[c] = Idle
  /\ \E o \in owner, i \in Fresh :
       /\ pictures' = pictures \union {i}
       /\ GoTo(c, [Idle EXCEPT !.at = "thumbnail", !.of = o, !.row = i])
  /\ UNCHANGED <<owner, rows, of, names, thumbnails, mediaFaults, dropped, uploads, loose>>

\* ... then its thumbnail, ...
UploadThumbnail(c) ==
  /\ Step(c, "thumbnail")
  /\ thumbnails' = thumbnails \union {editing[c].row}
  /\ GoTo(c, [editing[c] EXCEPT !.at = "saveImage"])
  /\ UNCHANGED <<owner, rows, of, names, pictures, dropped, uploads, loose>>

\* ... then the row; the owner may have been soft-deleted since.
SaveImage(c) ==
  LET w == editing[c] IN
  /\ Step(c, "saveImage")
  /\ rows' = rows \union {w.row}
  /\ of' = [of EXCEPT ![w.row] = w.of]
  /\ loose' = IF w.of \in owner THEN loose ELSE loose \union {w.row}
  /\ GoTo(c, Idle)
  /\ UNCHANGED <<owner, names, pictures, thumbnails, dropped, uploads>>

\* Objects whose address some answer has told.
Known == {names[i] : i \in {j \in Pictures : of[j] # "none"}} \union uploads

\* saveImageUrls: a row for whatever string was sent, the address of an object or none.
SaveImageUrl(c) ==
  /\ editing[c] = Idle
  /\ \E o \in owner, i \in Fresh, j \in {0} \union Known :
       /\ rows' = rows \union {i}
       /\ of' = [of EXCEPT ![i] = o] /\ names' = [names EXCEPT ![i] = j]
  /\ UNCHANGED <<owner, pictures, thumbnails, editing, mediaFaults, dropped, uploads, loose>>

\* POST /media/upload: a picture and its thumbnail, and no row.  Their address is told
\* when both are there.
UploadSingle ==
  /\ \E i \in Fresh :
       /\ pictures' = pictures \union {i}
       /\ \/ thumbnails' = thumbnails \union {i} /\ uploads' = uploads \union {i}
             /\ UNCHANGED <<mediaFaults, loose>>
          \/ Fault /\ loose' = loose \union {i} /\ UNCHANGED <<thumbnails, uploads>>
  /\ UNCHANGED <<owner, rows, of, names, editing, dropped>>

\* DELETE /media/:key of a picture or of a thumbnail, which does not ask whose it is;
\* or a row of another service that names it is deleted, with what it names.
DeleteByKey(o) ==
  /\ \/ /\ o \in pictures /\ pictures' = pictures \ {o}
        /\ dropped' = dropped \union {<<o, 0>>} /\ UNCHANGED thumbnails
     \/ /\ o \in thumbnails /\ thumbnails' = thumbnails \ {o}
        /\ UNCHANGED <<pictures, dropped>>
  /\ UNCHANGED <<owner, rows, of, names, editing, mediaFaults, uploads, loose>>

-----------------------------------------------------------------------------
\* deleteImages of one's own, and the deletion of an owner with all its pictures.
FindImages(c) ==
  /\ editing[c] = Idle
  /\ \E i \in rows : of[i] \in owner /\ GoTo(c, [Idle EXCEPT !.at = "deletePicture", !.of = of[i], !.row = i])
  /\ UNCHANGED <<owner, rows, of, names, pictures, thumbnails, mediaFaults, dropped, uploads, loose>>

FindOwner(c) ==
  /\ editing[c] = Idle
  /\ \E o \in owner :
       GoTo(c, [Idle EXCEPT !.at = "nextPicture", !.of = o, !.all = TRUE, !.todo = {i \in rows : of[i] = o}])
  /\ UNCHANGED <<owner, rows, of, names, pictures, thumbnails, mediaFaults, dropped, uploads, loose>>

NextPicture(c) ==
  /\ Step(c, "nextPicture")
  /\ \E i \in editing[c].todo :
       GoTo(c, [editing[c] EXCEPT !.at = "deletePicture", !.row = i, !.todo = @ \ {i}])
  /\ UNCHANGED <<owner, rows, of, names, pictures, thumbnails, dropped, uploads, loose>>

\* deleteImage of MediaService: the picture, ...
DeletePicture(c) ==
  LET o == names[editing[c].row] IN
  /\ Step(c, "deletePicture")
  /\ pictures' = pictures \ {o}
  /\ dropped' = dropped \union {<<o, editing[c].row>>}
  /\ GoTo(c, [editing[c] EXCEPT !.at = "thumbnailExists"])
  /\ UNCHANGED <<owner, rows, of, names, thumbnails, uploads, loose>>

\* What comes after deleteImage: the next picture, or this one's row.
After(w) == IF w.all THEN [w EXCEPT !.at = "nextPicture", !.row = 0] ELSE [w EXCEPT !.at = "deleteRow"]

\* ... then the thumbnail if there is one.  An error is taken for "no".
ThumbnailExists(c) ==
  LET o == names[editing[c].row] IN
  /\ editing[c].at = "thumbnailExists"
  /\ \/ /\ GoTo(c, IF o \in thumbnails THEN [editing[c] EXCEPT !.at = "deleteThumbnail"] ELSE After(editing[c]))
        /\ UNCHANGED <<mediaFaults, loose>>
     \/ Fault /\ GoTo(c, After(editing[c])) /\ loose' = loose \union {o}
  /\ UNCHANGED <<owner, rows, of, names, pictures, thumbnails, dropped, uploads>>

DeleteThumbnail(c) ==
  /\ Step(c, "deleteThumbnail")
  /\ thumbnails' = thumbnails \ {names[editing[c].row]}
  /\ GoTo(c, After(editing[c]))
  /\ UNCHANGED <<owner, rows, of, names, pictures, dropped, uploads, loose>>

\* Mutant: the row stays and goes on naming the object.
DeleteRow_Keep(c) ==
  /\ Step(c, "deleteRow")
  /\ GoTo(c, Idle)
  /\ UNCHANGED <<owner, rows, of, names, pictures, thumbnails, dropped, uploads, loose>>

DeleteRow(c) ==
  /\ Step(c, "deleteRow")
  /\ rows' = rows \ {editing[c].row}
  /\ GoTo(c, Idle)
  /\ UNCHANGED <<owner, of, names, pictures, thumbnails, dropped, uploads, loose>>

\* When no picture is left the owner is soft-deleted, whatever was added since.
DeleteOwner(c) ==
  LET o == editing[c].of IN
  /\ Step(c, "nextPicture") /\ editing[c].todo = {}
  /\ owner' = owner \ {o}
  /\ loose' = loose \union ((pictures \union thumbnails) \intersect {names[i] : i \in {j \in rows : of[j] = o}})
  /\ GoTo(c, Idle)
  /\ UNCHANGED <<rows, of, names, pictures, thumbnails, dropped, uploads>>

\* The store refuses a deletion, or no key can be read from a url that names no object,
\* which is logged: a single row stays as it is, and the deletion of an owner goes on.
Refuse(c) ==
  /\ editing[c].at \in {"deletePicture", "deleteThumbnail"}
  /\ Fault \/ (names[editing[c].row] = 0 /\ UNCHANGED mediaFaults)
  /\ loose' = loose \union {names[editing[c].row]}
  /\ GoTo(c, IF editing[c].all THEN After(editing[c]) ELSE Idle)
  /\ UNCHANGED <<owner, rows, of, names, pictures, thumbnails, dropped, uploads>>

\* A query or an upload fails, or the process ends: the request stops.
Fail(c) ==
  /\ editing[c] # Idle /\ Fault
  /\ loose' = loose \union {names[i] : i \in editing[c].todo \union ({editing[c].row} \ {0})}
                    \union (IF editing[c].all THEN {names[i] : i \in {j \in rows : of[j] = editing[c].of}} ELSE {})
  /\ GoTo(c, Idle)
  /\ UNCHANGED <<owner, rows, of, names, pictures, thumbnails, dropped, uploads>>

Next ==
  \/ \E c \in Editors :
       \/ Upload(c) \/ UploadThumbnail(c) \/ SaveImage(c) \/ SaveImageUrl(c) \/ FindImages(c)
       \/ FindOwner(c) \/ NextPicture(c) \/ DeletePicture(c) \/ ThumbnailExists(c)
       \/ DeleteThumbnail(c) \/ DeleteRow(c) \/ DeleteOwner(c) \/ Refuse(c) \/ Fail(c)
  \/ UploadSingle
  \/ \E o \in Known : DeleteByKey(o)

Spec == Init /\ [][Next]_mediaVars

-----------------------------------------------------------------------------
\* Types; a row has an owner.
TypeOK ==
  /\ owner \subseteq Owners /\ rows \subseteq Pictures
  /\ pictures \subseteq Pictures /\ thumbnails \subseteq Pictures /\ uploads \subseteq Pictures
  /\ loose \subseteq Pictures \union {0}
  /\ \A i \in rows : of[i] \in Owners

Shown == {i \in rows : of[i] \in owner}
Working(o) == {c \in Editors : editing[c].all \/ (editing[c].row # 0 /\ names[editing[c].row] = o)}

\* A picture that is shown is in the store, unless its url never named one, it is
\* being deleted, a call failed, or it was deleted for another row that names it or
\* by its key.
PictureThere ==
  \A i \in Shown : names[i] \notin pictures \union {0} =>
    \/ names[i] \in loose \/ Working(names[i]) # {}
    \/ \E d \in dropped : d[1] = names[i] /\ d[2] # i

\* What is in the store is shown by somebody, or being worked on, or was uploaded for
\* no row, or left by a failure or by a picture added to what was being deleted.
NothingLeft ==
  \A o \in pictures \union thumbnails :
    \/ \E i \in Shown : names[i] = o
    \/ o \in loose \union uploads \/ Working(o) # {}

\* The database and the object store agree as far as the order of calls can make them.
PicturesExplained == PictureThere /\ NothingLeft
=============================================================================

------------------------------ MODULE Profiles ------------------------------
(***************************************************************************)
(* The profile row of one user (users/users.service.ts): updateProfile and *)
(* the four picture operations load the whole row, work on the copy, and   *)
(* save it; login and verifyOtp save it with the user it belongs to, by    *)
(* cascade.  save loads the row again and writes every column in which the *)
(* copy differs, so that a copy which has grown old takes other columns    *)
(* back; and it writes no column that is undefined in the copy.  Avatar    *)
(* and cover have the same code; the picture here is either.  Anybody who  *)
(* is signed in may delete an object by its key.                           *)
(***************************************************************************)
EXTENDS Integers

CONSTANTS
  Names,         \* user names
  Objects,       \* pictures uploaded, numbered
  Edits,         \* requests that may be open at a time
  MaxEdits,      \* bound on requests
  ProfileFaults  \* bound on failures

VARIABLES
  row,           \* the columns: username and the picture's url, or 0
  stored,        \* objects in the store
  copy,          \* what each request has loaded, and where it stands
  edits, profileFaults,
  overlapped,    \* history: two requests had the row loaded at once, or one failed
  cleared,       \* history: objects deleted by deleteAvatar or by their key
  undeleted      \* history: objects whose deletion the store refused, and a request went on

profileVars == <<row, stored, copy, edits, profileFaults, overlapped, cleared, undeleted>>

Idle == [at |-> "idle", username |-> "none", url |-> 0]
Columns(w) == [username |-> w.username, url |-> w.url]
GoTo(c, to) == copy' = [copy EXCEPT ![c] = to]

Init ==
  /\ row \in [username : Names, url : {0}]
  /\ stored = {} /\ cleared = {} /\ undeleted = {}
  /\ copy = [c \in Edits |-> Idle]
  /\ edits = 0 /\ profileFaults = 0 /\ overlapped = FALSE

Fresh == {o \in Objects : \A p \in stored \union cleared \union {row.url} \union {copy[c].url : c \in Edits} : p < o}

-----------------------------------------------------------------------------
\* findOne of the row.
Load(c, at) ==
  /\ copy[c] = Idle /\ edits < MaxEdits /\ edits' = edits + 1
  /\ GoTo(c, [at |-> at, username |-> row.username, url |-> row.url])
  /\ overlapped' = (overlapped \/ \E d \in Edits : copy[d] # Idle)
  /\ UNCHANGED <<row, stored, profileFaults, cleared, undeleted>>

UpdateProfile(c) == Load(c, "checkName")
UploadAvatar(c) == Load(c, "deleteOld")
DeleteAvatar(c) == row.url # 0 /\ Load(c, "deleteAvatar")
\* login and verifyOtp load the user with the profile, and save both.
Login(c) == Load(c, "save")

\* A new name must not be taken; nobody else's profile is modelled.
CheckName(c) ==
  /\ copy[c].at = "checkName"
  /\ \E n \in Names : GoTo(c, [copy[c] EXCEPT !.at = "save", !.username = n])
  /\ UNCHANGED <<row, stored, edits, profileFaults, overlapped, cleared, undeleted>>

\* deleteImage: the store deletes the object, or refuses, which is only logged.
Deleted(o) == stored' = stored \ {o} /\ undeleted' = undeleted \ {o} /\ UNCHANGED profileFaults
Refused(o) ==
  /\ profileFaults < ProfileFaults /\ profileFaults' = profileFaults + 1
  /\ undeleted' = undeleted \union (stored \intersect {o}) /\ UNCHANGED stored

\* The old picture is deleted first, if there is one, ...
DeleteOld(c) ==
  LET o == copy[c].url IN
  /\ copy[c].at = "deleteOld"
  /\ Deleted(o) \/ (o # 0 /\ Refused(o))
  /\ GoTo(c, [copy[c] EXCEPT !.at = "upload"])
  /\ UNCHANGED <<row, edits, overlapped, cleared>>

\* ... then the new one is uploaded, and put into the copy.
Upload(c) ==
  /\ copy[c].at = "upload"
  /\ \E o \in Fresh :
       /\ \A p \in Fresh : o <= p
       /\ stored' = stored \union {o}
       /\ GoTo(c, [copy[c] EXCEPT !.at = "save", !.url = o])
  /\ UNCHANGED <<row, edits, profileFaults, overlapped, cleared, undeleted>>

\* deleteAvatar deletes the picture and sets the url of the copy to undefined.
DeleteFromStore(c) ==
  LET o == copy[c].url IN
  /\ copy[c].at = "deleteAvatar"
  /\ \/ Deleted(o) /\ cleared' = cleared \union {o}
     \/ Refused(o) /\ UNCHANGED cleared
  /\ GoTo(c, [copy[c] EXCEPT !.at = "saveUndefined"])
  /\ UNCHANGED <<row, edits, overlapped>>

\* Mutant: save writes the name only.
Save_Name(c) ==
  /\ copy[c].at \in {"save", "saveUndefined"}
  /\ row' = [row EXCEPT !.username = copy[c].username]
  /\ GoTo(c, Idle)
  /\ UNCHANGED <<stored, edits, profileFaults, overlapped, cleared, undeleted>>

\* save: every column of the copy, except what is undefined in it.
Save(c) ==
  /\ copy[c].at \in {"save", "saveUndefined"}
  /\ row' = IF copy[c].at = "save" THEN Columns(copy[c]) ELSE [row EXCEPT !.username = copy[c].username]
  /\ GoTo(c, Idle)
  /\ UNCHANGED <<stored, edits, profileFaults, overlapped, cleared, undeleted>>

Fail(c) ==
  /\ copy[c] # Idle /\ profileFaults < ProfileFaults /\ profileFaults' = profileFaults + 1
  /\ overlapped' = TRUE
  /\ GoTo(c, Idle)
  /\ UNCHANGED <<row, stored, edits, cleared, undeleted>>

\* DELETE /media/:key, which does not ask whose object it is; or a row of another
\* service that names the object is deleted, with what it names.
DeleteByKey(o) ==
  /\ o \in stored /\ Deleted(o)
  /\ cleared' = cleared \union {o}
  /\ UNCHANGED <<row, copy, edits, overlapped>>

Next ==
  \/ \E c \in Edits :
       \/ UpdateProfile(c) \/ UploadAvatar(c) \/ DeleteAvatar(c) \/ Login(c) \/ CheckName(c)
       \/ DeleteOld(c) \/ Upload(c) \/ DeleteFromStore(c) \/ Save(c) \/ Fail(c)
  \/ \E o \in Objects : DeleteByKey(o)

Spec == Init /\ [][Next]_profileVars

-----------------------------------------------------------------------------
\* Types; what a request holds of the row names an object that was uploaded.
TypeOK ==
  /\ row \in [username : Names, url : Objects \union {0}]
  /\ stored \subseteq Objects /\ cleared \subseteq Objects /\ undeleted \subseteq Objects
  /\ \A c \in Edits : copy[c].url \in Objects \union {0}

\* As long as no two requests had the row loaded at once and none failed, the
\* store holds the picture the profile names and those it refused to delete, and
\* nothing else; except that the profile goes on naming a picture that
\* deleteAvatar, or somebody by its key, has deleted.
ProfileExplained ==
  ~overlapped /\ (\A c \in Edits : copy[c] = Idle) =>
    stored = ({row.url} \ ({0} \union cleared)) \union undeleted
=============================================================================

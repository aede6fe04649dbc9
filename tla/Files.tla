------------------------------- MODULE Files --------------------------------
(***************************************************************************)
(* The picture of one row (a user, a team, a game or an event) and its     *)
(* files in the bucket, through FileUploadService. A file is named after   *)
(* the contents of the processed picture, so the same picture is the same  *)
(* file.                                                                   *)
(***************************************************************************)
EXTENDS Handlers

CONSTANT Pictures  \* processed pictures

ASSUME FilesAssumption == Pictures \cap {"none", "elsewhere"} = {}

VARIABLES
  row,       \* the picture the row names: one of Pictures, "none" or "elsewhere"
  files,     \* the files in the bucket
  failed,    \* history: an upload broke off, or a deletion did not happen
  repeated   \* history: a picture took the place of itself

filing == <<row, files, failed, repeated>>

\* extractFilePath: the address of a picture that is not ours leads to no file.
FileOf(value) == {value} \cap Pictures

FilesInit ==
  /\ row = "none"
  /\ files = {}
  /\ failed = FALSE
  /\ repeated = FALSE

\* The first picture of a new row: registerUser stores the address at Google
\* first; a new team or event has none.
FirstPicture(p) ==
  /\ Arrive(p, "firstPicture") /\ row = "none" /\ files = {}
  /\ \E picture \in Pictures, value \in {"none", "elsewhere"} :
       /\ row' = value
       /\ Suspend(p, "put", [op |-> "firstPicture", old |-> "none", new |-> picture])
  /\ UNCHANGED <<files, failed, repeated>>

\* Avatars and logos are put first, whatever the row names.
UploadAvatar(p) ==
  /\ Arrive(p, "uploadAvatar")
  /\ \E picture \in Pictures :
       Suspend(p, "put", [op |-> "uploadAvatar", old |-> "none", new |-> picture])
  /\ UNCHANGED filing

\* The game, with the picture it names, is read before the photo is put.
UploadSocialPhoto(p) ==
  /\ Arrive(p, "uploadPhoto")
  /\ \E picture \in Pictures :
       Suspend(p, "put", [op |-> "uploadPhoto", old |-> row, new |-> picture])
  /\ UNCHANGED filing

\* An event's old picture is deleted before the new one is put.
UploadEventImage(p) ==
  /\ Arrive(p, "uploadEventImage")
  /\ \E picture \in Pictures :
       Suspend(p, IF row = "none" THEN "put" ELSE "deleteOld",
               [op |-> "uploadEventImage", old |-> row, new |-> picture])
  /\ UNCHANGED filing

DeleteEventImage(p) ==
  /\ Arrive(p, "deleteEventImage") /\ row # "none"
  /\ Suspend(p, "deleteOld", [op |-> "deleteEventImage", old |-> row, new |-> "none"])
  /\ UNCHANGED filing

\* EventsService.update and its like save the whole event they read.
SaveWholeEvent(p) ==
  /\ Arrive(p, "saveEvent")
  /\ Suspend(p, "write", [op |-> "saveEvent", old |-> row, new |-> row])
  /\ UNCHANGED filing

PutFile(p) ==
  /\ At(p, "put")
  /\ files' = files \cup {local[p].new}
  /\ Suspend(p, CASE local[p].op = "uploadAvatar" -> "readRow"
                  [] local[p].op = "uploadPhoto" /\ local[p].old # "none" -> "deleteOld"
                  [] OTHER -> "write", local[p])
  /\ UNCHANGED <<row, failed, repeated>>

\* Mutant: the old picture is not looked up.
ReadRowNot(p) ==
  /\ At(p, "readRow")
  /\ Suspend(p, "write", local[p])
  /\ UNCHANGED filing

ReadRow(p) ==
  /\ At(p, "readRow")
  /\ Suspend(p, IF row = "none" THEN "write" ELSE "deleteOld", [local[p] EXCEPT !.old = row])
  /\ UNCHANGED filing

\* Mutant: the picture just put is deleted.
DeleteFileNew(p) ==
  /\ At(p, "deleteOld")
  /\ files' = files \ FileOf(local[p].new)
  /\ Suspend(p, IF local[p].op = "uploadEventImage" THEN "put" ELSE "write", local[p])
  /\ UNCHANGED <<row, failed, repeated>>

\* deleteFile: an error of the bucket is logged and forgotten.
DeleteFile(p) ==
  /\ At(p, "deleteOld")
  /\ \/ files' = files \ FileOf(local[p].old) /\ UNCHANGED failed
     \/ "fail" \in ops /\ failed' = TRUE /\ UNCHANGED files
  /\ Suspend(p, IF local[p].op = "uploadEventImage" THEN "put" ELSE "write", local[p])
  /\ UNCHANGED <<row, repeated>>

WriteRow(p) ==
  /\ At(p, "write")
  /\ row' = local[p].new
  /\ repeated' = (repeated \/ (local[p].new = local[p].old
                                 /\ local[p].op \in {"uploadAvatar", "uploadPhoto"}))
  /\ Return(p)
  /\ UNCHANGED <<files, failed>>

\* The picture cannot be processed or put, or the row cannot be read or
\* written; deleteFile does not throw.
UploadFails(p) ==
  /\ pc[p] \in {"put", "readRow", "write"} /\ Broken(p)
  /\ failed' = TRUE
  /\ UNCHANGED <<row, files, repeated>>

FilesNext(p) ==
  \/ FirstPicture(p) \/ UploadAvatar(p) \/ UploadSocialPhoto(p)
  \/ UploadEventImage(p) \/ DeleteEventImage(p) \/ SaveWholeEvent(p)
  \/ PutFile(p) \/ ReadRow(p) \/ DeleteFile(p) \/ WriteRow(p)
  \/ UploadFails(p)

-----------------------------------------------------------------------------
(* Properties.                                                             *)

Settled == calm /\ ~failed /\ \A p \in Requests : pc[p] = "idle"

\* While uploads come one at a time and none fails, a row names a picture that
\* is in the bucket, unless a picture was uploaded again over itself: then
\* uploads of avatars, logos and social photos delete the file they have just
\* put, whose name is the old one's.
PictureExists == Settled /\ ~repeated => FileOf(row) \subseteq files

\* And the files of the pictures that were replaced are gone.
NoOrphans == Settled => files \subseteq FileOf(row)
=============================================================================

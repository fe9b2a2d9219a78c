------------------------------ MODULE BookApi ------------------------------
(***************************************************************************)
(* What book-content's book routes answer, over the rows the commands      *)
(* write: the store's query, and the handler's status code for its result. *)
(***************************************************************************)
EXTENDS Commands

(* WHERE status = 'published'. *)
ListBooks == {b \in Books : row[b].status = "published"}

(* handleLookupErr. *)
Status(err) == CASE err = "nil" -> 200 [] err = "ErrNotFound" -> 404 [] OTHER -> 500

GetBook(b) == IF b \in ListBooks THEN "nil" ELSE "ErrNotFound"

(* The row is scanned into a []byte, which may be NULL, and a string,      *)
(* which may not: a NULL content type is an error of Scan, before          *)
(* `data == nil` is looked at.                                             *)
GetBookImage(b) ==
  IF b \notin ListBooks THEN "ErrNotFound"
  ELSE IF row[b].contentType = None THEN "cannot scan NULL into *string"
  ELSE IF row[b].image = None THEN "ErrNotFound" ELSE "nil"

BookRoute(b) == Status(GetBook(b))

ImageRoute(b) == Status(GetBookImage(b))

(* GetBookImage's comment (book-content/internal/db/store.go:144):         *)
(* ErrNotFound if the book "has no cover stored (book_image IS NULL; ...   *)
(* whose cover download soft-failed)"; the route answers 404 then.         *)
MissingCoverIsNotFound ==
  \A b \in Books : BookRoute(b) = 200 /\ row[b].image = None => ImageRoute(b) = 404
=============================================================================

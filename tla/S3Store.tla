------------------------------ MODULE S3Store ------------------------------
(***************************************************************************)
(* List of the S3 store (internal/storage/s3store/s3store.go): the keys    *)
(* with a prefix, fetched page by page.  Keys are numbers, in the order in *)
(* which S3 lists them, and only those with the prefix are considered.     *)
(*                                                                         *)
(* The bucket may change between two pages: bucket[n] is what it holds     *)
(* when the n-th page is fetched, and size[n] the most that S3 puts on     *)
(* that page; the last entries hold for the pages after.                   *)
(***************************************************************************)
EXTENDS Naturals, SequencesExt, FiniteSetsExt

At(s, n) == s[Min({n, Len(s)})]

\* External: one page, from the key after the one that the continuation token
\* stands for.  A page may be empty and yet not be the last.
ListObjectsV2(keys, after, size) ==
  LET rest     == SelectSeq([k \in 1 .. Max(keys) |-> k], LAMBDA k : k \in keys /\ k > after)
      contents == SubSeq(rest, 1, Min({size, Len(rest)}))
  IN  [contents    |-> contents,
       isTruncated |-> Len(rest) > size,
       next        |-> IF contents = <<>> THEN after ELSE Last(contents)]

\* Mutant: an empty page is taken for the last.
MoreAfterContents(page) == page.isTruncated /\ page.contents # <<>>

More(page) == page.isTruncated

\* The pages from the n-th on.
RECURSIVE ListFrom(_, _, _, _)
ListFrom(bucket, size, n, after) ==
  LET page == ListObjectsV2(At(bucket, n), after, At(size, n))
  IN  page.contents \o (IF More(page) THEN ListFrom(bucket, size, n + 1, page.next) ELSE <<>>)

List(bucket, size) == ListFrom(bucket, size, 1, 0)

=============================================================================

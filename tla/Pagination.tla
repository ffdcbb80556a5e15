----------------------------- MODULE Pagination -----------------------------
(***************************************************************************)
(* Cursor pagination (pagination.rs).  A cursor is an encoded offset: its  *)
(* decimal digits, with 10 for a character that is no digit; NoCursor      *)
(* stands for the absence of one, which an empty cursor is not.            *)
(***************************************************************************)
LOCAL INSTANCE Naturals
LOCAL INSTANCE Sequences
LOCAL INSTANCE SequencesExt

NoCursor == <<11>>

DefaultPageSize == 50

EncodeCursor[offset \in Nat] ==
    IF offset < 10 THEN <<offset>> ELSE Append(EncodeCursor[offset \div 10], offset % 10)

\* decode_cursor and from_cursor: no cursor is the first page, a mangled or an
\* empty one an error.
Decodes(cursor)      == cursor = NoCursor \/ (cursor # <<>> /\ \A i \in DOMAIN cursor : cursor[i] \in 0..9)
DecodeCursor(cursor) ==
    IF cursor = NoCursor THEN 0 ELSE FoldLeft(LAMBDA offset, digit : 10 * offset + digit, 0, cursor)

\* PageState::at: a page holds at least one item.
Limit(pageSize) == IF pageSize = 0 THEN 1 ELSE pageSize

\* An offset the list no longer reaches is an error, an empty list is not.
PastEnd(items, offset) == offset > 0 /\ offset >= Len(items)

\* A page boundary counted twice.
NextCursor_Skips(items, end) == IF end + 1 < Len(items) THEN EncodeCursor[end + 1] ELSE NoCursor

\* next_cursor, of the offset after this page.
NextCursor(items, end) == IF end < Len(items) THEN EncodeCursor[end] ELSE NoCursor

Paginate(items, cursor, pageSize) ==
    IF ~Decodes(cursor) \/ PastEnd(items, DecodeCursor(cursor))
    THEN [error |-> TRUE, items |-> <<>>, next |-> NoCursor]
    ELSE LET offset == DecodeCursor(cursor)
             ends   == {offset + Limit(pageSize), Len(items)}
             end    == CHOOSE e \in ends : \A f \in ends : e <= f
         IN  [error |-> FALSE, items |-> SubSeq(items, offset + 1, end),
              next  |-> NextCursor(items, end)]
=============================================================================

----------------------------- MODULE CdseReply -----------------------------
(***************************************************************************)
(* The raster of one acquisition as backend/sentinel1.py renders it: one   *)
(* request for each tile of the grid, and the checks an answer passes      *)
(* before its pixels are copied.  An answer is a TAR of the raster and of  *)
(* the metadata of its sources, and may be anything.                       *)
(***************************************************************************)
EXTENDS Integers, FiniteSets

CONSTANTS
  MaxSide,   \* MAX_SIDE_PIXELS
  MaxMosaic, \* MAX_MOSAIC_SIDE_PIXELS
  Products   \* the product ids an answer may name

ASSUME ReplyAssumption ==
  /\ MaxSide \in Nat \ {0} /\ MaxMosaic \in Nat \ {0}
  /\ IsFiniteSet(Products)

-----------------------------------------------------------------------------
(* The grid and its tiles.                                                 *)

SmallerOf(a, b) == IF a < b THEN a ELSE b
Steps(side) == (side + MaxSide - 1) \div MaxSide

\* utm_grid refuses what it cannot mosaic.
Fits(grid) == grid.height <= MaxMosaic /\ grid.width <= MaxMosaic

TileCount(grid) == Steps(grid.height) * Steps(grid.width)

\* The n-th tile, row by row.
Tile(grid, n) ==
  LET row == (n \div Steps(grid.width)) * MaxSide
      col == (n % Steps(grid.width)) * MaxSide
  IN [row |-> row, col |-> col,
      height |-> SmallerOf(MaxSide, grid.height - row),
      width |-> SmallerOf(MaxSide, grid.width - col)]

Pixels(tile) ==
  (tile.row .. tile.row + tile.height - 1)
    \X (tile.col .. tile.col + tile.width - 1)

GridPixels(grid) == (0 .. grid.height-1) \X (0 .. grid.width-1)

-----------------------------------------------------------------------------
(* The answers.                                                            *)

Member == {"whole", "truncated", "empty", "oversized", "repeated", "absent"}

Values ==
  [status |-> {200, 500}, length |-> {"absent", "exact", "wrong", "excessive"},
   encoding |-> {"identity", "gzip"}, media |-> {"tar", "other"},
   body |-> {"within", "excessive"}, tiff |-> Member, userdata |-> Member,
   padding |-> BOOLEAN, ending |-> {"eof", "none", "junk"},
   orbits |-> {"unreadable", "none", "one", "two"}, products |-> SUBSET Products,
   raster |-> {"on_grid", "off_grid", "unreadable"}]

\* What CDSE answers when all is well with a tile that has one product.
Fine(product) ==
  [status |-> 200, length |-> "exact", encoding |-> "identity",
   media |-> "tar", body |-> "within", tiff |-> "whole", userdata |-> "whole",
   padding |-> TRUE, ending |-> "eof", orbits |-> "one",
   products |-> {product}, raster |-> "on_grid"]

\* Bound: an answer is off in two ways at most.
Replies(product) ==
  UNION {{[Fine(product) EXCEPT ![a] = x, ![b] = y] :
            x \in Values[a], y \in Values[b]} :
            a \in DOMAIN Values, b \in DOMAIN Values}

\* _process_request: the answer is bounded while it is read, and read whole.
Streamed(reply) ==
  /\ reply.status = 200 /\ reply.media = "tar" /\ reply.body = "within"
  /\ reply.length # "excessive"
  /\ reply.length = "wrong" => reply.encoding # "identity"

\* _parse_tar_response: both members once, whole and within their limits, and
\* an end of archive that only a fully padded archive may lack.
Unpacked(reply) ==
  /\ reply.tiff = "whole" /\ reply.userdata = "whole"
  /\ \/ reply.ending = "eof"
     \/ reply.ending = "none" /\ reply.padding

\* _parse_userdata: one pass, and its products; that of the pinned run when it
\* is a catalogued event's.
Traced(reply, strict, product) ==
  /\ reply.orbits = "one" /\ reply.products # {}
  /\ strict => reply.products = {product}

\* _on_grid.
OnGrid(reply) == reply.raster = "on_grid"

Usable(reply, strict, product) ==
  /\ Streamed(reply) /\ Unpacked(reply)
  /\ Traced(reply, strict, product) /\ OnGrid(reply)

\* The products that the answer to a tile may name and still be used.
UsableSources ==
  [product \in Products |-> [strict \in BOOLEAN |->
     {r.products : r \in {x \in Replies(product) : Usable(x, strict, product)}}]]
=============================================================================

--------------------------- MODULE ImportArchive ----------------------------
(* What the importer admits: the preflight of a ZIP archive, the streaming of *)
(* its entries, and the structure of a PNG card.  A name is a component of a  *)
(* path, and two names that differ only in case have one folded name.         *)
EXTENDS Cases, SequencesExt, FiniteSetsExt

CONSTANTS MaxEntries,       \* limits.max_archive_entries
          MaxEntryBytes,    \* limits.max_entry_bytes
          MaxArchiveBytes,  \* limits.max_total_uncompressed_bytes
          MaxRatio,         \* limits.max_compression_ratio
          MaxPathDepth,     \* limits.max_path_depth
          MaxMetadataBytes, \* limits.max_metadata_bytes
          MaxPngChunks,     \* limits.max_png_chunks
          MaxPngMetadata    \* limits.max_png_metadata_bytes

-----------------------------------------------------------------------------
(* Paths.                                                                     *)

BadNames == {"", "..", "aux.png", "a.png ", "e+.png"}
Folded(name) == CASE name = "A.PNG" -> "a.png" [] name = "D" -> "d" [] OTHER -> name
Extension(name) ==
    CASE name \in {"a.png", "A.PNG", "b.png"} -> "asset" [] name = "m.json" -> "metadata" [] name = "x.lua" -> "executable"
      [] OTHER -> "unsupported"

PathValid(e) ==
    /\ e.slash = e.dir
    /\ e.path # <<>> /\ Len(e.path) <= MaxPathDepth
    /\ \A i \in DOMAIN e.path : e.path[i] \notin BadNames

PathKey(e) == [i \in DOMAIN e.path |-> Folded(e.path[i])]
Below(short, long) == IsStrictPrefix(short, long)
EntryKind(e) == IF e.dir THEN "directory" ELSE Extension(Last(e.path))

\* The names seen so far; "clash" once a path collides with one of them.
NoPaths == [files |-> {}, dirs |-> {}, clash |-> FALSE]
InsertUnique(seen, e) ==
    LET key == PathKey(e)
        parents == {SubSeq(key, 1, d) : d \in 1..(Len(key) - 1)}
        dirs == seen.dirs \cup parents
        clash == IF e.dir THEN key \in seen.files \cup seen.dirs
                 ELSE \/ key \in seen.files \cup seen.dirs
                      \/ parents \cap seen.files # {}
                      \/ \E known \in seen.files \cup dirs : Below(key, known)
    IN  IF clash THEN [seen EXCEPT !.clash = TRUE]
        ELSE IF e.dir THEN [seen EXCEPT !.dirs = @ \cup {key}]
        ELSE [seen EXCEPT !.files = @ \cup {key}, !.dirs = dirs]
PathsDistinct(es) == ~FoldLeft(InsertUnique, NoPaths, es).clash

-----------------------------------------------------------------------------
(* Preflight: the central directory, then each entry with its local header.   *)

RatioExceeded(e) == e.size # 0 /\ (e.packed = 0 \/ e.size > e.packed * MaxRatio)
FlagsValid(e) ==
    /\ e.flags \subseteq {"options", "utf8"}
    /\ e.method = "stored" => "options" \notin e.flags
    /\ e.method \in {"stored", "deflated"}
TypePortable(e) == e.mode \in IF e.dir THEN {"none", "dir"} ELSE {"none", "file"}

TotalSize(es) == FoldLeft(LAMBDA n, e : n + e.size, 0, es)

CentralValid(z) ==
    /\ z.diskEntries = Len(z.entries) /\ z.entries # <<>> /\ Len(z.entries) <= MaxEntries
    /\ z.centralEnd = z.eocd
    /\ \A i \in DOMAIN z.entries :
          LET e == z.entries[i]
          IN  /\ FlagsValid(e)
              /\ e.method = "stored" => e.packed = e.size
              /\ e.size <= MaxEntryBytes /\ TotalSize(SubSeq(z.entries, 1, i)) <= MaxArchiveBytes
              /\ ~RatioExceeded(e) /\ e.extra = "none" /\ PathValid(e) /\ EntryKind(e) # "unsupported"
    /\ PathsDistinct(z.entries)

DataEnd(e) == e.at + e.head + e.packed
LocalHeaderValid(e) == e.local = "same" /\ e.extra = "none"
RangesUnchecked(es) == es = <<>> \/ \E i \in DOMAIN es : es[i].at = 0
RangesDisjoint(es) ==
    /\ es = <<>> \/ \E i \in DOMAIN es : es[i].at = 0
    /\ \A i, j \in DOMAIN es : (i < j) => (DataEnd(es[i]) <= es[j].at \/ DataEnd(es[j]) <= es[i].at)

PreflightZip(z) ==
    /\ CentralValid(z)
    /\ \A i \in DOMAIN z.entries :
          LET e == z.entries[i]
          IN  /\ TypePortable(e)
              /\ e.dir => e.size = 0
              /\ DataEnd(e) <= z.central /\ LocalHeaderValid(e)
    /\ RangesDisjoint(z.entries)

-----------------------------------------------------------------------------
(* The entries are decompressed in turn; each must have the size it declared. *)

Receipt == [assets |-> <<>>, metadata |-> <<>>, quarantined |-> <<>>, total |-> 0, ok |-> TRUE]

StreamEntry(r, e) == e.real = e.size /\ e.real <= MaxEntryBytes /\ r.total + e.real <= MaxArchiveBytes

\* The metadata of an entry: the file itself, or the card texts inside a PNG.
MetadataOf(e) ==
    CASE EntryKind(e) = "metadata" -> <<<<e.path, "file">>>>
      [] EntryKind(e) = "asset" -> [i \in DOMAIN e.cards |-> <<e.path, e.cards[i]>>]
      [] OTHER -> <<>>

TakeEntry(r, e) ==
    LET took == [r EXCEPT !.metadata = @ \o MetadataOf(e), !.total = @ + e.real]
    IN  CASE EntryKind(e) = "asset" -> [took EXCEPT !.assets = Append(@, e)]
          [] EntryKind(e) = "metadata" -> took
          [] EntryKind(e) = "executable" -> [took EXCEPT !.quarantined = Append(@, e)]

\* What the content must be: a PNG that decodes, or JSON within its limit.
EntryContentValid(e) ==
    CASE EntryKind(e) = "asset" -> e.valid
      [] EntryKind(e) = "metadata" -> e.valid /\ e.real <= MaxMetadataBytes
      [] OTHER -> TRUE

ImportEntry(r, e) ==
    IF ~r.ok \/ e.dir THEN r
    ELSE IF StreamEntry(r, e) /\ EntryContentValid(e) THEN TakeEntry(r, e) ELSE [r EXCEPT !.ok = FALSE]

ImportZip(z) ==
    LET r == FoldLeft(ImportEntry, Receipt, z.entries)
    IN  IF PreflightZip(z) /\ r.ok THEN Ok(r) ELSE Err
-----------------------------------------------------------------------------
(* PNG: the chunks in order.  ">" in a chunk's text is the zero byte that ends *)
(* its keyword.                                                               *)

FreshPng == [n |-> 0, meta |-> 0, ihdr |-> FALSE, plte |-> FALSE, idat |-> FALSE, idatEnded |-> FALSE, iend |-> FALSE,
             cards |-> <<>>, ok |-> TRUE]
Ancillary == {"tEXt", "iTXt", "gAMA", "iCCP", "acTL", "fdAT"}
Keyworded(c) == c.keyword # ""
Cards == {"chara", "ccv3"}

ChunkAllowed(p, c) ==
    CASE c.type = "IHDR" -> p.n = 0 /\ ~p.ihdr /\ c.valid
      [] c.type = "PLTE" -> p.ihdr /\ ~p.idat /\ ~p.plte /\ c.valid
      [] c.type = "IDAT" -> p.ihdr /\ ~p.idatEnded
      [] c.type = "IEND" -> p.ihdr /\ p.idat /\ c.length = 0
      [] c.type \in {"tEXt", "iTXt"} -> Keyworded(c) /\ c.valid
      [] c.type \in {"iCCP", "acTL", "fdAT"} -> FALSE
      [] OTHER -> c.type \in Ancillary

IdatEnds(p, c) == p.idatEnded \/ (p.idat /\ c.type # "IDAT")
PngChunk(p, c) ==
    LET meta == IF c.type \in Ancillary THEN p.meta + c.length ELSE p.meta
    IN  IF ~p.ok THEN p
        ELSE IF p.iend \/ p.n = MaxPngChunks \/ meta > MaxPngMetadata \/ ~c.crc \/ ~ChunkAllowed(p, c)
        THEN [p EXCEPT !.ok = FALSE]
        ELSE [p EXCEPT !.n = @ + 1, !.meta = meta, !.ihdr = @ \/ c.type = "IHDR", !.plte = @ \/ c.type = "PLTE",
                       !.idat = @ \/ c.type = "IDAT", !.iend = c.type = "IEND",
                       !.idatEnded = IdatEnds(p, c),
                       !.cards = IF c.type \in {"tEXt", "iTXt"} /\ c.keyword \in Cards THEN Append(@, c) ELSE @]

\* decode_png: the png crate decodes the image within its own limit (external).
ValidatePng(f) ==
    LET p == FoldLeft(PngChunk, FreshPng, f.chunks)
    IN  IF p.ok /\ p.iend /\ f.decodes THEN Ok(p.cards) ELSE Err

-----------------------------------------------------------------------------
(* In an archive that is admitted no two entries have one name on a file system *)
(* that ignores case, and no file is where another file, or a directory listed   *)
(* before it, needs a directory.  A directory listed after such a file passes:   *)
(* only a file looks at its parents.                                             *)
PathsAreUnambiguous ==
    (Answered("archive") /\ case.out.ok) =>
        LET es == case.in.entries
        IN  \A i, j \in DOMAIN es : i # j =>
              /\ PathKey(es[i]) # PathKey(es[j])
              /\ (~es[i].dir /\ (~es[j].dir \/ j < i)) => ~Below(PathKey(es[i]), PathKey(es[j]))

(* What comes out of an admitted archive is at most MaxRatio times its bytes:   *)
(* the ratio of each entry bounds the whole because no byte of the file is      *)
(* packed data of two entries, and each entry is as long as it says.            *)
NoAmplification ==
    (Answered("archive") /\ case.out.ok) =>
        /\ FoldLeft(LAMBDA n, e : n + e.real, 0, SelectSeq(case.in.entries, LAMBDA e : ~e.dir))
              <= MaxRatio * case.in.central
        /\ case.out.v.total <= MaxArchiveBytes

(* The receipt of an admitted archive accounts for every file of it once, in    *)
(* the archive's order, and code is quarantined, never stored as an asset.      *)
ReceiptAccountsForAll ==
    (Answered("archive") /\ case.out.ok) =>
        LET r == case.out.v
            Of(kind) == SelectSeq(case.in.entries, LAMBDA e : EntryKind(e) = kind)
        IN  /\ r.assets = Of("asset") /\ r.quarantined = Of("executable")
            /\ r.metadata = FlattenSeq([i \in DOMAIN case.in.entries |-> MetadataOf(case.in.entries[i])])

(* A PNG that is admitted is IHDR, then the rest with its image data in one run *)
(* of chunks, and IEND last; its card texts are reported, in order.             *)
PngIsWellFormed ==
    (Answered("png") /\ case.out.ok) =>
        LET cs == case.in.chunks
            data == {i \in DOMAIN cs : cs[i].type = "IDAT"}
        IN  /\ data # {} /\ data = Min(data)..Max(data)
            /\ \A i \in DOMAIN cs : (cs[i].type = "IHDR") = (i = 1) /\ (cs[i].type = "IEND") = (i = Len(cs))
            /\ case.out.v = SelectSeq(cs, LAMBDA c : c.type \in {"tEXt", "iTXt"} /\ c.keyword \in Cards)

\* An admitted archive has unambiguous paths and disjoint data, its receipt accounts for
\* every entry and its PNG cards are well formed.
ArchiveIsSound ==
    /\ PathsAreUnambiguous
    /\ NoAmplification
    /\ ReceiptAccountsForAll
    /\ PngIsWellFormed

=============================================================================

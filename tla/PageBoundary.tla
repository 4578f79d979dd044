---------------------------- MODULE PageBoundary ----------------------------
(***************************************************************************)
(* The page-boundary analysis of src/tools/pagesize_debug.py: where the   *)
(* 32-byte descriptor prefetch of an OHCI controller falls for a ring of  *)
(* descriptors laid out contiguously (analyze_descriptor_ring) or with    *)
(* the last bytes of every page left unused (analyze_padded_layout).      *)
(* Both are pure functions of the command-line numbers; an index the code *)
(* leaves as None is -1 here.  The printing (print_analysis,              *)
(* print_recommendations, the sweep tables) is left out.                  *)
(***************************************************************************)
EXTENDS Integers, Sequences, Bitwise

DEFAULT_PAGE_SIZE == 4096
OHCI_FETCH_SIZE == 32

(* get_danger_zone_start: the last OHCI_FETCH_SIZE bytes of a page.        *)
get_danger_zone_start(pageSize) == pageSize - OHCI_FETCH_SIZE

(* int.bit_length()                                                        *)
RECURSIVE BitLength(_)
BitLength(n) == IF n = 0 THEN 0 ELSE 1 + BitLength(n \div 2)

(* Mutation: page_shift taken as bit_length() without the - 1.            *)
DescriptorInfoShiftOff(i, descSize, blocksPerPacket, base, pageSize) ==
  LET iova == base + i * descSize
      shift == 2 ^ BitLength(pageSize)
  IN  [index |-> i, iova |-> iova,
       pageOffset |-> iova & (pageSize - 1),
       pageNumber |-> iova \div shift,
       isUnsafe |-> (iova & (pageSize - 1)) >= get_danger_zone_start(pageSize),
       crossesPage |-> (iova + OHCI_FETCH_SIZE - 1) \div shift # iova \div shift,
       packetIndex |-> i \div blocksPerPacket,
       blockWithinPacket |-> i % blocksPerPacket]

(* The DescriptorInfo of descriptor i: page offset by the mask, page       *)
(* number by the shift log2(page_size), the prefetch's page crossing and   *)
(* the danger-zone verdict.                                                *)
DescriptorInfo(i, descSize, blocksPerPacket, base, pageSize) ==
  LET iova == base + i * descSize
      shift == 2 ^ (BitLength(pageSize) - 1)
      pageNumber == iova \div shift
  IN  [index |-> i, iova |-> iova,
       pageOffset |-> iova & (pageSize - 1),
       pageNumber |-> pageNumber,
       isUnsafe |-> (iova & (pageSize - 1)) >= get_danger_zone_start(pageSize),
       crossesPage |-> (iova + OHCI_FETCH_SIZE - 1) \div shift # pageNumber,
       packetIndex |-> i \div blocksPerPacket,
       blockWithinPacket |-> i % blocksPerPacket]

(* analyze_descriptor_ring: every descriptor's info, the unsafe and the    *)
(* page-crossing ones (as index sets; the code keeps them in index order), *)
(* the first unsafe index, and max_safe_descriptors, the count before it. *)
analyze_descriptor_ring(n, descSize, blocksPerPacket, base, pageSize) ==
  LET all == [i \in 0 .. n - 1 |->
                DescriptorInfo(i, descSize, blocksPerPacket, base, pageSize)]
      unsafe == {i \in 0 .. n - 1 : all[i].isUnsafe}
      firstUnsafe == IF unsafe = {} THEN -1
                     ELSE CHOOSE i \in unsafe : \A j \in unsafe : i <= j
      totalBytes == n * descSize
  IN  [all |-> all, unsafe |-> unsafe,
       crossing |-> {i \in 0 .. n - 1 : all[i].crossesPage},
       firstUnsafe |-> firstUnsafe,
       maxSafe |-> IF firstUnsafe = -1 THEN n ELSE firstUnsafe,
       totalBytes |-> totalBytes,
       pagesSpanned |-> (totalBytes + pageSize - 1) \div pageSize]

(* analyze_padded_layout: usable_per_page bytes of every page hold          *)
(* descriptors; page p starts at base + p * page_size and holds the next  *)
(* min(remaining, per page); all_safe when no page's last descriptor       *)
(* offset, measured from the page's start, is in the danger zone.         *)
analyze_padded_layout(n, descSize, blocksPerPacket, base, padding, pageSize) ==
  LET usable == pageSize - padding
      perPage == usable \div descSize
      totalPages == (n + perPage - 1) \div perPage
      count(p) == IF n - p * perPage < perPage THEN n - p * perPage ELSE perPage
      pages == [p \in 0 .. totalPages - 1 |->
                 [pageNumber |-> p, startIova |-> base + p * pageSize,
                  firstDescriptorIndex |-> p * perPage,
                  descriptorCount |-> count(p),
                  lastDescriptorOffset |->
                    IF count(p) > 0 THEN (count(p) - 1) * descSize ELSE 0]]
  IN  IF perPage <= 0
        THEN [perPage |-> 0, totalPages |-> 0, pages |-> << >>,
              allocated |-> 0, wasted |-> 0, allSafe |-> FALSE]
        ELSE [perPage |-> perPage, totalPages |-> totalPages, pages |-> pages,
              allocated |-> totalPages * pageSize,
              wasted |-> totalPages * pageSize - n * descSize,
              allSafe |-> \A p \in DOMAIN pages :
                            pages[p].lastDescriptorOffset
                              < get_danger_zone_start(pageSize)]

(* Whether a prefetch of OHCI_FETCH_SIZE bytes at iova leaves its page.    *)
FetchCrossesPage(iova, pageSize) ==
  iova \div pageSize # (iova + OHCI_FETCH_SIZE - 1) \div pageSize
=============================================================================

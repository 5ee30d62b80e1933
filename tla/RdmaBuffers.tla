---------------------------- MODULE RdmaBuffers ----------------------------
(***************************************************************************)
(* The memory of a RecoNIC program (lib/reconic.c): buffers carved out of  *)
(* the hugepages and out of the device memory by two bump allocators, and  *)
(* the windows of the PCIe bridge through which the card reaches the host  *)
(* buffers.  Sizes are in units small enough that a page has a few.        *)
(***************************************************************************)
EXTENDS Naturals, FiniteSets

CONSTANTS
    PageSize,       \* HARDWARE_PAGE_SIZE
    HugePage,       \* 1 << HUGE_PAGE_SHIFT
    Hugepages,      \* num_hugepages_request
    DeviceMemSize,  \* DEVICE_MEM_SIZE
    WindowSize,     \* (AXI_BAR_SIZE >> 3) + 1
    Frames,         \* physical addresses at which a hugepage may lie
    DataSizes,      \* sizes of the program's own buffers
    MaxBuffers      \* bound: buffers of the program

ASSUME BufferAssumption ==
    /\ {PageSize, HugePage, Hugepages, WindowSize} \subseteq Nat \ {0}
    /\ HugePage % PageSize = 0 /\ (8 * WindowSize) % HugePage = 0
    /\ DeviceMemSize \in Nat /\ MaxBuffers \in Nat
    /\ Frames \subseteq {f \in Nat : f % HugePage = 0}
    /\ DataSizes \subseteq Nat \ {0}

Locations == {"host_mem", "dev_mem"}

VARIABLES
    buffer_offset,     \* of the next buffer, by location: buffer_offset and
                       \* dev_buffer_offset of struct rn_dev_t
    buffers,           \* the buffers handed out
    frames,            \* the physical address of each hugepage
    bdf                \* the translation address of each window

bufVars == <<buffer_offset, buffers, frames, bdf>>

-----------------------------------------------------------------------------
(***************************************************************************)
(* Addresses                                                               *)
(***************************************************************************)
BarSize == 8 * WindowSize           \* AXI_BAR_SIZE + 1

\* get_buffer_paddr(), of an offset into the hugepages
Paddr(fr, offset) == fr[offset \div HugePage] + (offset % HugePage)

\* The address that is programmed into the card: that of a device buffer as it
\* is, that of a host buffer masked with the window size.
BusAddr(address) == address % BarSize

\* config_rn_dev_axib_bdf()
BdfAllSame(base) == [i \in 0 .. 7 |-> base - (base % BarSize)]         \* (mutant)
Bdf(base) == [i \in 0 .. 7 |-> (base - (base % BarSize)) + i * WindowSize]

\* What the bridge (external) makes of an address of the card
Bridge(bus) == bdf[bus \div WindowSize] + (bus % WindowSize)

-----------------------------------------------------------------------------
(***************************************************************************)
(* create_rn_dev() and allocate_rdma_buffer()                              *)
(***************************************************************************)
create_rn_dev ==
    /\ buffer_offset = [l \in Locations |-> 0]
    /\ buffers = {}
    /\ frames \in {f \in [0 .. Hugepages - 1 -> Frames] :
                      \A i, j \in DOMAIN f : i # j => f[i] # f[j]}
    /\ bdf = Bdf(Paddr(frames, 0))

NextPage(offset) == ((offset + PageSize) \div PageSize) * PageSize

\* A buffer of at most a page does not straddle a page boundary, a larger one
\* begins at one.
Place(offset, size) ==
    IF \/ size <= PageSize /\ (offset % PageSize) + size > PageSize
       \/ size > PageSize /\ offset % PageSize # 0
    THEN NextPage(offset)
    ELSE offset

\* The device memory is checked by an assertion; of the hugepages the library
\* does not know the size, it is the program that asked for enough.
HasRoom(offset, size, loc) ==
    Place(offset, size) + size <= IF loc = "host_mem" THEN Hugepages * HugePage
                                  ELSE DeviceMemSize

Buffer(loc, offset, size) == [loc |-> loc, at |-> offset, size |-> size]

allocate_rdma_buffer(size, loc) ==
    LET at == Place(buffer_offset[loc], size) IN
    /\ HasRoom(buffer_offset[loc], size, loc)
    /\ buffer_offset' = [buffer_offset EXCEPT ![loc] = at + size]
    /\ buffers' = buffers \cup {Buffer(loc, at, size)}

-----------------------------------------------------------------------------
(***************************************************************************)
(* No two buffers overlap, and none that fits in a page crosses into the   *)
(* next: the card works with one page at a time.                           *)
(***************************************************************************)
BuffersPlaced ==
    /\ \A b, c \in buffers :
          b # c /\ b.loc = c.loc => b.at + b.size <= c.at \/ c.at + c.size <= b.at
    /\ \A b \in buffers :
          b.size <= PageSize => b.at \div PageSize = (b.at + b.size - 1) \div PageSize

(***************************************************************************)
(* Through the bridge the card reaches every byte of a host buffer at the  *)
(* address it was given, across window boundaries, as long as the byte is  *)
(* in the hugepage in which the buffer begins and that hugepage lies in    *)
(* the same stretch of AXI_BAR_SIZE as the first one.                      *)
(***************************************************************************)
BusReachesBuffer ==
    \A b \in buffers, k \in 0 .. HugePage - 1 :
        LET start == Paddr(frames, b.at) IN
        /\ b.loc = "host_mem" /\ k < b.size
        /\ (b.at + k) \div HugePage = b.at \div HugePage
        /\ start \div BarSize = Paddr(frames, 0) \div BarSize
        => Bridge(BusAddr(start) + k) = Paddr(frames, b.at + k)

\* The program and the card agree on every buffer: none overlaps another or straddles a page
\* it could fit in, and the card reaches its bytes at the address it was given.
BuffersSound == BuffersPlaced /\ BusReachesBuffer
=============================================================================

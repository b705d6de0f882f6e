------------------------------ MODULE DiskPlan ------------------------------
(***************************************************************************)
(* How the installer divides a disk: the sizes computed by make_partitions *)
(* of partition.c, all in MiB.  The swap space is a file on the root       *)
(* partition; what is not root is /var/log (on a flash disk               *)
(* /var/log_compressed).                                                   *)
(***************************************************************************)
EXTENDS Integers

DISK_MINIMUM == 480
ROOT_MINIMUM == 256
ROOT_MAXIMUM == 512
SWAP_MINIMUM == 32
SWAP_MAXIMUM == 64
LOGCOMPRESSED == 64

\* What the option swap= may ask for; -1 stands for no (valid) wish.
SwapWishes == {-1, 0} \cup SWAP_MINIMUM .. SWAP_MAXIMUM

AtMost(limit, n) == IF n > limit THEN limit ELSE n

\* A quarter as C divides: towards zero.
Quarter(n) == IF n >= 0 THEN n \div 4 ELSE -((-n) \div 4)

\* The disk is taken to be 5 MiB smaller, unless the user has given its size.
UsableSize(size, userSize) == IF userSize THEN size ELSE size - 5

Wished(disk, wish) ==
    IF wish # -1 /\ ROOT_MINIMUM + wish >= disk THEN -1 ELSE wish

\* What is left of the disk once everything has its least size.  As it stands
\* in the code the sum of the least sizes is DISK_MINIMUM, whatever the swap.
Free(disk) == disk - DISK_MINIMUM

SwapSize(disk, wish) ==
    IF Wished(disk, wish) = -1
    THEN AtMost(SWAP_MAXIMUM, SWAP_MINIMUM + Quarter(Free(disk)))
    ELSE wish

RootSize(disk, wish) ==
    AtMost(ROOT_MAXIMUM, ROOT_MINIMUM + Quarter(Free(disk))) + SwapSize(disk, wish)

\* The plan for a target, a size found on the disk or given, and a wish.
Plan(flash, size, userSize, wish) ==
    LET disk == UsableSize(size, userSize)
        root == IF flash THEN disk - LOGCOMPRESSED ELSE RootSize(disk, wish)
    IN  [disk |-> disk, root |-> root, log |-> disk - root,
         swap |-> IF flash THEN 0 ELSE SwapSize(disk, wish)]

\* A plan can be carried out on a disk of that size: the partitions are not
\* larger than the disk, the swap file leaves the root partition its least
\* size but for the MiB lost by rounding, and there is room for the logs.
Fits(plan, size) ==
    /\ plan.disk <= size
    /\ plan.root + plan.log = plan.disk
    /\ plan.root - plan.swap >= ROOT_MINIMUM - 1
    /\ plan.log >= LOGCOMPRESSED
    /\ plan.swap >= 0
=============================================================================

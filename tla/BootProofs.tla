----------------------------- MODULE BootProofs -----------------------------
(***************************************************************************)
(* Proofs about the boot.                                                  *)
(*                                                                         *)
(* The two transfers: with a disk that has its next sector ready as soon   *)
(* as the last one has been read (Prompt), the loader and the kernel that  *)
(* run are those of the disk, for every number of sectors that fits the    *)
(* sector count and every sector size.  Without that hypothesis it is      *)
(* false: BootSlowDisk.cfg.  While words are read, the sector and the word *)
(* the controller is at tell how many have been stored, so the counter in  *)
(* cx runs out with the last word of the last sector and not before.       *)
(*                                                                         *)
(* The memory map: what init_memory has added up after i entries is no     *)
(* less than the usable memory among the first i ranges, if the table      *)
(* holds them all, and no more, if the end of the map is marked.           *)
(***************************************************************************)
EXTENDS Boot, NaturalOrder, TLAPS

\* The word of an image is <<sector, index>>.
Disk == [state : {"idle", "busy", "drq", "error"}, sector : Int, word : Int, left : Int]

\* The command has been given, no word has been read.
Asked(lba, sectors) ==
  /\ disk.state \in {"busy", "drq", "error"}
  /\ disk.sector = lba /\ disk.word = 1 /\ disk.left = sectors
  /\ image = <<>> /\ counter = sectors * Words

\* The words of the sectors from lba on, in their places.
InPlace(lba, words) ==
  \A w \in 1 .. Len(words) : words[w] = <<lba + (w - 1) \div Words, ((w - 1) % Words) + 1>>

\* A word is ready, and it is the one that is due.
Sending(lba, sectors) ==
  /\ disk.state = "drq"
  /\ disk.sector \in lba .. lba + sectors - 1 /\ disk.word \in 1 .. Words
  /\ disk.left = lba + sectors - disk.sector
  /\ image \in Seq(Int \X Int)
  /\ Len(image) = (disk.sector - lba) * Words + (disk.word - 1)
  /\ counter = sectors * Words - Len(image)
  /\ InPlace(lba, image)

Transfers ==
  /\ pc = "boot" => disk = Idle
  /\ pc = "wait_loader" => Asked(LoaderLba, LoaderSectors)
  /\ pc = "read_loader" => Sending(LoaderLba, LoaderSectors)
  /\ pc \in {"memory", "video", "switch", "paused", "overwritten", "load"}
       => disk = Idle /\ image = Sectors(LoaderLba, LoaderSectors)
  /\ pc = "wait_kernel" => Asked(KernelLba, KernelSectors)
  /\ pc = "read_kernel" => Sending(KernelLba, KernelSectors)
  /\ pc \in {"sum", "done"} => disk = Idle /\ image = Sectors(KernelLba, KernelSectors)

Stages == {"boot", "wait_loader", "read_loader", "memory", "video", "switch", "paused",
           "overwritten", "load", "wait_kernel", "read_kernel", "sum", "done"}

ImageInv == pc \in Stages /\ disk \in Disk /\ Transfers

-----------------------------------------------------------------------------
(* Places in an image. *)

LEMMA Product == ASSUME NEW W \in Nat \ {0}, NEW p \in Int, NEW q \in Int, p < q
                 PROVE  p * W + W <= q * W
<1>1. (q - p - 1) * W >= 0
  OBVIOUS
<1> QED
  BY <1>1

LEMMA Place ==
  ASSUME NEW W \in Nat \ {0}, NEW q \in Nat, NEW r \in 0 .. W - 1
  PROVE  (q * W + r) \div W = q /\ (q * W + r) % W = r
<1> DEFINE x == q * W + r
           d == x \div W
           m == x % W
<1>1. x \in Nat /\ d \in Int /\ m \in 0 .. W - 1 /\ x = W * d + m
  OBVIOUS
<1> HIDE DEF d, m
<1>2. d * W + m = q * W + r
  BY <1>1
<1>3. ~(d < q)
  BY <1>1, <1>2, Product
<1>4. ~(q < d)
  BY <1>1, <1>2, Product
<1>5. d = q
  BY <1>1, <1>3, <1>4
<1>6. m = r
  BY <1>1, <1>2, <1>5
<1> QED
  BY <1>5, <1>6 DEF d, m

-----------------------------------------------------------------------------
(* The transfer, one word at a time. *)

LEMMA Stored ==
  ASSUME NEW lba \in Int, NEW sectors \in Nat, Sending(lba, sectors),
         image' = Append(image, <<disk.sector, disk.word>>)
  PROVE  /\ image' \in Seq(Int \X Int)
         /\ Len(image') = (disk.sector - lba) * Words + disk.word
         /\ InPlace(lba, image')
<1> DEFINE q == disk.sector - lba
           r == disk.word - 1
           n == Len(image)
<1>1. /\ image \in Seq(Int \X Int)
      /\ disk.sector \in lba .. lba + sectors - 1 /\ disk.word \in 1 .. Words
      /\ n = q * Words + r
  BY DEF Sending
<1>0. \A w \in 1 .. n : image[w] = <<lba + (w - 1) \div Words, ((w - 1) % Words) + 1>>
  BY DEF Sending, InPlace
<1>2. Words \in Nat \ {0}
  BY WordsAssumption
<1>3. q \in Nat /\ r \in 0 .. Words - 1 /\ disk.sector \in Int /\ disk.word \in Int
  <2>1. disk.sector \in lba .. lba + sectors - 1 /\ disk.word \in 1 .. Words
    BY <1>1
  <2> QED
    BY <2>1, <1>2
<1>4. n \div Words = q /\ n % Words = r
  <2>1. n = q * Words + r
    BY <1>1
  <2> HIDE DEF n, q, r
  <2> QED
    BY <2>1, <1>2, <1>3, Place
<1>5. <<disk.sector, disk.word>> \in Int \X Int
  BY <1>3
<1>6. image' \in Seq(Int \X Int)
  BY <1>1, <1>5
<1>7. n \in Nat
  BY <1>1
<1>8. Len(image') = n + 1
  BY <1>1, <1>5
<1>9. \A w \in 1 .. n : image'[w] = image[w]
  BY <1>1, <1>5
<1>10. image'[n + 1] = <<disk.sector, disk.word>>
  BY <1>1, <1>5
<1> HIDE DEF n
<1>11. Len(image') = q * Words + disk.word
  <2>1. q * Words \in Int
    BY <1>3, <1>2
  <2> QED
    <3> DEFINE qw == q * Words
    <3>1. n = qw + (disk.word - 1) /\ Len(image') = n + 1 /\ qw \in Int
      BY <1>1, <1>8, <2>1
    <3> HIDE DEF qw, n
    <3>2. Len(image') = qw + disk.word
      BY <3>1, <1>3
    <3> QED
      BY <3>2 DEF qw
<1>12. ASSUME NEW w \in 1 .. Len(image')
       PROVE  image'[w] = <<lba + (w - 1) \div Words, ((w - 1) % Words) + 1>>
  <2>1. CASE w \in 1 .. n
    BY <2>1, <1>0, <1>9
  <2>2. CASE w = n + 1
    <3>1. w - 1 = n
      BY <2>2, <1>7
    <3>2. (w - 1) \div Words = q /\ (w - 1) % Words = r
      BY <3>1, <1>4
    <3>3. lba + q = disk.sector /\ r + 1 = disk.word
      BY <1>3
    <3> QED
      BY <3>2, <3>3, <1>10, <2>2
  <2> QED
    BY <2>1, <2>2, <1>7, <1>8
<1> QED
  BY <1>6, <1>11, <1>12 DEF InPlace

LEMMA WholeImage ==
  ASSUME NEW lba, NEW sectors, NEW words \in Seq(Int \X Int),
         Len(words) = sectors * Words,
         InPlace(lba, words)
  PROVE  words = Sectors(lba, sectors)
<1>1. words = [w \in 1 .. Len(words) |-> words[w]]
  OBVIOUS
<1> QED
  BY <1>1 DEF Sectors, InPlace

\* What one read of the data port leaves behind.
Received(lba, sectors) ==
  IF counter = 0 THEN disk = Idle /\ image = Sectors(lba, sectors) ELSE Sending(lba, sectors)

LEMMA WordRead ==
  ASSUME NEW lba \in Int, NEW sectors \in 1 .. 255, Prompt = TRUE, disk \in Disk,
         Sending(lba, sectors),
         image' = Append(image, <<disk.sector, disk.word>>), disk' = AfterWord,
         counter' = counter - 1
  PROVE  disk' \in Disk /\ Received(lba, sectors)'
<1> DEFINE q == disk.sector - lba
           m == Len(image')
<1>1. /\ image' \in Seq(Int \X Int)
      /\ m = q * Words + disk.word
  BY Stored
<1>0. InPlace(lba, image')
  BY Stored
<1>2. Words \in Nat \ {0}
  BY WordsAssumption
<1>3. /\ disk.state = "drq"
      /\ disk.sector \in lba .. lba + sectors - 1 /\ disk.word \in 1 .. Words
      /\ disk.left = lba + sectors - disk.sector
  BY DEF Sending
<1>4. q \in Nat /\ q < sectors /\ disk.left = sectors - q /\ m \in Nat
  BY <1>1, <1>3, SMTT(30)
<1>5. counter' = sectors * Words - m
  <2>1. counter = sectors * Words - Len(image) /\ Len(image) = q * Words + (disk.word - 1)
    BY DEF Sending
  <2>2. q * Words \in Int /\ sectors * Words \in Int
    BY <1>2, <1>4
  <2> DEFINE qw == q * Words
             sw == sectors * Words
  <2>3. disk.word \in Int /\ qw \in Int /\ sw \in Int
    BY <2>2, <1>2, <1>3
  <2>4. counter = sw - (qw + (disk.word - 1)) /\ m = qw + disk.word
    BY <2>1, <1>1
  <2> HIDE DEF qw, sw
  <2>5. counter' = sw - m
    BY <2>3, <2>4
  <2> QED
    BY <2>5 DEF sw
<1>6. q * Words + Words <= sectors * Words
  <2>1. q \in Int /\ sectors \in Int /\ q < sectors
    BY <1>4
  <2> HIDE DEF q
  <2> QED
    BY <2>1, <1>2, Product
<1>10. q * Words \in Int /\ sectors * Words \in Int
  BY <1>2, <1>4
<1>11. disk.word \in Int /\ disk.sector \in Int /\ disk.left \in Int
  BY DEF Disk
<1> HIDE DEF m
<1>7. CASE disk.word < Words
  <2>1. disk' = [disk EXCEPT !.word = disk.word + 1]
    BY <1>7 DEF AfterWord
  <2>2. /\ disk'.state = "drq" /\ disk'.sector = disk.sector /\ disk'.word = disk.word + 1
        /\ disk'.left = disk.left
    BY <2>1, <1>3 DEF Disk
  <2>3. disk' \in Disk
    <3>1. disk'.state \in {"idle", "busy", "drq", "error"} /\ disk'.word \in Int
      BY <2>2, <1>11
    <3> QED
      BY <2>1, <3>1, <1>11 DEF Disk
  <2>4. counter' # 0
    <3> DEFINE qw == q * Words
               sw == sectors * Words
    <3>1. m = qw + disk.word /\ counter' = sw - m /\ qw + Words <= sw
      BY <1>1, <1>5, <1>6
    <3>2. qw \in Int /\ sw \in Int
      BY <1>10
    <3> HIDE DEF qw, sw
    <3> QED
      BY <3>1, <3>2, <1>2, <1>11, <1>7
  <2>5. m = (disk'.sector - lba) * Words + (disk'.word - 1)
    <3>1. q * Words \in Int /\ disk'.word - 1 = disk.word
      BY <1>10, <1>11, <2>2
    <3> QED
      BY <3>1, <2>2, <1>1
  <2>6. Sending(lba, sectors)'
    <3>1. disk'.word \in 1 .. Words
      BY <1>2, <1>3, <1>7, <1>11, <2>2
    <3>2. disk'.sector \in lba .. lba + sectors - 1 /\ disk'.left = lba + sectors - disk'.sector
      BY <1>3, <2>2
    <3>3. disk'.state = "drq"
      BY <2>2
    <3> QED
      BY <3>1, <3>2, <3>3, <1>0, <1>1, <1>5, <2>5 DEF Sending, m
  <2> QED
    BY <2>3, <2>4, <2>6 DEF Received
<1>8. CASE disk.word = Words /\ disk.left = 1
  <2>1. disk' = Idle
    BY <1>8, <1>2 DEF AfterWord
  <2>2. q = sectors - 1
    BY <1>4, <1>8
  <2>3. q * Words + Words = sectors * Words
    <3>1. (sectors - 1) * Words + Words = sectors * Words
      BY <1>2
    <3> QED
      BY <2>2, <3>1
  <2>4. m = sectors * Words
    BY <2>3, <1>1, <1>8
  <2>5. counter' = 0
    <3> DEFINE sw == sectors * Words
    <3>1. counter' = sw - m /\ m = sw /\ sw \in Int
      BY <2>4, <1>5, <1>10
    <3> HIDE DEF sw
    <3>2. sw - m = 0
      BY <3>1
    <3> QED
      BY <3>1, <3>2
  <2>6. image' = Sectors(lba, sectors)
    <3>1. Len(image') = sectors * Words
      BY <2>4 DEF m
    <3> QED
      BY <3>1, <1>0, <1>1, WholeImage
  <2>7. Idle \in Disk /\ Idle' = Idle /\ Sectors(lba, sectors)' = Sectors(lba, sectors)
    BY DEF Idle, Disk, Sectors
  <2> QED
    BY <2>1, <2>5, <2>6, <2>7 DEF Received
<1>9. CASE disk.word = Words /\ disk.left # 1
  <2>1. disk' = [state |-> "drq", sector |-> disk.sector + 1, word |-> 1, left |-> disk.left - 1]
    BY <1>9, <1>2 DEF AfterWord
  <2>2. /\ disk'.state = "drq" /\ disk'.sector = disk.sector + 1 /\ disk'.word = 1
        /\ disk'.left = disk.left - 1
    BY <2>1
  <2>3. disk' \in Disk
    BY <2>1, <1>3 DEF Disk
  <2>4. q + 1 \in Nat /\ q + 1 < sectors /\ disk'.sector - lba = q + 1
    <3>1. disk'.sector - lba = q + 1
      BY <2>2, <1>11
    <3>2. q \in Nat /\ q < sectors /\ sectors - q # 1
      BY <1>4, <1>9
    <3> HIDE DEF q
    <3> QED
      BY <3>1, <3>2
  <2>5. (q + 1) * Words + Words <= sectors * Words
    BY <2>4, <1>2, Product
  <2>6. (q + 1) * Words = q * Words + Words /\ q * Words \in Int /\ sectors * Words \in Int
    BY <1>2, <1>4
  <2>7. m = (q + 1) * Words
    BY <2>6, <1>1, <1>9
  <2>8. counter' # 0
    BY <2>5, <2>6, <2>7, <1>2, <1>5
  <2>9. m = (disk'.sector - lba) * Words + (disk'.word - 1)
    BY <2>2, <2>4, <2>6, <2>7, <1>2
  <2>10. disk'.sector \in lba .. lba + sectors - 1 /\ disk'.left = lba + sectors - disk'.sector
    <3>1. disk.sector - lba + 1 < sectors
      BY <2>4
    <3> QED
      BY <3>1, <2>2, <1>3, <1>11, SMTT(30)
  <2>11. Sending(lba, sectors)'
    <3>1. disk'.word \in 1 .. Words /\ disk'.state = "drq"
      BY <2>2, <1>2
    <3> QED
      BY <3>1, <1>0, <1>1, <1>5, <2>9, <2>10 DEF Sending, m
  <2> QED
    BY <2>3, <2>8, <2>11 DEF Received
<1> QED
  BY <1>2, <1>3, <1>7, <1>8, <1>9

-----------------------------------------------------------------------------
(* The steps of the boot. *)

LEMMA Ordered ==
  ASSUME NEW lba \in {1, 20}, NEW sectors \in 1 .. 255, NEW from, NEW to,
         Command(lba, sectors, from, to)
  PROVE  disk' \in Disk /\ Asked(lba, sectors)'
<1>1. Addressed(LbaPorts(lba)) = lba
  BY DEF Addressed, LbaPorts
<1>2. sectors % 256 = sectors
  OBVIOUS
<1>3. disk' = [state |-> "busy", sector |-> lba, word |-> 1, left |-> sectors]
  BY <1>1, <1>2 DEF Command
<1> QED
  BY <1>3 DEF Command, Asked, Disk

LEMMA Begun ==
  ASSUME NEW lba \in {1, 20}, NEW sectors \in 1 .. 255, NEW from, NEW to,
         Asked(lba, sectors), disk \in Disk, NotReady(from, to)
  PROVE  disk' \in Disk /\ Sending(lba, sectors)'
<1>1. disk.state = "drq" /\ disk' = disk /\ image' = image /\ counter' = counter
  BY DEF NotReady, diskVars
<1>2. /\ disk.sector = lba /\ disk.word = 1 /\ disk.left = sectors
      /\ image = <<>> /\ counter = sectors * Words
  BY DEF Asked
<1>3. Words \in Nat \ {0} /\ sectors * Words \in Int
  BY WordsAssumption
<1>4. image \in Seq(Int \X Int) /\ Len(image) = 0
  BY <1>2
<1>5. (disk.sector - lba) * Words + (disk.word - 1) = 0
  <2>1. lba - lba = 0 /\ 1 - 1 = 0 /\ 0 * Words + 0 = 0
    BY <1>3
  <2> QED
    BY <1>2, <2>1
<1>6. InPlace(lba, image)
  BY <1>4 DEF InPlace
<1>7. counter = sectors * Words - Len(image)
  BY <1>2, <1>3, <1>4
<1>8. disk.sector \in lba .. lba + sectors - 1 /\ disk.left = lba + sectors - disk.sector
  BY <1>2
<1>9. disk.word \in 1 .. Words
  BY <1>2, <1>3
<1>10. Sending(lba, sectors)
  BY <1>1, <1>4, <1>5, <1>6, <1>7, <1>8, <1>9 DEF Sending
<1> QED
  BY <1>1, <1>10 DEF Sending

LEMMA ReadOn ==
  ASSUME NEW lba \in {1, 20}, NEW sectors \in 1 .. 255, NEW from, NEW to, Prompt = TRUE,
         Sending(lba, sectors), disk \in Disk, GoOnRead(from, to)
  PROVE  /\ disk' \in Disk /\ Received(lba, sectors)'
         /\ pc' = IF counter' = 0 THEN to ELSE from
<1>1. disk.state = "drq"
  BY DEF Sending
<1>2. /\ image' = Append(image, <<disk.sector, disk.word>>) /\ disk' = AfterWord
      /\ counter' = counter - 1 /\ pc' = IF counter' = 0 THEN to ELSE from
  BY <1>1 DEF GoOnRead
<1>3. lba \in Int
  OBVIOUS
<1>4. disk' \in Disk /\ Received(lba, sectors)'
  BY <1>2, <1>3, WordRead
<1> QED
  BY <1>2, <1>4

LEMMA ImageInit == Init => ImageInv
  BY DEF Init, ImageInv, Stages, Disk, Idle, Transfers

LEMMA ImageNext ==
  ASSUME Prompt = TRUE, ImageInv, [Next]_vars
  PROVE  ImageInv'
<1> USE SectorsAssumption DEF LoaderLba, KernelLba
<1>0. pc \in Stages /\ disk \in Disk /\ Transfers
  BY DEF ImageInv
<1>1. CASE ReadLoader
  <2>1. disk' \in Disk /\ Asked(LoaderLba, LoaderSectors)' /\ pc' = "wait_loader"
    BY <1>1, Ordered, ZenonT(40) DEF ReadLoader, Command
  <2> QED
    BY <2>1 DEF ImageInv, Transfers, Stages
<1>2. CASE ReadKernel
  <2>1. disk' \in Disk /\ Asked(KernelLba, KernelSectors)' /\ pc' = "wait_kernel"
    BY <1>2, Ordered DEF ReadKernel, Command
  <2> QED
    BY <2>1 DEF ImageInv, Transfers, Stages
<1>3. CASE LoaderReady
  <2>1. pc = "wait_loader" /\ pc' = "read_loader"
    BY <1>3 DEF LoaderReady, NotReady
  <2>2. disk' \in Disk /\ Sending(LoaderLba, LoaderSectors)'
    <3>1. Asked(LoaderLba, LoaderSectors) /\ NotReady("wait_loader", "read_loader")
      BY <1>0, <1>3, <2>1 DEF LoaderReady, Transfers
    <3> QED
      BY <3>1, <1>0, Begun
  <2> QED
    BY <2>1, <2>2 DEF ImageInv, Transfers, Stages
<1>4. CASE KernelReady
  <2>1. pc = "wait_kernel" /\ pc' = "read_kernel"
    BY <1>4 DEF KernelReady, NotReady
  <2>2. disk' \in Disk /\ Sending(KernelLba, KernelSectors)'
    <3>1. Asked(KernelLba, KernelSectors) /\ NotReady("wait_kernel", "read_kernel")
      BY <1>0, <1>4, <2>1 DEF KernelReady, Transfers
    <3> QED
      BY <3>1, <1>0, Begun
  <2> QED
    BY <2>1, <2>2 DEF ImageInv, Transfers, Stages
<1>5. CASE LoadLoader
  <2>1. pc = "read_loader"
    BY <1>5 DEF LoadLoader, GoOnRead
  <2>2. /\ disk' \in Disk /\ Received(LoaderLba, LoaderSectors)'
        /\ pc' = IF counter' = 0 THEN "memory" ELSE "read_loader"
    <3>1. Sending(LoaderLba, LoaderSectors) /\ GoOnRead("read_loader", "memory")
      BY <1>0, <1>5, <2>1 DEF LoadLoader, Transfers
    <3> QED
      BY <3>1, <1>0, ReadOn
  <2>3. CASE counter' = 0
    BY <2>2, <2>3 DEF Received, ImageInv, Transfers, Stages
  <2>4. CASE counter' # 0
    BY <2>2, <2>4 DEF Received, ImageInv, Transfers, Stages
  <2> QED
    BY <2>3, <2>4
<1>6. CASE LoadKernel
  <2>1. pc = "read_kernel"
    BY <1>6 DEF LoadKernel, GoOnRead
  <2>2. /\ disk' \in Disk /\ Received(KernelLba, KernelSectors)'
        /\ pc' = IF counter' = 0 THEN "sum" ELSE "read_kernel"
    <3>1. Sending(KernelLba, KernelSectors) /\ GoOnRead("read_kernel", "sum")
      BY <1>0, <1>6, <2>1 DEF LoadKernel, Transfers
    <3> QED
      BY <3>1, <1>0, ReadOn
  <2>3. CASE counter' = 0
    BY <2>2, <2>3 DEF Received, ImageInv, Transfers, Stages
  <2>4. CASE counter' # 0
    BY <2>2, <2>4 DEF Received, ImageInv, Transfers, Stages
  <2> QED
    BY <2>3, <2>4
<1>7. CASE GetMemStruct \/ GetMemFail \/ GetSvgaInfo \/ GetSvgaFail \/ SwitchMode \/ SumEntry
  <2>1. disk' = disk /\ image' = image /\ counter' = counter
    BY <1>7 DEF GetMemStruct, GetMemFail, GetSvgaInfo, GetSvgaFail, SwitchMode, SumEntry, diskVars
  <2>2. \/ /\ pc \in {"memory", "video", "switch"}
           /\ pc' \in {"memory", "video", "switch", "paused", "overwritten", "load"}
        \/ pc = "sum" /\ pc' \in {"sum", "done"}
    BY <1>7 DEF GetMemStruct, GetMemFail, GetSvgaInfo, GetSvgaFail, SwitchMode, SumEntry
  <2>3. Sectors(LoaderLba, LoaderSectors)' = Sectors(LoaderLba, LoaderSectors)
        /\ Sectors(KernelLba, KernelSectors)' = Sectors(KernelLba, KernelSectors)
        /\ Idle' = Idle
    BY DEF Sectors, Idle
  <2> QED
    BY <1>0, <2>1, <2>2, <2>3 DEF ImageInv, Transfers, Stages
<1>8. CASE DiskReady \/ DiskFails
  <2>1. /\ disk.state = "busy" /\ disk' \in Disk /\ disk'.state \in {"drq", "error"}
        /\ disk'.sector = disk.sector /\ disk'.word = disk.word /\ disk'.left = disk.left
        /\ pc' = pc /\ image' = image /\ counter' = counter
    BY <1>0, <1>8 DEF DiskReady, DiskFails, Disk
  <2>2. pc \in {"wait_loader", "wait_kernel"}
    BY <1>0, <2>1 DEF Transfers, Stages, Sending, Idle
  <2>3. pc = "wait_loader" => Asked(LoaderLba, LoaderSectors)'
    BY <1>0, <2>1 DEF Transfers, Asked
  <2>4. pc = "wait_kernel" => Asked(KernelLba, KernelSectors)'
    BY <1>0, <2>1 DEF Transfers, Asked
  <2> QED
    BY <2>1, <2>2, <2>3, <2>4 DEF ImageInv, Transfers, Stages
<1>9. CASE UNCHANGED vars
  BY <1>0, <1>9 DEF vars, diskVars, ImageInv, Transfers, Asked, Sending, Sectors, Idle
<1> QED
  BY <1>1, <1>2, <1>3, <1>4, <1>5, <1>6, <1>7, <1>8, <1>9 DEF Next, ProgramStep

\* The loader runs what the boot sector found on the disk and the kernel what
\* the loader found there, every word in its place, when the disk is prompt
\* (.not_ready and .go_on_read of boot/boot.asm and boot/loader.asm).
THEOREM ImagesIntact == Prompt = TRUE => (Spec => []ImageIntact)
<1> SUFFICES ASSUME Prompt = TRUE PROVE Spec => []ImageIntact
  OBVIOUS
<1>1. ImageInv => ImageIntact
  BY DEF ImageInv, Transfers, ImageIntact
<1> QED
  BY ImageInit, ImageNext, <1>1, PTL DEF Spec

-----------------------------------------------------------------------------
(* The sum of the memory map. *)

\* The function UsableUpTo is written as exists, from 0 on.
SumsTo(f, n) == f = [k \in 0 .. n |-> IF k = 0 THEN 0 ELSE f[k - 1] + Usable(ranges[k])]

LEMMA SumExists ==
  ASSUME NEW L \in Nat
  PROVE  \E f : SumsTo(f, L)
<1> DEFINE S == {n \in 0 .. L : ~ \E f : SumsTo(f, n)}
<1>1. S \in SUBSET Nat
  OBVIOUS
<1> SUFFICES ASSUME S # {} PROVE FALSE
  OBVIOUS
<1>2. PICK m \in S : \A y \in S : m <= y
  BY <1>1, LeastNatural
<1>3. m \in 0 .. L /\ ~ \E f : SumsTo(f, m)
  BY <1>2
<1>4. m # 0
  <2> SUFFICES ASSUME m = 0 PROVE FALSE
    OBVIOUS
  <2> DEFINE f == [k \in 0 .. 0 |-> 0]
  <2>1. f = [k \in 0 .. 0 |-> IF k = 0 THEN 0 ELSE f[k - 1] + Usable(ranges[k])]
    OBVIOUS
  <2>2. SumsTo(f, 0)
    BY <2>1 DEF SumsTo
  <2> QED
    BY <1>3, <2>2
<1> DEFINE p == m - 1
<1>5. p \in 0 .. L /\ p + 1 = m /\ ~(m <= p)
  BY <1>3, <1>4
<1>6. p \notin S
  BY <1>2, <1>5
<1>7. PICK f : SumsTo(f, p)
  BY <1>5, <1>6
<1> DEFINE g == [k \in 0 .. m |-> IF k = m THEN f[p] + Usable(ranges[m]) ELSE f[k]]
<1> HIDE DEF p
<1>8. \A k \in 0 .. p : f[k] = IF k = 0 THEN 0 ELSE f[k - 1] + Usable(ranges[k])
  BY <1>7 DEF SumsTo
<1>9. /\ \A k \in 0 .. p : g[k] = f[k]
      /\ g[m] = f[p] + Usable(ranges[m])
      /\ g = [k \in 0 .. m |-> g[k]]
  BY <1>3, <1>5
<1> HIDE DEF g
<1>10. ASSUME NEW k \in 0 .. m
       PROVE  g[k] = IF k = 0 THEN 0 ELSE g[k - 1] + Usable(ranges[k])
  <2>1. CASE k = m
    <3>1. k - 1 = p /\ p \in 0 .. p
      BY <1>5, <2>1
    <3>2. g[p] = f[p]
      BY <1>9, <3>1
    <3> QED
      BY <1>4, <1>9, <2>1, <3>1, <3>2
  <2>2. CASE k # m
    <3>1. k \in 0 .. p
      BY <1>3, <1>5, <2>2
    <3>2. CASE k = 0
      BY <1>8, <1>9, <3>1, <3>2
    <3>3. CASE k # 0
      <4>1. k - 1 \in 0 .. p
        BY <1>5, <3>1, <3>3
      <4>2. g[k - 1] = f[k - 1] /\ g[k] = f[k]
        BY <1>9, <3>1, <4>1
      <4> QED
        BY <1>8, <3>1, <3>3, <4>2
    <3> QED
      BY <3>2, <3>3
  <2> QED
    BY <2>1, <2>2
<1>11. SumsTo(g, m)
  BY <1>9, <1>10 DEF SumsTo
<1> QED
  BY <1>3, <1>11

LEMMA SumSteps ==
  ASSUME Len(ranges) \in Nat
  PROVE  /\ UsableUpTo[0] = 0
         /\ \A n \in 1 .. Len(ranges) : UsableUpTo[n] = UsableUpTo[n - 1] + Usable(ranges[n])
<1> DEFINE f == CHOOSE f : SumsTo(f, Len(ranges))
<1>1. SumsTo(f, Len(ranges))
  BY SumExists
<1>2. UsableUpTo = f
  BY DEF UsableUpTo, SumsTo
<1> HIDE DEF f
<1>3. \A k \in 0 .. Len(ranges) : f[k] = IF k = 0 THEN 0 ELSE f[k - 1] + Usable(ranges[k])
  BY <1>1 DEF SumsTo
<1> QED
  BY <1>2, <1>3

LEMMA RangeFields ==
  ASSUME ranges \in Seq(MemoryRange), NEW n \in 1 .. Len(ranges)
  PROVE  ranges[n].type \in Nat /\ ranges[n].length \in Nat /\ Usable(ranges[n]) \in Nat
<1>1. ranges[n] \in MemoryRange
  OBVIOUS
<1>2. ranges[n].type \in Types /\ ranges[n].length \in Lengths
  BY <1>1 DEF MemoryRange
<1>3. ranges[n].type \in Nat /\ ranges[n].length \in Nat
  BY <1>2, RangesAssumption
<1> QED
  BY <1>3 DEF Usable

\* The sums are natural numbers, and grow.
LEMMA SumsGrow ==
  ASSUME ranges \in Seq(MemoryRange), NEW L \in 0 .. Len(ranges)
  PROVE  /\ \A n \in 0 .. L : UsableUpTo[n] \in Nat
         /\ \A n \in 0 .. L : UsableUpTo[n] <= UsableUpTo[L]
<1>1. L \in Nat /\ Len(ranges) \in Nat /\ \A n \in 1 .. L : Usable(ranges[n]) \in Nat
  BY RangeFields
<1>2. UsableUpTo[0] = 0 /\ \A n \in 1 .. L : UsableUpTo[n] = UsableUpTo[n - 1] + Usable(ranges[n])
  BY <1>1, SumSteps
<1>3. \A n \in 0 .. L : UsableUpTo[n] \in Nat
  <2> DEFINE S == {n \in 0 .. L : UsableUpTo[n] \notin Nat}
  <2> SUFFICES ASSUME S # {} PROVE FALSE
    OBVIOUS
  <2>1. S \in SUBSET Nat
    OBVIOUS
  <2>2. PICK m \in S : \A y \in S : m <= y
    BY <2>1, LeastNatural
  <2>3. m \in 0 .. L /\ UsableUpTo[m] \notin Nat
    BY <2>2
  <2>4. m # 0
    BY <1>2, <2>3
  <2>5. m - 1 \in 0 .. L /\ m \in 1 .. L /\ ~(m <= m - 1)
    BY <1>1, <2>3, <2>4
  <2>6. m - 1 \notin S
    BY <2>2, <2>5
  <2>7. UsableUpTo[m - 1] \in Nat
    BY <2>5, <2>6
  <2>8. Usable(ranges[m]) \in Nat
    BY <1>1, <2>5
  <2>9. UsableUpTo[m] = UsableUpTo[m - 1] + Usable(ranges[m])
    BY <1>2, <2>5
  <2> QED
    BY <2>3, <2>7, <2>8, <2>9
<1>4. \A n \in 0 .. L : UsableUpTo[L - n] <= UsableUpTo[L]
  <2> DEFINE S == {n \in 0 .. L : ~(UsableUpTo[L - n] <= UsableUpTo[L])}
  <2> SUFFICES ASSUME S # {} PROVE FALSE
    OBVIOUS
  <2>1. S \in SUBSET Nat
    OBVIOUS
  <2>2. PICK m \in S : \A y \in S : m <= y
    BY <2>1, LeastNatural
  <2>3. m \in 0 .. L /\ ~(UsableUpTo[L - m] <= UsableUpTo[L])
    BY <2>2
  <2>4. m # 0
    <3> SUFFICES ASSUME m = 0 PROVE FALSE
      OBVIOUS
    <3>1. L - m = L /\ L \in 0 .. L
      BY <1>1
    <3>2. UsableUpTo[L] \in Nat
      BY <1>3, <3>1
    <3> QED
      BY <2>3, <3>1, <3>2
  <2> DEFINE k == L - m
  <2>5. k \in 0 .. L /\ k + 1 \in 1 .. L /\ k + 1 = L - (m - 1) /\ m - 1 \in 0 .. L /\ ~(m <= m - 1)
    BY <1>1, <2>3, <2>4
  <2> HIDE DEF k
  <2>6. UsableUpTo[k + 1] <= UsableUpTo[L]
    <3>1. m - 1 \notin S
      BY <2>2, <2>5
    <3>2. UsableUpTo[L - (m - 1)] <= UsableUpTo[L]
      BY <2>5, <3>1
    <3> QED
      BY <2>5, <3>2
  <2>7. UsableUpTo[k + 1] = UsableUpTo[k] + Usable(ranges[k + 1])
    <3>1. (k + 1) - 1 = k
      BY <2>5
    <3> QED
      BY <1>2, <2>5, <3>1
  <2>8. UsableUpTo[k] \in Nat /\ UsableUpTo[L] \in Nat /\ Usable(ranges[k + 1]) \in Nat
    <3>1. L \in 0 .. L
      BY <1>1
    <3> QED
      BY <1>1, <1>3, <2>5, <3>1
  <2>9. UsableUpTo[k] <= UsableUpTo[L]
    BY <2>6, <2>7, <2>8
  <2> QED
    BY <2>3, <2>9 DEF k
<1>5. \A n \in 0 .. L : L - n \in 0 .. L /\ L - (L - n) = n
  BY <1>1
<1>6. \A n \in 0 .. L : UsableUpTo[n] <= UsableUpTo[L]
  BY <1>4, <1>5
<1> QED
  BY <1>3, <1>6

-----------------------------------------------------------------------------
(* The table, and how far the sum has come. *)

Complete == whole /\ Len(ranges) <= TableRoom /\ \A r \in 1 .. Len(ranges) : ranges[r].type <= 4
LeastOf(m, n) == IF m <= n THEN m ELSE n

\* An entry that was stored is the range of that number or lies under the VBE block;
\* any other one is that block or what memory held.
TableFaithful ==
  \A e \in 0 .. TableRead :
    /\ table[e] \in MemoryRange \cup {Overlaid}
    /\ e < mapped => table[e] = ranges[e + 1] \/ (e >= TableRoom /\ table[e] = Overlaid)

MapInv ==
  /\ pc \in Stages
  /\ ranges \in Seq(MemoryRange) /\ mapped \in 0 .. Len(ranges)
  /\ whole \in BOOLEAN /\ (whole => mapped = Len(ranges))
  /\ DOMAIN table = 0 .. TableRead
  /\ TableFaithful

SumInv ==
  /\ i \in 0 .. TableRead /\ TotalMem \in Nat
  /\ pc \notin {"sum", "done"} => i = 0 /\ TotalMem = 0
  /\ pc = "sum" => i < TableRead /\ \A k \in 1 .. i : table[k].type <= 4
  /\ EndMarked => TotalMem <= UsableUpTo[LeastOf(i, mapped)]
  /\ Complete => TotalMem >= UsableUpTo[LeastOf(i, mapped)] /\ (pc = "done" => i >= mapped)

LEMMA MapInit == Init => MapInv
<1> SUFFICES ASSUME Init PROVE MapInv
  OBVIOUS
<1>1. ranges \in Seq(MemoryRange)
  <2>1. PICK n \in 1 .. MaxRanges : ranges \in [1 .. n -> MemoryRange]
    BY DEF Init
  <2> QED
    BY <2>1
<1>2. 0 \in 0 .. Len(ranges)
  BY <1>1
<1>3. table \in [0 .. TableRead -> MemoryRange] /\ mapped = 0
  BY DEF Init
<1>4. TableFaithful
  BY <1>3 DEF TableFaithful
<1> QED
  BY <1>1, <1>2, <1>3, <1>4 DEF Init, MapInv, Stages

LEMMA MapNext == ASSUME MapInv, [Next]_vars PROVE MapInv' /\ ranges' = ranges
<1> USE TableAssumption
<1>0. /\ pc \in Stages /\ ranges \in Seq(MemoryRange) /\ mapped \in 0 .. Len(ranges)
      /\ whole \in BOOLEAN /\ (whole => mapped = Len(ranges))
      /\ DOMAIN table = 0 .. TableRead /\ TableFaithful
  BY DEF MapInv
<1>1. CASE UNCHANGED <<ranges, table, mapped, whole>> /\ pc' \in Stages
  BY <1>0, <1>1 DEF MapInv, TableFaithful
<1>2. CASE GetMemStruct
  <2>1. /\ mapped < Len(ranges) /\ mapped' = mapped + 1 /\ ranges' = ranges
        /\ whole' = (mapped' = Len(ranges)) /\ pc' \in Stages
        /\ table' = IF mapped <= TableRead THEN [table EXCEPT ![mapped] = ranges[mapped + 1]] ELSE table
    BY <1>2 DEF GetMemStruct, Stages
  <2>2. mapped \in Nat /\ mapped' \in 0 .. Len(ranges') /\ whole' \in BOOLEAN
    BY <1>0, <2>1
  <2>3. DOMAIN table' = 0 .. TableRead
    BY <1>0, <2>1
  <2>4. \A e \in 0 .. TableRead : table'[e] = IF e = mapped THEN ranges[e + 1] ELSE table[e]
    BY <1>0, <2>1, <2>2
  <2>5. \A e \in 0 .. TableRead : e < mapped' <=> e < mapped \/ e = mapped
    BY <2>1, <2>2
  <2>6. ranges[mapped + 1] \in MemoryRange
    <3>1. mapped + 1 \in 1 .. Len(ranges)
      BY <2>1, <2>2
    <3> QED
      BY <1>0, <3>1
  <2>7. TableFaithful'
    <3> SUFFICES ASSUME NEW e \in 0 .. TableRead
                 PROVE  /\ table'[e] \in MemoryRange \cup {Overlaid}
                        /\ e < mapped' => \/ table'[e] = ranges[e + 1]
                                          \/ e >= TableRoom /\ table'[e] = Overlaid
      BY <2>1 DEF TableFaithful, Overlaid
    <3>1. CASE e = mapped
      BY <2>4, <2>6, <3>1
    <3>2. CASE e # mapped
      BY <1>0, <2>4, <2>5, <3>2 DEF TableFaithful
    <3> QED
      BY <3>1, <3>2
  <2> QED
    BY <1>0, <2>1, <2>2, <2>3, <2>7 DEF MapInv
<1>3. CASE GetSvgaInfo
  <2>1. /\ table' = [e \in DOMAIN table |-> IF e < TableRoom THEN table[e] ELSE Overlaid]
        /\ UNCHANGED <<ranges, mapped, whole>> /\ pc' \in Stages
    BY <1>3 DEF GetSvgaInfo, Stages
  <2>2. DOMAIN table' = 0 .. TableRead
    BY <1>0, <2>1
  <2>3. \A e \in 0 .. TableRead : table'[e] = IF e < TableRoom THEN table[e] ELSE Overlaid
    BY <1>0, <2>1
  <2>4. TableFaithful'
    BY <1>0, <2>1, <2>3 DEF TableFaithful, Overlaid
  <2> QED
    BY <1>0, <2>1, <2>2, <2>4 DEF MapInv
<1>4. CASE UNCHANGED vars
  BY <1>0, <1>1, <1>4 DEF vars, mapVars
<1>5. ASSUME ProgramStep \/ DiskReady \/ DiskFails, ~GetMemStruct, ~GetSvgaInfo
      PROVE  UNCHANGED <<ranges, table, mapped, whole>> /\ pc' \in Stages
  BY <1>0, <1>5 DEF ProgramStep, ReadLoader, LoaderReady, LoadLoader, GetMemFail, GetSvgaFail, SwitchMode,
     ReadKernel, KernelReady, LoadKernel, SumEntry, DiskReady, DiskFails, Command, NotReady, GoOnRead,
     mapVars, Stages
<1> QED
  BY <1>1, <1>2, <1>3, <1>4, <1>5 DEF Next, MapInv, GetMemStruct, GetSvgaInfo, vars, mapVars

\* The types and lengths in the table are natural numbers.
LEMMA EntryFields ==
  ASSUME MapInv, NEW e \in 0 .. TableRead
  PROVE  table[e].type \in Nat /\ table[e].length \in Nat
<1>1. table[e] \in MemoryRange \cup {Overlaid}
  BY DEF MapInv, TableFaithful
<1>2. CASE table[e] \in MemoryRange
  BY <1>2, RangesAssumption DEF MemoryRange
<1>3. CASE table[e] = Overlaid
  BY <1>3 DEF Overlaid
<1> QED
  BY <1>1, <1>2, <1>3

LEMMA SumInit == ASSUME Init PROVE SumInv
<1>1. ranges \in Seq(MemoryRange) /\ Len(ranges) \in Nat
  BY MapInit DEF MapInv
<1>2. LeastOf(i, mapped) = 0 /\ UsableUpTo[0] = 0
  BY <1>1, SumSteps DEF Init, LeastOf
<1> QED
  BY <1>1, <1>2, TableAssumption DEF Init, SumInv

\* One turn of the loop of init_memory.
LEMMA SumEntryKeeps == ASSUME MapInv, SumInv, SumEntry PROVE SumInv'
<1> USE TableAssumption
<1> DEFINE L == Len(ranges)
           added == IF table[i].type = 1 THEN table[i].length ELSE 0
<1>0. /\ ranges \in Seq(MemoryRange) /\ L \in Nat /\ mapped \in 0 .. L /\ (whole => mapped = L)
      /\ TableFaithful
  BY DEF MapInv
<1>1. /\ i \in 0 .. TableRead /\ i < TableRead /\ TotalMem \in Nat
      /\ \A k \in 1 .. i : table[k].type <= 4
      /\ EndMarked => TotalMem <= UsableUpTo[LeastOf(i, mapped)]
      /\ Complete => TotalMem >= UsableUpTo[LeastOf(i, mapped)]
  BY DEF SumInv, SumEntry
<1>2. /\ TotalMem' = TotalMem + added /\ i' = i + 1
      /\ pc' = (IF table[i + 1].type > 4 \/ i + 1 = TableRead THEN "done" ELSE "sum")
      /\ UNCHANGED <<ranges, table, mapped, whole>>
  BY DEF SumEntry, mapVars
<1>3. UsableUpTo' = UsableUpTo /\ Complete' = Complete /\ EndMarked' = EndMarked
  BY <1>2 DEF UsableUpTo, Usable, Complete, EndMarked
<1>4. added \in Nat /\ table[i + 1].type \in Nat
  <2>1. i \in 0 .. TableRead /\ i + 1 \in 0 .. TableRead
    BY <1>1
  <2> QED
    BY <2>1, EntryFields
<1>5. /\ i' \in 0 .. TableRead /\ pc' \in {"sum", "done"}
      /\ pc' = "sum" => i' < TableRead /\ \A k \in 1 .. i' : table[k].type <= 4
  <2>1. \A k \in 1 .. i + 1 : k \in 1 .. i \/ k = i + 1
    BY <1>1
  <2> HIDE DEF added
  <2>2. pc' = "sum" => table[i + 1].type <= 4
    BY <1>2, <1>4
  <2> QED
    BY <1>1, <1>2, <2>1, <2>2
<1>6. /\ \A n \in 0 .. mapped : UsableUpTo[n] \in Nat
      /\ \A n \in 1 .. mapped : UsableUpTo[n] = UsableUpTo[n - 1] + Usable(ranges[n])
  BY <1>0, SumsGrow, SumSteps
<1>7. \A n \in 1 .. mapped : /\ Usable(ranges[n]) = IF ranges[n].type = 1 THEN ranges[n].length ELSE 0
                             /\ Usable(ranges[n]) \in Nat
  BY <1>0, RangeFields DEF Usable
<1>8. CASE i < mapped
  <2>1. LeastOf(i, mapped) = i /\ LeastOf(i, mapped)' = i + 1 /\ i + 1 \in 1 .. mapped
        /\ i \in 0 .. mapped /\ (i + 1) - 1 = i
    BY <1>0, <1>1, <1>2, <1>8 DEF LeastOf
  <2>2. UsableUpTo[i + 1] = UsableUpTo[i] + Usable(ranges[i + 1])
    BY <1>6, <2>1
  <2>3. UsableUpTo[i] \in Nat /\ Usable(ranges[i + 1]) \in Nat
    BY <1>6, <1>7, <2>1
  <2>4. table[i] = ranges[i + 1] \/ (i >= TableRoom /\ table[i] = Overlaid)
    BY <1>0, <1>1, <1>8 DEF TableFaithful
  <2>5. added \in {0, Usable(ranges[i + 1])}
    BY <1>7, <2>1, <2>4 DEF Overlaid
  <2>6. Complete => added = Usable(ranges[i + 1])
    <3>1. Complete => table[i] = ranges[i + 1]
      BY <1>0, <1>1, <1>8, <2>4 DEF Complete
    <3> QED
      BY <1>7, <2>1, <3>1
  <2>7. Complete => (pc' = "done" => i' >= mapped)
    <3> SUFFICES ASSUME Complete, i + 1 < mapped PROVE pc' = "sum"
      BY <1>0, <1>1, <1>2
    <3>1. i + 1 < TableRoom /\ i + 1 \in 0 .. TableRead /\ i + 1 # TableRead
      BY <1>0, <1>1 DEF Complete
    <3>2. table[i + 1] = ranges[(i + 1) + 1]
      BY <1>0, <1>1, <3>1 DEF TableFaithful
    <3>3. (i + 1) + 1 \in 1 .. L
      BY <1>0, <1>1
    <3>4. ranges[(i + 1) + 1].type <= 4 /\ ranges[(i + 1) + 1].type \in Nat
      BY <1>0, <3>3, RangeFields DEF Complete
    <3> QED
      BY <1>2, <3>1, <3>2, <3>4
  <2> HIDE DEF added
  <2>8. /\ TotalMem' \in Nat
        /\ EndMarked => TotalMem' <= UsableUpTo[i + 1]
        /\ Complete => TotalMem' >= UsableUpTo[i + 1]
    BY <1>1, <1>2, <2>1, <2>2, <2>3, <2>5, <2>6
  <2> QED
    BY <1>2, <1>3, <1>5, <2>1, <2>7, <2>8 DEF SumInv
<1>9. CASE i >= mapped
  <2>1. LeastOf(i, mapped) = mapped /\ LeastOf(i, mapped)' = mapped /\ i' >= mapped
    BY <1>0, <1>1, <1>2, <1>9 DEF LeastOf
  <2>2. EndMarked => added = 0
    <3> SUFFICES ASSUME EndMarked, table[i].type = 1 PROVE FALSE
      OBVIOUS
    <3>1. i \in mapped .. TableRead - 1
      BY <1>0, <1>1, <1>9
    <3>2. PICK k \in mapped .. i : k > 0 /\ table[k].type > 4
      BY <3>1 DEF EndMarked
    <3>3. k \in 1 .. i /\ k \in 0 .. TableRead
      BY <1>0, <1>1, <3>2
    <3>4. table[k].type <= 4 /\ table[k].type \in Nat
      BY <1>1, <3>3, EntryFields
    <3> QED
      BY <3>2, <3>4
  <2> HIDE DEF added
  <2>3. UsableUpTo[mapped] \in Nat
    BY <1>0, <1>6
  <2>4. /\ TotalMem' \in Nat
        /\ EndMarked => TotalMem' <= UsableUpTo[mapped]
        /\ Complete => TotalMem' >= UsableUpTo[mapped]
    BY <1>1, <1>2, <1>4, <2>1, <2>2, <2>3
  <2> QED
    BY <1>2, <1>3, <1>5, <2>1, <2>4 DEF SumInv
<1> QED
  BY <1>0, <1>1, <1>8, <1>9

LEMMA SumNext == ASSUME MapInv, SumInv, [Next]_vars PROVE SumInv'
<1>1. CASE SumEntry
  BY <1>1, SumEntryKeeps
<1>2. CASE ~SumEntry
  <2> USE DEF Next, ProgramStep, ReadLoader, LoaderReady, LoadLoader, GetMemStruct, GetMemFail,
       GetSvgaInfo, GetSvgaFail, SwitchMode, ReadKernel, KernelReady, LoadKernel, DiskReady, DiskFails,
       Command, NotReady, GoOnRead, vars
  <2>1. UNCHANGED sumVars /\ ranges' = ranges
    BY <1>2, MapNext
  <2>2. pc \in {"sum", "done"} => UNCHANGED <<pc, mapVars>>
    BY <1>2
  <2>3. pc' = "done" => pc = "done"
    BY <1>2
  <2> HIDE DEF Next, ProgramStep, ReadLoader, LoaderReady, LoadLoader, GetMemStruct, GetMemFail,
       GetSvgaInfo, GetSvgaFail, SwitchMode, ReadKernel, KernelReady, LoadKernel, DiskReady, DiskFails,
       Command, NotReady, GoOnRead, vars
  <2>4. UsableUpTo' = UsableUpTo
    BY <2>1 DEF UsableUpTo, Usable
  <2>5. CASE pc \in {"sum", "done"}
    <3>1. UNCHANGED <<pc, mapVars>> /\ Complete' = Complete /\ EndMarked' = EndMarked
          /\ LeastOf(i, mapped)' = LeastOf(i, mapped)
      BY <2>1, <2>2, <2>5 DEF Complete, EndMarked, LeastOf, mapVars, sumVars
    <3> QED
      BY <2>1, <2>4, <3>1 DEF SumInv, sumVars, mapVars
  <2>6. CASE pc \notin {"sum", "done"}
    <3>1. i = 0 /\ TotalMem = 0 /\ pc' # "done"
      BY <2>3, <2>6 DEF SumInv
    <3>2. ranges \in Seq(MemoryRange) /\ Len(ranges) \in Nat /\ mapped' \in Nat
      BY MapNext DEF MapInv
    <3>3. LeastOf(i, mapped)' = 0 /\ UsableUpTo[0] = 0
      BY <2>1, <3>1, <3>2, SumSteps DEF LeastOf, sumVars
    <3> QED
      BY <2>1, <2>4, <3>1, <3>3, TableAssumption DEF SumInv, sumVars
  <2> QED
    BY <2>5, <2>6
<1> QED
  BY <1>1, <1>2

\* Whatever the BIOS reports, memory held and the VBE block is laid over: init_memory
\* counts no range that is not usable, none twice and none that was not stored, if an
\* entry with a type above 4 comes before the first one behind the map that reads as
\* usable.  Without such an entry it adds what was left over.
THEOREM TotalAlwaysWithinRam == Spec => []TotalWithinRam
<1>1. ASSUME MapInv, SumInv PROVE TotalWithinRam
  <2>1. ranges \in Seq(MemoryRange) /\ mapped \in 0 .. Len(ranges) /\ i \in Nat /\ TotalMem \in Nat
    BY <1>1, TableAssumption DEF MapInv, SumInv
  <2>2. LeastOf(i, mapped) \in 0 .. mapped /\ mapped \in 0 .. mapped
    BY <2>1 DEF LeastOf
  <2>3. /\ UsableUpTo[LeastOf(i, mapped)] \in Nat /\ UsableUpTo[mapped] \in Nat
        /\ UsableUpTo[LeastOf(i, mapped)] <= UsableUpTo[mapped]
    BY <2>1, <2>2, SumsGrow
  <2>4. EndMarked => TotalMem <= UsableUpTo[LeastOf(i, mapped)]
    BY <1>1 DEF SumInv
  <2> QED
    BY <2>1, <2>3, <2>4 DEF TotalWithinRam
<1> QED
  BY MapInit, MapNext, SumInit, SumNext, <1>1, PTL DEF Spec

\* init_memory misses no usable range, whatever memory held behind the map, when the
\* BIOS reported all of the map, it fits in the table, and its types are up to 4.
THEOREM TotalAlwaysCoversRam == Spec => []TotalCoversRam
<1>1. ASSUME MapInv, SumInv PROVE TotalCoversRam
  <2> SUFFICES ASSUME pc = "done", Complete PROVE TotalMem >= UsableUpTo[Len(ranges)]
    BY DEF TotalCoversRam, Complete
  <2>1. mapped = Len(ranges) /\ Len(ranges) \in Nat /\ i \in Nat
    BY <1>1, TableAssumption DEF SumInv, MapInv, Complete
  <2>2. TotalMem >= UsableUpTo[LeastOf(i, mapped)] /\ i >= mapped
    BY <1>1 DEF SumInv
  <2>3. LeastOf(i, mapped) = Len(ranges)
    BY <2>1, <2>2 DEF LeastOf
  <2> QED
    BY <2>2, <2>3
<1> QED
  BY MapInit, MapNext, SumInit, SumNext, <1>1, PTL DEF Spec
=============================================================================

SPECIFICATION AllSpec
CONSTANTS
  p1 = p1
  p2 = p2
  kthread = kthread
  etc = etc
  tmp = tmp
  f1 = f1
  f2 = f2
  g1 = g1
  v1 = v1
  v2 = v2
  h1 = h1
  h2 = h2
  port1 = port1
  port2 = port2
  usb1 = usb1
  usb2 = usb2
  hubkey = hubkey
  unit = unit
  None = None
  work = work
  home = home
  fox = fox
  other = other
  page = page
  bar = bar
  exe = exe
  jar = jar
  ext = ext
  ProcPids = {p1, p2, kthread}
  KernelPids = {kthread}
  MaxForks = 3
  Dirs <- TwoDirs
  PolledFiles = {f1, f2, g1}
  DirOf <- TwoInEtc
  Versions = {v1, v2}
  ListErrors = TRUE
  MaxFileChanges = 3
  BurstWindow = 1
  MinFiles = 2
  MaxBurstTime = 4
  MaxEvents = 5
  Hosts = {h1, h2}
  Ports = {port1, port2}
  ScanWindow = 1
  Vertical = 2
  Horizontal = 2
  Storm = 3
  MaxScanTime = 2
  MaxConns = 4
  Devices = {usb1, usb2}
  KeyOf <- OneUsbKey
  SubEntries = {}
  Services = {unit}
  Entries <- SomeEntries
  MaxSent = 2
  Bases <- ThreeBases
  Firefox = {fox}
  Pages = {page, bar}
  Downloads = {exe, jar}
  Extensions = {ext}
  Piped = {bar}
  Fragment <- TitleNumber
  MaxStamp = 5
  Dangerous = {exe, jar}
  Malicious = {ext}
  IpUrls = {page}
  BadTlds = {page}
  Limit <- OneRow
  DownloadWindow = 2
  MaxRows = 3
  Absent = Absent
  Pids = {1, 2}
  FullEvery = 2
  MaxInode = 2
  Keys <- TwoKeys
  Fast <- OneKey
  UseDiag = TRUE
  Uid = 1
  MaxChanges = 4
INVARIANTS
  AllTyped
  EventsFollowTracker
  ScannedOwnersFound
  KnownMatchesEvents
  AlertsExact
  VerdictsExact
  EventsMatchRecords
  RowsSeenOnce
PROPERTIES
  NewcomersAnnounced
CHECK_DEADLOCK FALSE

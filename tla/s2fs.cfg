SPECIFICATION Spec
CONSTANTS
  Reader = {r1, r2}
  TextLen = 3
  Counts = {0, 1, 2, 3, 4}
  MayFail = {"root inode", "root dentry", "foo dentry", "foo inode", "bar dentry", "bar inode"}
INVARIANTS TypeOK NothingLeft MountedTreeWhole ReadsPrefix
CHECK_DEADLOCK FALSE

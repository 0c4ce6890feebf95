CONSTANTS
  idle = idle
  walking = walking
  stunned = stunned
  body = body
  motion = motion
  hand = hand
  States = {idle, walking, stunned}
  Components = {body, motion, hand}
  Values = {given, written}
  Delayed = {stunned}
  Persist <- MCPersist
  Plain <- MCPlain
  Add <- MCAdd
  Fields <- MCNoFields
  Remove <- MCRemove
  Freeze <- MCFreeze
  Store <- MCStore
  LocalCopy <- MCLocalCopy
  InitCopy <- MCInitCopy
  Given = given
  None = None
  MaxTimers = 2

SPECIFICATION Spec

PROPERTY ListsAreKept

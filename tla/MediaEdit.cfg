\* One video in one post: its author edits the text, and a month later the cleanup runs.
SPECIFICATION MediaSpec

CONSTANTS
    Owners = {o1}
    Clips = {c1}
    Callers = {k1}
    MaxRows = 1
    MaxUses = 4
    MaxOutages = 1
    MediaQueueCap = 1
    MediaSurface = {"post", "edit", "cleanup"}

INVARIANT PostedVideoStays

CHECK_DEADLOCK FALSE

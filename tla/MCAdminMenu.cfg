CONSTANTS
  MaxChannels = 3
  MaxPresses = 2
  MaxFrames = 3
SPECIFICATION Spec
INVARIANTS TypeOK ListIsServed AckedIsListed OncePerPress MenusAgree

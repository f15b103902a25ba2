CONSTANTS
  near = near
  far = far
  Servers <- MCServers
  Writable = {near, far}
  Blobs = {b1}
  Callers = {c1, c2}
  MaxBackoff = 4
  MaxErrors = 3
SPECIFICATION Spec
PROPERTY BlobsAreFound
